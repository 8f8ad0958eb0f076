-------------------------------- MODULE Orbit -------------------------------
(***************************************************************************)
(* Orbit (orbit.ts, OrbitService): one daily run of an agent that sums up   *)
(* what the user's connectors saw.  The service keeps the preferences of    *)
(* the user, one timer, the start in progress and the run in flight; a run  *)
(* that is over leaves a summary in a file which is read, changed and       *)
(* written back.  A start awaits its template, the configuration and the    *)
(* staging of the template's files (the handler of server.ts) before the    *)
(* agent is started.  The Run-now button shares what the timer began, the   *)
(* preferences change meanwhile, the daemon shuts down, crashes and boots.  *)
(***************************************************************************)
EXTENDS Naturals, FiniteSets

CONSTANTS
    Times,      \* times of day a user may choose
    Templates,  \* skills a summary may be made with
    Slots       \* bound: runs at a time

None == "none"

ASSUME OrbitAssumption == None \notin Times \cup Templates \cup Slots

VARIABLES
    saved,     \* the preferences in app-config.json: [plan, template]
    config,    \* OrbitService.config; no plan is enabled = false
    booting,   \* the preferences are read for the first time
    timer,     \* the plan the timer is set for
    armed,     \* timers of Node that are running, in the field or not
    joined,    \* a timer's callback awaits the start in progress
    starting,  \* the start in progress
    inflight,  \* the run in flight
    run,       \* [phase, template, read] of every run
    agent,     \* its agent run
    store,     \* the file of summaries: [last, by]
    given,     \* the last outcome written for a template (no variable of the code)
    daemon     \* "up", "draining" (shutdownActive waits), "stopped", "down"

prefs == <<saved, config, booting>>
clock == <<timer, armed>>
calls == <<joined, starting, inflight>>
runs  == <<run, agent>>
files == <<store, given>>
vars  == <<prefs, clock, calls, runs, files, daemon>>

Outcomes == {"succeeded", "failed", "canceled"}
NoPrefs  == [plan |-> None, template |-> None]
NoStore  == [last |-> None, by |-> [t \in Templates |-> None]]
NoRun    == [phase |-> "free", template |-> None, read |-> NoStore]

Init ==
    /\ saved = NoPrefs /\ config = NoPrefs /\ booting = TRUE
    /\ timer = None /\ armed = 0
    /\ joined = FALSE /\ starting = None /\ inflight = None
    /\ run = [s \in Slots |-> NoRun]
    /\ agent = [s \in Slots |-> "none"]
    /\ store = NoStore
    /\ given = [t \in Templates |-> None]
    /\ daemon = "up"

Alive   == daemon # "down"
Started == daemon \in {"up", "draining"}  \* HTTP requests are answered

-----------------------------------------------------------------------------
(* Scheduling                                                               *)

Held == IF timer = None THEN 0 ELSE 1

\* reschedule: the timer is cleared and another one set for the plan.
Reschedule(plan) ==
    /\ timer' = plan
    /\ armed' = armed - Held + IF plan = None THEN 0 ELSE 1

\* PUT /api/app-config.  Writes of the file are serialised and each one is
\* followed by its configure, so that the two are one step.
Configure(p) ==
    /\ Started
    /\ saved' = p /\ config' = p
    /\ Reschedule(p.plan)
    /\ UNCHANGED <<booting, calls, runs, files, daemon>>

\* The preferences have been read at boot.
Configured ==
    /\ Alive /\ booting
    /\ config' = saved /\ booting' = FALSE
    /\ Reschedule(saved.plan)
    /\ UNCHANGED <<saved, calls, runs, files, daemon>>

-----------------------------------------------------------------------------
(* Starts                                                                   *)

\* Mutant of Joins: only a run in flight is shared.
JoinsRun == inflight # None

\* start: a run in flight or a start in progress is shared.
Joins == inflight # None \/ starting # None

\* Bound: a run that is over is forgotten and its slot used again.
Forgotten(s) ==
    /\ run' = [run EXCEPT ![s] = NoRun]
    /\ agent' = [agent EXCEPT ![s] = "none"]

\* start: or a new one is begun, with the template of the moment.
Begun ==
    \E s \in Slots :
        /\ run[s].phase = "free"
        /\ run' = [run EXCEPT ![s] = [phase |-> "template", template |-> config.template,
                                      read |-> NoStore]]
        /\ starting' = s
        /\ UNCHANGED <<inflight, agent>>

\* The timer goes off.  A run in flight answers at once, a start in progress
\* is awaited.
Fire ==
    /\ Alive /\ armed > 0
    /\ timer' = None /\ armed' = armed - 1
    /\ IF inflight # None THEN UNCHANGED <<calls, runs>>
       ELSE /\ joined' = TRUE
            /\ IF Joins THEN UNCHANGED <<starting, inflight, runs>> ELSE Begun
    /\ UNCHANGED <<prefs, files, daemon>>

\* POST /api/orbit/run
RunNow ==
    /\ Started
    /\ ~Joins /\ Begun
    /\ UNCHANGED <<prefs, clock, joined, files, daemon>>

\* The template has been looked up (or not found), the configuration and the
\* agents read; project, conversation, run and messages are there.
Prepare(s) ==
    /\ Alive /\ run[s].phase = "template"
    /\ run' = [run EXCEPT ![s].phase = "staging"]
    /\ agent' = [agent EXCEPT ![s] = "queued"]
    /\ UNCHANGED <<prefs, clock, calls, files, daemon>>

\* Mutant of Settled: a start that failed does not set the timer again.
SettledQuietly == UNCHANGED clock

\* start('scheduled').catch: a timer's callback whose start failed sets the
\* next one, whoever began that start.
Settled == IF joined THEN Reschedule(config.plan) ELSE UNCHANGED clock

\* No agent, no row, or files that cannot be staged; in the last case the run
\* has been created, stays queued and is nobody's.
Refuse(s) ==
    /\ Alive /\ run[s].phase \in {"template", "staging"}
    /\ Forgotten(s)
    /\ starting' = None /\ joined' = FALSE
    /\ Settled
    /\ UNCHANGED <<prefs, inflight, files, daemon>>

\* The agent run is started unless it was canceled meanwhile; shutdown is not
\* asked about.
Launch(s) ==
    /\ Alive /\ run[s].phase = "staging"
    /\ run' = [run EXCEPT ![s].phase = "watched"]
    /\ agent' = [agent EXCEPT ![s] = IF @ = "queued" THEN "running" ELSE @]
    /\ starting' = None /\ joined' = FALSE
    /\ inflight' = s
    /\ UNCHANGED <<prefs, clock, files, daemon>>

-----------------------------------------------------------------------------
(* The end of a run and its summary                                         *)

\* A queued run can be canceled, a running one ends in any way.
AgentEnds(s, outcome) ==
    /\ Alive
    /\ \/ agent[s] = "running"
       \/ agent[s] = "queued" /\ outcome = "canceled"
    /\ agent' = [agent EXCEPT ![s] = outcome]
    /\ UNCHANGED <<prefs, clock, calls, run, files, daemon>>

\* writeLastSummary: the file is read once the agent has ended.
ReadStore(s) ==
    /\ Alive /\ run[s].phase = "watched" /\ agent[s] \in Outcomes
    /\ run' = [run EXCEPT ![s].phase = "writing", ![s].read = store]
    /\ UNCHANGED <<prefs, clock, calls, agent, files, daemon>>

\* A success without a live artifact of this run counts as a failure.
Verdicts(s) == {agent[s]} \cup (IF agent[s] = "succeeded" THEN {"failed"} ELSE {})

\* Mutant of Merged: the summaries of other templates are not kept.
MergedAlone(old, t, v) ==
    [last |-> v, by |-> [u \in Templates |-> IF u = t THEN v ELSE None]]

\* writeLastSummary: what is written for what was read.
Merged(old, t, v) ==
    [last |-> v, by |-> [u \in Templates |-> IF u = t THEN v ELSE old.by[u]]]

\* The finally of the run: nothing is in flight and the timer is set again.
Ended(s) ==
    /\ Forgotten(s)
    /\ inflight' = None
    /\ Reschedule(config.plan)

\* The rename.
WriteStore(s, v) ==
    /\ Alive /\ run[s].phase = "writing"
    /\ store' = Merged(run[s].read, run[s].template, v)
    /\ given' = [t \in Templates |-> IF t = run[s].template THEN v ELSE given[t]]
    /\ Ended(s)
    /\ UNCHANGED <<prefs, joined, starting, daemon>>

\* Mutant of Lose: what was to be done at the end is done after the write only.
LoseQuietly(s) ==
    /\ Alive /\ agent[s] \in Outcomes
    /\ run[s].phase \in {"watched", "writing"}
    /\ Forgotten(s)
    /\ inflight' = None
    /\ UNCHANGED <<prefs, clock, joined, starting, files, daemon>>

\* The messages, the artifacts or the file could not be read or written.
Lose(s) ==
    /\ Alive /\ agent[s] \in Outcomes
    /\ run[s].phase \in {"watched", "writing"}
    /\ Ended(s)
    /\ UNCHANGED <<prefs, joined, starting, files, daemon>>

-----------------------------------------------------------------------------
(* The daemon                                                               *)

\* shutdownActive cancels the runs there are; the timer and starts go on.
Shutdown ==
    /\ daemon = "up"
    /\ daemon' = "draining"
    /\ agent' = [s \in Slots |-> IF agent[s] \in {"queued", "running"} THEN "canceled"
                                 ELSE agent[s]]
    /\ UNCHANGED <<prefs, clock, calls, run, files>>

\* stop(); a run that ends later sets the timer again all the same.
Stop ==
    /\ daemon = "draining"
    /\ daemon' = "stopped"
    /\ Reschedule(None)
    /\ UNCHANGED <<prefs, calls, runs, files>>

\* The process ends, by itself or by a crash.
Exit ==
    /\ Alive
    /\ daemon' = "down"
    /\ config' = NoPrefs /\ booting' = TRUE
    /\ timer' = None /\ armed' = 0
    /\ joined' = FALSE /\ starting' = None /\ inflight' = None
    /\ run' = [s \in Slots |-> NoRun]
    /\ agent' = [s \in Slots |-> "none"]
    /\ UNCHANGED <<saved, files>>

Boot ==
    /\ daemon = "down"
    /\ daemon' = "up"
    /\ UNCHANGED <<prefs, clock, calls, runs, files>>

-----------------------------------------------------------------------------

Starting(s) == Prepare(s) \/ Refuse(s) \/ Launch(s)

Completing(s) == ReadStore(s) \/ Lose(s) \/ \E v \in Verdicts(s) : WriteStore(s, v)

Ending(s) == agent[s] = "running" /\ \E outcome \in Outcomes : AgentEnds(s, outcome)

Next ==
    \/ \E plan \in Times \cup {None}, template \in Templates \cup {None} :
          Configure([plan |-> plan, template |-> template])
    \/ Configured \/ Fire \/ RunNow
    \/ \E s \in Slots :
          \/ Starting(s) \/ Completing(s)
          \/ \E outcome \in Outcomes : AgentEnds(s, outcome)
    \/ Shutdown \/ Stop \/ Exit \/ Boot

Spec == Init /\ [][Next]_vars

\* The timer goes off, the awaits of the handler and of the summary are
\* answered, agent runs end (ChatRun); nobody need ask for anything.
Fairness ==
    /\ WF_vars(Fire)
    /\ \A s \in Slots : /\ WF_vars(Starting(s)) /\ WF_vars(Completing(s))
                        /\ WF_vars(Ending(s))

FairSpec == Spec /\ Fairness

-----------------------------------------------------------------------------
(* Properties                                                               *)

Preferences == [plan : Times \cup {None}, template : Templates \cup {None}]
Stores == [last : Outcomes \cup {None}, by : [Templates -> Outcomes \cup {None}]]

\* Type correctness of the state.
TypeOK ==
    /\ saved \in Preferences /\ config \in Preferences /\ booting \in BOOLEAN
    /\ timer \in Times \cup {None} /\ armed \in Nat
    /\ joined \in BOOLEAN
    /\ starting \in Slots \cup {None} /\ inflight \in Slots \cup {None}
    /\ run \in [Slots -> [phase : {"free", "template", "staging", "watched", "writing"},
                          template : Templates \cup {None}, read : Stores]]
    /\ agent \in [Slots -> Outcomes \cup {"none", "queued", "running"}]
    /\ store \in Stores
    /\ given \in [Templates -> Outcomes \cup {None}]
    /\ daemon \in {"up", "draining", "stopped", "down"}

InProgress(s) == run[s].phase \in {"template", "staging", "watched", "writing"}

\* At most one run of Orbit is under way, from the first await of its start to
\* the write of its summary, and it is the one the timer and the button share;
\* its agent works for nobody else.
OneRun ==
    /\ \A s \in Slots : InProgress(s) => s \in {starting, inflight}
    /\ starting = None \/ inflight = None
    /\ \A s \in Slots : agent[s] = "running" => inflight = s
    /\ joined => starting # None

\* The file holds for every template the outcome of its last run that was
\* written, whatever other runs, failures and crashes there were: no summary
\* is written back over a newer one.
SummariesAreKept == store.by = given

\* Every timer that runs is the one in the field, and it is set for the plan
\* of the moment.
TimerIsCurrent ==
    /\ armed = Held
    /\ timer # None => timer = config.plan

\* Orbit as a job that is wanted or not, until stop(): it is waiting for its
\* time, being started or in flight, whatever else happens.
Scheduled == INSTANCE Cadence WITH
    Jobs    <- {"orbit"},
    Plans   <- Times,
    wanted  <- [j \in {"orbit"} |-> IF Started THEN config.plan ELSE None],
    waiting <- [j \in {"orbit"} |-> IF Started THEN timer ELSE None],
    busy    <- [j \in {"orbit"} |-> Started /\ (joined \/ inflight # None)]
ImplementsCadence == Scheduled!Spec

\* While Orbit stays switched on its timer goes off again and again, however
\* its starts and runs end.
FiresForEver == []<>(~Started \/ config.plan = None) \/ []<><<Fire>>_vars

=============================================================================
