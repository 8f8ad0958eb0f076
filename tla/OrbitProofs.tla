----------------------------- MODULE OrbitProofs -----------------------------
(***************************************************************************)
(* Theorems about Orbit, for any times of day, templates and slots.         *)
(***************************************************************************)
EXTENDS Orbit, TLAPS

\* Who is at which await: a start is the one in progress, a run whose agent
\* was started is the one in flight.
Placed ==
    /\ \A s \in Slots : run[s].phase \in {"template", "staging"} <=> starting = s
    /\ \A s \in Slots : run[s].phase \in {"watched", "writing"} <=> inflight = s
    /\ starting = None \/ inflight = None
    /\ joined => starting # None

\* What the agents do: one that runs belongs to the run in flight, and a
\* summary is written when it has ended.
AgentsPlaced ==
    /\ \A s \in Slots : agent[s] = "running" => inflight = s
    /\ \A s \in Slots : run[s].phase = "writing" => agent[s] \in Outcomes

\* What was read is what the file still holds.
ReadIsFresh == \A s \in Slots : run[s].phase = "writing" => run[s].read = store

\* A process that is gone keeps nothing.
DownIsEmpty ==
    daemon = "down" =>
        /\ config = NoPrefs /\ timer = None
        /\ ~joined /\ starting = None /\ inflight = None

IInv ==
    /\ TypeOK /\ TimerIsCurrent
    /\ Placed /\ AgentsPlaced
    /\ ReadIsFresh /\ SummariesAreKept
    /\ DownIsEmpty

-----------------------------------------------------------------------------

LEMMA InitHolds == Init => IInv
<1> SUFFICES ASSUME Init PROVE IInv
  OBVIOUS
<1>1. NoStore \in Stores /\ NoPrefs \in Preferences
  BY DEF NoStore, Stores, NoPrefs, Preferences
<1>2. /\ run \in [Slots -> [phase : {"free", "template", "staging", "watched", "writing"},
                            template : Templates \cup {None}, read : Stores]]
      /\ \A s \in Slots : run[s].phase = "free"
  BY <1>1 DEF Init, NoRun
<1>3. TypeOK
  BY <1>1, <1>2 DEF Init, TypeOK
<1>4. TimerIsCurrent /\ SummariesAreKept
  BY DEF Init, TimerIsCurrent, Held, SummariesAreKept, NoStore
<1>5. Placed /\ AgentsPlaced /\ ReadIsFresh /\ DownIsEmpty
  BY <1>2, OrbitAssumption DEF Init, Placed, AgentsPlaced, ReadIsFresh, DownIsEmpty
<1> QED  BY <1>3, <1>4, <1>5 DEF IInv

\* Clearing and setting the timer leaves one timer, the one in the field.
LEMMA RescheduleIsCurrent ==
  ASSUME NEW plan \in Times \cup {None}, TypeOK, TimerIsCurrent, Reschedule(plan)
  PROVE  /\ timer' \in Times \cup {None} /\ armed' \in Nat
         /\ armed' = Held' /\ timer' = plan
  BY OrbitAssumption DEF TypeOK, TimerIsCurrent, Reschedule, Held

\* The preferences change; nothing else does but the timer.
LEMMA PreferencesKeep ==
  ASSUME IInv,
         \/ \E plan \in Times \cup {None}, template \in Templates \cup {None} :
               Configure([plan |-> plan, template |-> template])
         \/ Configured
  PROVE  IInv'
<1> DEFINE Chosen(p) ==
      /\ Reschedule(p.plan) /\ config' = p /\ saved' \in Preferences
      /\ booting' \in BOOLEAN /\ daemon # "down"
      /\ UNCHANGED <<calls, runs, files, daemon>>
<1>1. PICK p \in Preferences : Chosen(p)
  <2>1. CASE Configured
    <3>1. saved \in Preferences
      BY DEF IInv, TypeOK
    <3>2. Chosen(saved)
      BY <2>1, <3>1 DEF Configured, Alive
    <3> QED  BY <3>1, <3>2
  <2>2. ASSUME NEW plan \in Times \cup {None}, NEW template \in Templates \cup {None},
               Configure([plan |-> plan, template |-> template])
        PROVE  \E p \in Preferences : Chosen(p)
    <3> DEFINE q == [plan |-> plan, template |-> template]
    <3>1. q \in Preferences
      BY DEF Preferences
    <3>2. Chosen(q)
      BY <2>2, <3>1 DEF Configure, Started, IInv, TypeOK
    <3> QED  BY <3>1, <3>2
  <2> QED  BY <2>1, <2>2
<1>2. p.plan \in Times \cup {None}
  BY DEF Preferences
<1>3. /\ timer' \in Times \cup {None} /\ armed' \in Nat
      /\ armed' = Held' /\ timer' = p.plan
  BY <1>1, <1>2, RescheduleIsCurrent DEF IInv
<1>4. TypeOK'
  BY <1>1, <1>3 DEF IInv, TypeOK, calls, runs, files
<1>5. TimerIsCurrent'
  BY <1>1, <1>3 DEF TimerIsCurrent
<1>6. Placed' /\ AgentsPlaced' /\ ReadIsFresh' /\ SummariesAreKept' /\ DownIsEmpty'
  BY <1>1 DEF IInv, Placed, AgentsPlaced, ReadIsFresh, SummariesAreKept,
              DownIsEmpty, calls, runs, files
<1> QED  BY <1>4, <1>5, <1>6 DEF IInv

\* A new start takes a free slot.
LEMMA BegunKeeps ==
  ASSUME IInv, Begun, inflight = None, starting = None,
         UNCHANGED <<config, files, daemon>>, daemon # "down"
  PROVE  /\ run' \in [Slots -> [phase : {"free", "template", "staging", "watched", "writing"},
                                template : Templates \cup {None}, read : Stores]]
         /\ agent' \in [Slots -> Outcomes \cup {"none", "queued", "running"}]
         /\ starting' \in Slots /\ inflight' = None
         /\ \A s \in Slots : run'[s].phase \in {"template", "staging"} <=> starting' = s
         /\ \A s \in Slots : run'[s].phase \in {"watched", "writing"} <=> inflight' = s
         /\ AgentsPlaced' /\ ReadIsFresh'
<1>1. PICK s \in Slots :
        /\ run[s].phase = "free"
        /\ run' = [run EXCEPT ![s] = [phase |-> "template", template |-> config.template,
                                      read |-> NoStore]]
        /\ starting' = s
        /\ UNCHANGED <<inflight, agent>>
  BY DEF Begun
<1>2. NoStore \in Stores /\ config.template \in Templates \cup {None}
  BY DEF IInv, TypeOK, Preferences, NoStore, Stores
<1>3. \A t \in Slots : t # s => run'[t] = run[t]
  BY <1>1 DEF IInv, TypeOK
<1>4. run'[s].phase = "template"
  BY <1>1 DEF IInv, TypeOK
<1>5. None \notin Slots
  BY OrbitAssumption
<1>6. /\ run' \in [Slots -> [phase : {"free", "template", "staging", "watched", "writing"},
                             template : Templates \cup {None}, read : Stores]]
      /\ agent' \in [Slots -> Outcomes \cup {"none", "queued", "running"}]
  BY <1>1, <1>2 DEF IInv, TypeOK
<1>7. /\ \A t \in Slots : run'[t].phase \in {"template", "staging"} <=> starting' = t
      /\ \A t \in Slots : run'[t].phase \in {"watched", "writing"} <=> inflight' = t
  BY <1>1, <1>3, <1>4, <1>5 DEF IInv, Placed
<1>8. AgentsPlaced' /\ ReadIsFresh'
  BY <1>1, <1>3, <1>4 DEF IInv, AgentsPlaced, ReadIsFresh, files
<1> QED  BY <1>1, <1>6, <1>7, <1>8

LEMMA FireKeeps == ASSUME IInv, Fire PROVE IInv'
<1>1. timer' = None /\ armed' \in Nat /\ armed' = Held'
  BY DEF IInv, TypeOK, Fire, TimerIsCurrent, Held
<1>2. TimerIsCurrent'
  BY <1>1 DEF TimerIsCurrent
<1>3. UNCHANGED <<prefs, files, daemon>> /\ daemon # "down"
  BY DEF Fire, Alive
<1>4. CASE inflight # None
  <2>1. UNCHANGED <<calls, runs>>
    BY <1>4 DEF Fire
  <2> QED  BY <1>1, <1>2, <1>3, <2>1
           DEF IInv, TypeOK, Placed, AgentsPlaced, ReadIsFresh, SummariesAreKept,
               DownIsEmpty, prefs, calls, runs, files
<1>5. CASE inflight = None /\ starting # None
  <2>1. joined' = TRUE /\ UNCHANGED <<starting, inflight, runs>>
    BY <1>5 DEF Fire, Joins
  <2> QED  BY <1>1, <1>2, <1>3, <1>5, <2>1
           DEF IInv, TypeOK, Placed, AgentsPlaced, ReadIsFresh, SummariesAreKept,
               DownIsEmpty, prefs, runs, files
<1>6. CASE inflight = None /\ starting = None
  <2>1. joined' = TRUE /\ Begun
    BY <1>6 DEF Fire, Joins
  <2>2. UNCHANGED <<config, files, daemon>>
    BY <1>3 DEF prefs
  <2>3. /\ run' \in [Slots -> [phase : {"free", "template", "staging", "watched", "writing"},
                               template : Templates \cup {None}, read : Stores]]
        /\ agent' \in [Slots -> Outcomes \cup {"none", "queued", "running"}]
        /\ starting' \in Slots /\ inflight' = None
        /\ \A s \in Slots : run'[s].phase \in {"template", "staging"} <=> starting' = s
        /\ \A s \in Slots : run'[s].phase \in {"watched", "writing"} <=> inflight' = s
        /\ AgentsPlaced' /\ ReadIsFresh'
    BY <1>3, <1>6, <2>1, <2>2, BegunKeeps
  <2>4. TypeOK'
    BY <1>1, <1>3, <2>1, <2>3 DEF IInv, TypeOK, prefs, files
  <2>5. Placed'
    BY <2>3, OrbitAssumption DEF Placed
  <2> QED  BY <1>2, <1>3, <2>3, <2>4, <2>5
           DEF IInv, SummariesAreKept, DownIsEmpty, files
<1> QED  BY <1>4, <1>5, <1>6

LEMMA RunNowKeeps == ASSUME IInv, RunNow PROVE IInv'
<1>1. /\ inflight = None /\ starting = None /\ daemon # "down" /\ Begun
      /\ UNCHANGED <<prefs, clock, joined, files, daemon>>
  BY DEF RunNow, Joins, Started
<1>2. UNCHANGED <<config, files, daemon>>
  BY <1>1 DEF prefs
<1>3. /\ run' \in [Slots -> [phase : {"free", "template", "staging", "watched", "writing"},
                             template : Templates \cup {None}, read : Stores]]
      /\ agent' \in [Slots -> Outcomes \cup {"none", "queued", "running"}]
      /\ starting' \in Slots /\ inflight' = None
      /\ \A s \in Slots : run'[s].phase \in {"template", "staging"} <=> starting' = s
      /\ \A s \in Slots : run'[s].phase \in {"watched", "writing"} <=> inflight' = s
      /\ AgentsPlaced' /\ ReadIsFresh'
  BY <1>1, <1>2, BegunKeeps
<1>4. TypeOK'
  BY <1>1, <1>3 DEF IInv, TypeOK, prefs, clock, files
<1>5. Placed'
  BY <1>3, OrbitAssumption DEF Placed
<1> QED  BY <1>1, <1>3, <1>4, <1>5
         DEF IInv, TimerIsCurrent, Held, SummariesAreKept, DownIsEmpty, prefs, clock, files

\* The records of the runs keep their types when one of them changes.
LEMMA OneRecord ==
  ASSUME TypeOK, NEW s \in Slots,
         NEW r \in [phase : {"free", "template", "staging", "watched", "writing"},
                    template : Templates \cup {None}, read : Stores],
         NEW a \in Outcomes \cup {"none", "queued", "running"},
         run' = [run EXCEPT ![s] = r], agent' = [agent EXCEPT ![s] = a]
  PROVE  /\ run' \in [Slots -> [phase : {"free", "template", "staging", "watched", "writing"},
                                template : Templates \cup {None}, read : Stores]]
         /\ agent' \in [Slots -> Outcomes \cup {"none", "queued", "running"}]
         /\ run'[s] = r /\ agent'[s] = a
         /\ \A t \in Slots : t # s => run'[t] = run[t] /\ agent'[t] = agent[t]
  BY DEF TypeOK

LEMMA PrepareKeeps == ASSUME IInv, NEW s \in Slots, Prepare(s) PROVE IInv'
<1> DEFINE r == [run[s] EXCEPT !.phase = "staging"]
<1>1. /\ daemon # "down" /\ run[s].phase = "template" /\ starting = s /\ inflight # s
      /\ UNCHANGED <<prefs, clock, calls, files, daemon>>
  BY OrbitAssumption DEF Prepare, Alive, IInv, Placed
<1>2. /\ r \in [phase : {"free", "template", "staging", "watched", "writing"},
                template : Templates \cup {None}, read : Stores]
      /\ r.phase = "staging"
      /\ run' = [run EXCEPT ![s] = r] /\ agent' = [agent EXCEPT ![s] = "queued"]
  BY DEF Prepare, IInv, TypeOK
<1>3. /\ run' \in [Slots -> [phase : {"free", "template", "staging", "watched", "writing"},
                             template : Templates \cup {None}, read : Stores]]
      /\ agent' \in [Slots -> Outcomes \cup {"none", "queued", "running"}]
      /\ run'[s] = r /\ agent'[s] = "queued"
      /\ \A t \in Slots : t # s => run'[t] = run[t] /\ agent'[t] = agent[t]
  BY <1>2, OneRecord DEF IInv
<1>4. TypeOK' /\ TimerIsCurrent' /\ SummariesAreKept' /\ DownIsEmpty'
  BY <1>1, <1>3 DEF IInv, TypeOK, TimerIsCurrent, Held, SummariesAreKept, DownIsEmpty,
                    prefs, clock, calls, files
<1>5. Placed' /\ AgentsPlaced' /\ ReadIsFresh'
  BY <1>1, <1>2, <1>3 DEF IInv, Placed, AgentsPlaced, ReadIsFresh, calls, files
<1> QED  BY <1>4, <1>5 DEF IInv

\* A run that is over, or a start that failed, leaves an empty record.
LEMMA ForgottenIsFree ==
  ASSUME TypeOK, NEW s \in Slots, Forgotten(s)
  PROVE  /\ run' \in [Slots -> [phase : {"free", "template", "staging", "watched", "writing"},
                                template : Templates \cup {None}, read : Stores]]
         /\ agent' \in [Slots -> Outcomes \cup {"none", "queued", "running"}]
         /\ run'[s].phase = "free" /\ agent'[s] = "none"
         /\ \A t \in Slots : t # s => run'[t] = run[t] /\ agent'[t] = agent[t]
<1>1. NoStore \in Stores
  BY DEF NoStore, Stores
<1>2. /\ NoRun \in [phase : {"free", "template", "staging", "watched", "writing"},
                    template : Templates \cup {None}, read : Stores]
      /\ NoRun.phase = "free"
  BY <1>1 DEF NoRun
<1>3. run' = [run EXCEPT ![s] = NoRun] /\ agent' = [agent EXCEPT ![s] = "none"]
  BY DEF Forgotten
<1> QED  BY <1>2, <1>3, OneRecord

\* The timer is set again for the plan of the moment, or left alone.
LEMMA SettingAgain ==
  ASSUME TypeOK, TimerIsCurrent, UNCHANGED config,
         Reschedule(config.plan) \/ UNCHANGED clock
  PROVE  timer' \in Times \cup {None} /\ armed' \in Nat /\ TimerIsCurrent'
<1>1. config.plan \in Times \cup {None}
  BY DEF TypeOK, Preferences
<1>2. CASE Reschedule(config.plan)
  BY <1>1, <1>2, RescheduleIsCurrent DEF TimerIsCurrent
<1>3. CASE UNCHANGED clock
  BY <1>3 DEF TypeOK, TimerIsCurrent, Held, clock
<1> QED  BY <1>2, <1>3

LEMMA RefuseKeeps == ASSUME IInv, NEW s \in Slots, Refuse(s) PROVE IInv'
<1>1. /\ daemon # "down" /\ starting = s /\ inflight # s
      /\ starting' = None /\ joined' = FALSE /\ Forgotten(s)
      /\ UNCHANGED <<prefs, inflight, files, daemon>>
  BY OrbitAssumption DEF Refuse, Alive, IInv, Placed
<1>2. /\ run' \in [Slots -> [phase : {"free", "template", "staging", "watched", "writing"},
                             template : Templates \cup {None}, read : Stores]]
      /\ agent' \in [Slots -> Outcomes \cup {"none", "queued", "running"}]
      /\ run'[s].phase = "free" /\ agent'[s] = "none"
      /\ \A t \in Slots : t # s => run'[t] = run[t] /\ agent'[t] = agent[t]
  BY <1>1, ForgottenIsFree DEF IInv
<1>3. timer' \in Times \cup {None} /\ armed' \in Nat /\ TimerIsCurrent'
  BY <1>1, SettingAgain DEF Refuse, Settled, IInv, prefs
<1>4. TypeOK' /\ SummariesAreKept' /\ DownIsEmpty'
  BY <1>1, <1>2, <1>3 DEF IInv, TypeOK, SummariesAreKept, DownIsEmpty, prefs, files
<1>5. Placed' /\ AgentsPlaced' /\ ReadIsFresh'
  BY <1>1, <1>2, OrbitAssumption DEF IInv, Placed, AgentsPlaced, ReadIsFresh, files
<1> QED  BY <1>3, <1>4, <1>5 DEF IInv

LEMMA LaunchKeeps == ASSUME IInv, NEW s \in Slots, Launch(s) PROVE IInv'
<1> DEFINE r == [run[s] EXCEPT !.phase = "watched"]
           a == IF agent[s] = "queued" THEN "running" ELSE agent[s]
<1>1. /\ daemon # "down" /\ starting = s /\ inflight = None
      /\ starting' = None /\ joined' = FALSE /\ inflight' = s
      /\ UNCHANGED <<prefs, clock, files, daemon>>
  BY OrbitAssumption DEF Launch, Alive, IInv, Placed
<1>2. /\ r \in [phase : {"free", "template", "staging", "watched", "writing"},
                template : Templates \cup {None}, read : Stores]
      /\ r.phase = "watched"
      /\ a \in Outcomes \cup {"none", "queued", "running"}
      /\ run' = [run EXCEPT ![s] = r] /\ agent' = [agent EXCEPT ![s] = a]
  BY DEF Launch, IInv, TypeOK
<1>3. /\ run' \in [Slots -> [phase : {"free", "template", "staging", "watched", "writing"},
                             template : Templates \cup {None}, read : Stores]]
      /\ agent' \in [Slots -> Outcomes \cup {"none", "queued", "running"}]
      /\ run'[s] = r
      /\ \A t \in Slots : t # s => run'[t] = run[t] /\ agent'[t] = agent[t]
  BY <1>2, OneRecord DEF IInv
<1>4. TypeOK' /\ TimerIsCurrent' /\ SummariesAreKept' /\ DownIsEmpty'
  BY <1>1, <1>3 DEF IInv, TypeOK, TimerIsCurrent, Held, SummariesAreKept, DownIsEmpty,
                    prefs, clock, files
<1>5. Placed' /\ AgentsPlaced' /\ ReadIsFresh'
  BY <1>1, <1>2, <1>3, OrbitAssumption DEF IInv, Placed, AgentsPlaced, ReadIsFresh, files
<1> QED  BY <1>4, <1>5 DEF IInv

LEMMA AgentEndsKeeps ==
  ASSUME IInv, NEW s \in Slots, NEW outcome \in Outcomes, AgentEnds(s, outcome)
  PROVE  IInv'
<1>1. /\ agent' = [agent EXCEPT ![s] = outcome]
      /\ UNCHANGED <<prefs, clock, calls, run, files, daemon>>
  BY DEF AgentEnds
<1>2. agent' \in [Slots -> Outcomes \cup {"none", "queued", "running"}]
  BY <1>1 DEF IInv, TypeOK
<1>3. "running" \notin Outcomes
  BY DEF Outcomes
<1>4. AgentsPlaced'
  BY <1>1, <1>2, <1>3 DEF IInv, TypeOK, AgentsPlaced, calls
<1> QED  BY <1>1, <1>2, <1>4
         DEF IInv, TypeOK, TimerIsCurrent, Held, Placed, ReadIsFresh, SummariesAreKept,
             DownIsEmpty, prefs, clock, calls, files

LEMMA ReadStoreKeeps == ASSUME IInv, NEW s \in Slots, ReadStore(s) PROVE IInv'
<1> DEFINE r == [run[s] EXCEPT !.phase = "writing", !.read = store]
<1>1. /\ daemon # "down" /\ inflight = s /\ agent[s] \in Outcomes
      /\ UNCHANGED <<prefs, clock, calls, agent, files, daemon>>
  BY DEF ReadStore, Alive, IInv, Placed
<1>2. /\ r \in [phase : {"free", "template", "staging", "watched", "writing"},
                template : Templates \cup {None}, read : Stores]
      /\ r.phase = "writing" /\ r.read = store
      /\ run' = [run EXCEPT ![s] = r] /\ agent' = [agent EXCEPT ![s] = agent[s]]
  BY <1>1 DEF ReadStore, IInv, TypeOK
<1>3. /\ run' \in [Slots -> [phase : {"free", "template", "staging", "watched", "writing"},
                             template : Templates \cup {None}, read : Stores]]
      /\ run'[s] = r
      /\ \A t \in Slots : t # s => run'[t] = run[t]
  BY <1>1, <1>2, OneRecord DEF IInv
<1>4. TypeOK' /\ TimerIsCurrent' /\ SummariesAreKept' /\ DownIsEmpty'
  BY <1>1, <1>3 DEF IInv, TypeOK, TimerIsCurrent, Held, SummariesAreKept, DownIsEmpty,
                    prefs, clock, calls, files
<1>5. Placed'
  BY <1>1, <1>2, <1>3, OrbitAssumption DEF IInv, Placed, calls
<1>6. AgentsPlaced' /\ ReadIsFresh'
  BY <1>1, <1>2, <1>3 DEF IInv, AgentsPlaced, ReadIsFresh, calls, files
<1> QED  BY <1>4, <1>5, <1>6 DEF IInv

\* The end of the run in flight, with a summary written or not.
LEMMA EndedKeeps ==
  ASSUME IInv, NEW s \in Slots, daemon # "down",
         run[s].phase \in {"watched", "writing"}, Ended(s),
         UNCHANGED <<prefs, joined, starting, daemon>>,
         store' \in Stores, given' \in [Templates -> Outcomes \cup {None}], SummariesAreKept'
  PROVE  IInv'
<1>1. inflight = s /\ starting = None /\ ~joined /\ inflight' = None /\ Forgotten(s)
  BY OrbitAssumption DEF Ended, IInv, Placed
<1>2. /\ run' \in [Slots -> [phase : {"free", "template", "staging", "watched", "writing"},
                             template : Templates \cup {None}, read : Stores]]
      /\ agent' \in [Slots -> Outcomes \cup {"none", "queued", "running"}]
      /\ run'[s].phase = "free" /\ agent'[s] = "none"
      /\ \A t \in Slots : t # s => run'[t] = run[t] /\ agent'[t] = agent[t]
  BY <1>1, ForgottenIsFree DEF IInv
<1>3. timer' \in Times \cup {None} /\ armed' \in Nat /\ TimerIsCurrent'
  BY SettingAgain DEF Ended, IInv, prefs
<1>4. TypeOK' /\ DownIsEmpty'
  BY <1>1, <1>2, <1>3 DEF IInv, TypeOK, DownIsEmpty, prefs
<1>5. Placed'
  BY <1>1, <1>2, OrbitAssumption DEF IInv, Placed
<1>6. AgentsPlaced' /\ ReadIsFresh'
  BY <1>1, <1>2 DEF IInv, Placed, AgentsPlaced, ReadIsFresh
<1> QED  BY <1>3, <1>4, <1>5, <1>6 DEF IInv

LEMMA WriteStoreKeeps ==
  ASSUME IInv, NEW s \in Slots, NEW v \in Verdicts(s), WriteStore(s, v)
  PROVE  IInv'
<1>1. run[s].phase = "writing" /\ daemon # "down"
  BY DEF WriteStore, Alive
<1>2. run[s].read = store /\ v \in Outcomes
  BY <1>1 DEF IInv, ReadIsFresh, AgentsPlaced, Verdicts, Outcomes
<1>3. store' = [last |-> v, by |-> [u \in Templates |->
                   IF u = run[s].template THEN v ELSE store.by[u]]]
  BY <1>2 DEF WriteStore, Merged
<1>4. given' = [u \in Templates |-> IF u = run[s].template THEN v ELSE given[u]]
  BY DEF WriteStore
<1>5. store' \in Stores /\ given' \in [Templates -> Outcomes \cup {None}]
  BY <1>2, <1>3, <1>4 DEF IInv, TypeOK, Stores
<1>6. SummariesAreKept'
  BY <1>3, <1>4 DEF IInv, SummariesAreKept
<1> QED  BY <1>1, <1>5, <1>6, EndedKeeps DEF WriteStore

LEMMA LoseKeeps == ASSUME IInv, NEW s \in Slots, Lose(s) PROVE IInv'
<1>1. store' \in Stores /\ given' \in [Templates -> Outcomes \cup {None}] /\ SummariesAreKept'
  BY DEF Lose, IInv, TypeOK, SummariesAreKept, files
<1> QED  BY <1>1, EndedKeeps DEF Lose, Alive

LEMMA ShutdownKeeps == ASSUME IInv, Shutdown PROVE IInv'
<1>1. /\ daemon' = "draining"
      /\ agent' = [s \in Slots |-> IF agent[s] \in {"queued", "running"} THEN "canceled"
                                   ELSE agent[s]]
      /\ UNCHANGED <<prefs, clock, calls, run, files>>
  BY DEF Shutdown
<1>2. agent' \in [Slots -> Outcomes \cup {"none", "queued", "running"}]
  BY <1>1 DEF IInv, TypeOK, Outcomes
<1>3. AgentsPlaced'
  BY <1>1 DEF IInv, AgentsPlaced, Outcomes, calls
<1> QED  BY <1>1, <1>2, <1>3
         DEF IInv, TypeOK, TimerIsCurrent, Held, Placed, ReadIsFresh, SummariesAreKept,
             DownIsEmpty, prefs, clock, calls, files

LEMMA StopKeeps == ASSUME IInv, Stop PROVE IInv'
<1>1. timer' \in Times \cup {None} /\ armed' \in Nat /\ armed' = Held' /\ timer' = None
  BY RescheduleIsCurrent DEF Stop, IInv
<1>2. daemon' = "stopped" /\ UNCHANGED <<prefs, calls, runs, files>>
  BY DEF Stop
<1> QED  BY <1>1, <1>2
         DEF IInv, TypeOK, TimerIsCurrent, Placed, AgentsPlaced, ReadIsFresh,
             SummariesAreKept, DownIsEmpty, prefs, calls, runs, files

LEMMA ExitKeeps == ASSUME IInv, Exit PROVE IInv'
<1>1. /\ daemon' = "down" /\ config' = NoPrefs /\ booting' = TRUE /\ saved' = saved
      /\ timer' = None /\ armed' = 0
      /\ joined' = FALSE /\ starting' = None /\ inflight' = None
      /\ run' = [s \in Slots |-> NoRun] /\ agent' = [s \in Slots |-> "none"]
      /\ store' = store /\ given' = given
  BY DEF Exit, files
<1>2. NoStore \in Stores /\ NoPrefs \in Preferences
  BY DEF NoStore, Stores, NoPrefs, Preferences
<1>3. /\ run' \in [Slots -> [phase : {"free", "template", "staging", "watched", "writing"},
                             template : Templates \cup {None}, read : Stores]]
      /\ \A s \in Slots : run'[s].phase = "free"
  BY <1>1, <1>2 DEF NoRun
<1>4. TypeOK'
  BY <1>1, <1>2, <1>3 DEF IInv, TypeOK
<1>5. TimerIsCurrent' /\ SummariesAreKept' /\ DownIsEmpty'
  BY <1>1 DEF IInv, TimerIsCurrent, Held, SummariesAreKept, DownIsEmpty
<1>6. Placed' /\ AgentsPlaced' /\ ReadIsFresh'
  BY <1>1, <1>3, OrbitAssumption DEF Placed, AgentsPlaced, ReadIsFresh
<1> QED  BY <1>4, <1>5, <1>6 DEF IInv

LEMMA BootKeeps == ASSUME IInv, Boot PROVE IInv'
  BY DEF Boot, IInv, TypeOK, TimerIsCurrent, Held, Placed, AgentsPlaced, ReadIsFresh,
         SummariesAreKept, DownIsEmpty, prefs, clock, calls, runs, files

LEMMA NextKeeps == IInv /\ [Next]_vars => IInv'
<1> SUFFICES ASSUME IInv, [Next]_vars PROVE IInv'
  OBVIOUS
<1>1. CASE \/ Configured
           \/ \E plan \in Times \cup {None}, template \in Templates \cup {None} :
                  Configure([plan |-> plan, template |-> template])
  BY <1>1, PreferencesKeep
<1>2. CASE Fire
  BY <1>2, FireKeeps
<1>3. CASE RunNow
  BY <1>3, RunNowKeeps
<1>4. ASSUME NEW s \in Slots, Starting(s) PROVE IInv'
  BY <1>4, PrepareKeeps, RefuseKeeps, LaunchKeeps DEF Starting
<1>5. ASSUME NEW s \in Slots, Completing(s) PROVE IInv'
  BY <1>5, ReadStoreKeeps, LoseKeeps, WriteStoreKeeps DEF Completing
<1>6. ASSUME NEW s \in Slots, NEW outcome \in Outcomes, AgentEnds(s, outcome) PROVE IInv'
  BY <1>6, AgentEndsKeeps
<1>7. CASE Shutdown \/ Stop \/ Exit \/ Boot
  BY <1>7, ShutdownKeeps, StopKeeps, ExitKeeps, BootKeeps
<1>8. CASE UNCHANGED vars
  BY <1>8 DEF IInv, TypeOK, TimerIsCurrent, Held, Placed, AgentsPlaced, ReadIsFresh,
              SummariesAreKept, DownIsEmpty, vars, prefs, clock, calls, runs, files
<1> QED  BY <1>1, <1>2, <1>3, <1>4, <1>5, <1>6, <1>7, <1>8 DEF Next

-----------------------------------------------------------------------------
(* The theorems                                                             *)

\* The inductive invariant holds in every reachable state.
THEOREM Invariance == Spec => []IInv
<1> QED  BY InitHolds, NextKeeps, PTL DEF Spec

\* The state of the service is always well typed.
THEOREM TypeCorrect == Spec => []TypeOK
<1>1. IInv => TypeOK
  BY DEF IInv
<1> QED  BY <1>1, Invariance, PTL

\* However often the timer goes off, the button is pressed and starts fail,
\* the timer, the button and the agents work on one run (start of orbit.ts).
THEOREM RunsAreShared == Spec => []OneRun
<1>1. IInv => OneRun
  <2> SUFFICES ASSUME IInv PROVE OneRun
    OBVIOUS
  <2>1. \A s \in Slots : InProgress(s) => s \in {starting, inflight}
    BY DEF IInv, Placed, InProgress
  <2> QED  BY <2>1 DEF IInv, Placed, AgentsPlaced, OneRun
<1> QED  BY <1>1, Invariance, PTL

\* No summary is written back over a newer one (writeLastSummary reads the
\* file after one await and writes it after another).
THEOREM NoSummaryIsLost == Spec => []SummariesAreKept
<1>1. IInv => SummariesAreKept
  BY DEF IInv
<1> QED  BY <1>1, Invariance, PTL

-----------------------------------------------------------------------------
(* Orbit implements Cadence                                                 *)

\* The state of the job "orbit".
Wanted  == IF Started THEN config.plan ELSE None
Waiting == IF Started THEN timer ELSE None
Busy    == Started /\ (joined \/ inflight # None)

\* The steps of Cadence, said of that one job.
CadenceStep ==
    \/ Waiting' = Wanted' /\ Busy' = Busy
    \/ /\ Waiting # None /\ Waiting' = None
       /\ Busy' /\ Wanted' = Wanted
    \/ Busy' /\ Wanted' = Wanted /\ Waiting' = Waiting
    \/ Busy /\ ~Busy' /\ Wanted' = Wanted /\ Waiting' = Wanted
    \/ Wanted' = None /\ Waiting' = None /\ ~Busy'
    \/ Wanted' = Wanted /\ Waiting' = Waiting /\ Busy' = Busy

LEMMA CadenceStepIsStep == CadenceStep => [Scheduled!Next]_(Scheduled!vars)
<1> SUFFICES ASSUME CadenceStep PROVE Scheduled!Next
  OBVIOUS
<1> QED
  BY DEF CadenceStep, Wanted, Waiting, Busy, Scheduled!Next, Scheduled!Change, Scheduled!Fire,
         Scheduled!ByHand, Scheduled!Settle, Scheduled!Halt, Scheduled!Same

LEMMA MapsInit == Init => Scheduled!Init
<1> SUFFICES ASSUME Init PROVE Scheduled!Init
  OBVIOUS
<1>1. timer = None /\ config.plan = None /\ ~joined /\ inflight = None
  BY DEF Init, NoPrefs
<1>2. /\ (IF Started THEN config.plan ELSE None) = None
      /\ (IF Started THEN timer ELSE None) = None
      /\ (Started /\ (joined \/ inflight # None)) = FALSE
  BY <1>1
<1> QED  BY <1>2 DEF Scheduled!Init

LEMMA MapsNext == IInv /\ [Next]_vars => CadenceStep
<1> SUFFICES ASSUME IInv, [Next]_vars PROVE CadenceStep
  OBVIOUS
<1> USE DEF Wanted, Waiting, Busy, Started
<1>1. CASE \/ Configured
           \/ \E plan \in Times \cup {None}, template \in Templates \cup {None} :
                  Configure([plan |-> plan, template |-> template])
  <2>1. /\ UNCHANGED <<calls, daemon>>
        /\ timer' = config'.plan
    BY <1>1 DEF Configured, Configure, Reschedule
  <2> QED  BY <2>1 DEF CadenceStep, calls
<1>2. CASE Fire
  <2>1. /\ timer # None /\ timer' = None
        /\ UNCHANGED <<prefs, daemon>>
    BY <1>2 DEF Fire, IInv, TimerIsCurrent, Held
  <2>2. joined' \/ inflight' # None
    BY <1>2 DEF Fire, calls
  <2> QED  BY <2>1, <2>2 DEF CadenceStep, prefs
<1>3. CASE RunNow
  BY <1>3 DEF RunNow, Begun, CadenceStep, prefs, clock
<1>4. ASSUME NEW s \in Slots, Starting(s) PROVE CadenceStep
  <2>1. CASE Prepare(s)
    BY <2>1 DEF Prepare, CadenceStep, prefs, clock, calls
  <2>2. CASE Refuse(s)
    <3>1. /\ inflight = None /\ inflight' = None /\ ~joined'
          /\ UNCHANGED <<prefs, daemon>>
      BY <2>2, OrbitAssumption DEF Refuse, IInv, Placed
    <3>2. timer' = IF joined THEN config.plan ELSE timer
      BY <2>2 DEF Refuse, Settled, Reschedule, clock
    <3> QED  BY <3>1, <3>2 DEF CadenceStep, prefs
  <2>3. CASE Launch(s)
    <3>1. inflight' # None /\ UNCHANGED <<prefs, clock, daemon>>
      BY <2>3, OrbitAssumption DEF Launch
    <3> QED  BY <3>1 DEF CadenceStep, prefs, clock
  <2> QED  BY <1>4, <2>1, <2>2, <2>3 DEF Starting
<1>5. ASSUME NEW s \in Slots, Completing(s) PROVE CadenceStep
  <2>1. CASE ReadStore(s)
    BY <2>1 DEF ReadStore, CadenceStep, prefs, clock, calls
  <2>2. CASE Lose(s) \/ \E v \in Verdicts(s) : WriteStore(s, v)
    <3>1. /\ inflight = s /\ inflight' = None /\ ~joined
          /\ timer' = config.plan
          /\ UNCHANGED <<prefs, joined, daemon>>
      BY <2>2, OrbitAssumption DEF Lose, WriteStore, Ended, Reschedule, IInv, Placed
    <3>2. inflight # None
      BY <3>1, OrbitAssumption
    <3> QED  BY <3>1, <3>2 DEF CadenceStep, prefs
  <2> QED  BY <1>5, <2>1, <2>2 DEF Completing
<1>6. ASSUME NEW s \in Slots, NEW outcome \in Outcomes, AgentEnds(s, outcome)
      PROVE  CadenceStep
  BY <1>6 DEF AgentEnds, CadenceStep, prefs, clock, calls
<1>7. CASE Shutdown
  BY <1>7 DEF Shutdown, CadenceStep, prefs, clock, calls
<1>8. CASE Stop \/ Exit
  BY <1>8 DEF Stop, Exit, CadenceStep
<1>9. CASE Boot
  BY <1>9 DEF Boot, CadenceStep, IInv, DownIsEmpty, NoPrefs, prefs, clock, calls
<1>10. CASE UNCHANGED vars
  BY <1>10 DEF vars, CadenceStep, prefs, clock, calls
<1> QED  BY <1>1, <1>2, <1>3, <1>4, <1>5, <1>6, <1>7, <1>8, <1>9, <1>10 DEF Next

\* Until stop() Orbit never misses a day: while it is switched on its timer is
\* set or a fire of it is being served, and a plan that was changed is dropped
\* at once.
THEOREM Implementation == Spec => ImplementsCadence
<1>1. IInv /\ [Next]_vars => [Scheduled!Next]_(Scheduled!vars)
  BY MapsNext, CadenceStepIsStep
<1> QED  BY <1>1, MapsInit, Invariance, PTL DEF Spec, ImplementsCadence, Scheduled!Spec

=============================================================================
