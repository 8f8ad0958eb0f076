------------------------------ MODULE Routines ------------------------------
(***************************************************************************)
(* Routines (routines.ts, RoutineService): prompts that the daemon runs on  *)
(* a schedule.  A routine is a row of the table routines; the service keeps *)
(* one timer per enabled routine and one start at a time, which the timer   *)
(* and the Run-now button share.  A start is the handler of server.ts: it   *)
(* awaits the configuration and a plugin, starts an agent run and only then *)
(* is recorded in routine_runs; what the agent run comes to is written back *)
(* when it ends.  The routes (routine-routes.ts) edit and delete routines   *)
(* meanwhile, the daemon shuts down, crashes and boots.                     *)
(*                                                                          *)
(* The service runs in one piece between two awaits of the handler.         *)
(***************************************************************************)
EXTENDS Naturals, FiniteSets

CONSTANTS
    Routines,  \* ids of routines
    Plans,     \* schedules a user may choose
    Slots      \* bound: starts that are not over and forgotten yet

None == "none"

ASSUME RoutinesAssumption == None \notin Plans \cup Slots

VARIABLES
    routine,   \* the rows of routines: [row, enabled, plan]
    timers,    \* the map of RoutineService: the plan of the timer it holds
    armed,     \* timers of Node that are running, in the map or not
    fires,     \* a timer callback awaits the start it made or joined
    inflight,  \* the map of RoutineService: the start in progress
    start,     \* [routine, phase] of every start
    agent,     \* the agent run it led to
    record,    \* its row in routine_runs
    daemon     \* "up", "draining" (shutdownActive waits), "stopped", "down"

service == <<timers, armed, fires>>
starts  == <<inflight, start, agent, record>>
vars    == <<routine, service, starts, daemon>>

Outcomes == {"succeeded", "failed", "canceled"}
NoStart  == [routine |-> None, phase |-> "free"]

Init ==
    /\ routine = [r \in Routines |-> [row |-> "unborn", enabled |-> FALSE, plan |-> None]]
    /\ timers = [r \in Routines |-> None]
    /\ armed = [r \in Routines |-> 0]
    /\ fires = [r \in Routines |-> FALSE]
    /\ inflight = [r \in Routines |-> None]
    /\ start = [s \in Slots |-> NoStart]
    /\ agent = [s \in Slots |-> "none"]
    /\ record = [s \in Slots |-> "none"]
    /\ daemon = "up"

Alive   == daemon # "down"
Serving == daemon \in {"up", "draining"}  \* HTTP requests are answered
Started == daemon \in {"up", "draining"}  \* RoutineService.started

-----------------------------------------------------------------------------
(* Scheduling                                                               *)

\* scheduleRoutine: the plan to arm a timer for, if any.
Due(row) == IF row.row = "listed" /\ row.enabled THEN row.plan ELSE None

Held(r) == IF timers[r] = None THEN 0 ELSE 1

\* Mutant of Rescheduled: the timer in the map is forgotten and not cleared.
RescheduledTwice(r, row) ==
    /\ timers' = [timers EXCEPT ![r] = Due(row)]
    /\ armed'  = [armed EXCEPT ![r] = @ + IF Due(row) = None THEN 0 ELSE 1]

\* rescheduleOne: the timer in the map is cleared and another one armed for
\* the row as it is now.
Rescheduled(r, row) ==
    LET plan == IF Started THEN Due(row) ELSE None
    IN  /\ timers' = [timers EXCEPT ![r] = plan]
        /\ armed'  = [armed EXCEPT ![r] = @ - Held(r) + IF plan = None THEN 0 ELSE 1]

\* unschedule
Unscheduled(r) ==
    /\ timers' = [timers EXCEPT ![r] = None]
    /\ armed'  = [armed EXCEPT ![r] = @ - Held(r)]

-----------------------------------------------------------------------------
(* The routes                                                               *)

Create(r, enabled, plan) ==
    LET row == [row |-> "listed", enabled |-> enabled, plan |-> plan]
    IN  /\ Serving
        /\ routine[r].row = "unborn"
        /\ routine' = [routine EXCEPT ![r] = row]
        /\ Rescheduled(r, row)
        /\ UNCHANGED <<fires, starts, daemon>>

Patch(r, enabled, plan) ==
    LET row == [row |-> "listed", enabled |-> enabled, plan |-> plan]
    IN  /\ Serving
        /\ routine[r].row = "listed"
        /\ routine' = [routine EXCEPT ![r] = row]
        /\ Rescheduled(r, row)
        /\ UNCHANGED <<fires, starts, daemon>>

\* The rows of its runs go with it (ON DELETE CASCADE); a start in progress
\* is left alone.
Delete(r) ==
    /\ Serving
    /\ routine[r].row = "listed"
    /\ routine' = [routine EXCEPT ![r] = [row |-> "deleted", enabled |-> FALSE, plan |-> None]]
    /\ Unscheduled(r)
    /\ record' = [s \in Slots |-> IF start[s].routine = r /\ record[s] # "none"
                                  THEN "erased" ELSE record[s]]
    /\ UNCHANGED <<fires, inflight, start, agent, daemon>>

-----------------------------------------------------------------------------
(* Starts                                                                   *)

\* Mutant of Joins: who comes first is not waited for.
JoinsNone(r) == FALSE

\* start_: who comes while a start is in progress gets that one.
Joins(r) == inflight[r] # None

\* start_: or a new one is begun, for the row as it is now.
Begun(r) ==
    \E s \in Slots :
        /\ start[s].phase = "free"
        /\ start' = [start EXCEPT ![s] = [routine |-> r, phase |-> "config"]]
        /\ inflight' = [inflight EXCEPT ![r] = s]
        /\ UNCHANGED <<agent, record>>

\* The timer of r goes off.  Its callback takes the map's entry out, whatever
\* timer it stands for, and a routine that is gone makes it end at once.
Fire(r) ==
    /\ Alive /\ armed[r] > 0
    /\ timers' = [timers EXCEPT ![r] = None]
    /\ armed' = [armed EXCEPT ![r] = @ - 1]
    /\ IF Joins(r)
       THEN fires' = [fires EXCEPT ![r] = TRUE] /\ UNCHANGED starts
       ELSE IF routine[r].row = "listed"
            THEN fires' = [fires EXCEPT ![r] = TRUE] /\ Begun(r)
            ELSE UNCHANGED <<fires, starts>>
    /\ UNCHANGED <<routine, daemon>>

\* POST /api/routines/:id/run
RunNow(r) ==
    /\ Serving
    /\ routine[r].row = "listed" /\ ~Joins(r)
    /\ Begun(r)
    /\ UNCHANGED <<routine, service, daemon>>

\* Mutant of Settled: only a start that succeeded sets the next fire.
SettledIfStarted(s) ==
    LET r == start[s].routine
    IN  /\ inflight' = [inflight EXCEPT ![r] = None]
        /\ fires' = [fires EXCEPT ![r] = FALSE]
        /\ IF fires[r] /\ start'[s].phase # "refused" THEN Rescheduled(r, routine[r])
           ELSE UNCHANGED <<timers, armed>>

\* The promise of a start is settled: it is no longer in flight, and every
\* callback that awaited it reschedules the routine.
Settled(s) ==
    LET r == start[s].routine
    IN  /\ inflight' = [inflight EXCEPT ![r] = None]
        /\ fires' = [fires EXCEPT ![r] = FALSE]
        /\ IF fires[r] THEN Rescheduled(r, routine[r]) ELSE UNCHANGED <<timers, armed>>

\* The configuration, and the agents where none is chosen, have been read;
\* project and conversation are there, and the plugin is awaited.
Prepare(s) ==
    /\ Alive /\ start[s].phase = "config"
    /\ start' = [start EXCEPT ![s].phase = "plugin"]
    /\ UNCHANGED <<routine, service, inflight, agent, record, daemon>>

\* The plugin has been applied and the agent run is created; linking the one to
\* the other is awaited.
Link(s) ==
    /\ Alive /\ start[s].phase = "plugin"
    /\ start' = [start EXCEPT ![s].phase = "linking"]
    /\ agent' = [agent EXCEPT ![s] = "queued"]
    /\ UNCHANGED <<routine, service, inflight, record, daemon>>

\* No agent, no project, a plugin that cannot be applied, a conversation that
\* was deleted meanwhile, or messages that cannot be written: then the run has
\* been created, stays queued and is nobody's.
Refuse(s) ==
    /\ Alive /\ start[s].phase \in {"config", "plugin", "linking"}
    /\ start' = [start EXCEPT ![s].phase = "refused"]
    /\ Settled(s)
    /\ UNCHANGED <<routine, agent, record, daemon>>

\* Mutant of Recorded: a row whose routine is gone is inserted all the same.
RecordedAnyway(s) ==
    /\ record' = [record EXCEPT ![s] = "running"]
    /\ start' = [start EXCEPT ![s].phase = "watched"]

\* insertRun: for a routine that was deleted meanwhile it throws, and nobody
\* waits for the agent run to end.
Recorded(s) ==
    IF routine[start[s].routine].row = "listed"
    THEN /\ record' = [record EXCEPT ![s] = "running"]
         /\ start' = [start EXCEPT ![s].phase = "watched"]
    ELSE /\ start' = [start EXCEPT ![s].phase = "unrecorded"]
         /\ UNCHANGED record

\* The agent run is started unless it was canceled meanwhile, or created and
\* started where there is no plugin; shutdown is not asked about.
Launch(s) ==
    /\ Alive /\ start[s].phase \in {"plugin", "linking"}
    /\ agent' = [agent EXCEPT ![s] = IF @ = "canceled" THEN @ ELSE "running"]
    /\ Recorded(s)
    /\ Settled(s)
    /\ UNCHANGED <<routine, daemon>>

-----------------------------------------------------------------------------
(* Agent runs                                                               *)

AgentEnds(s, outcome) ==
    /\ Alive
    /\ \/ agent[s] = "running"
       \/ agent[s] = "queued" /\ outcome = "canceled"
    /\ agent' = [agent EXCEPT ![s] = outcome]
    /\ UNCHANGED <<routine, service, inflight, start, record, daemon>>

\* updateRoutineRun: a row that is gone stays gone.
Written(s, status) ==
    record' = [record EXCEPT ![s] = IF @ = "erased" THEN @ ELSE status]

\* The completion: the outcome is written, or "failed" if something threw on
\* the way to it.
Complete(s, status) ==
    /\ Alive /\ start[s].phase = "watched"
    /\ agent[s] \in Outcomes /\ status \in {agent[s], "failed"}
    /\ Written(s, status)
    /\ start' = [start EXCEPT ![s].phase = "over"]
    /\ UNCHANGED <<routine, service, inflight, agent, daemon>>

\* Bound: a start that is over is forgotten with its run, and its slot used
\* again.
Forget(s) ==
    /\ \/ start[s].phase \in {"refused", "over", "lost"}
       \/ start[s].phase = "unrecorded" /\ agent[s] # "running"
    /\ start' = [start EXCEPT ![s] = NoStart]
    /\ agent' = [agent EXCEPT ![s] = "none"]
    /\ record' = [record EXCEPT ![s] = "none"]
    /\ UNCHANGED <<routine, service, inflight, daemon>>

-----------------------------------------------------------------------------
(* The daemon                                                               *)

\* shutdownActive cancels the runs there are; timers and starts go on.
Shutdown ==
    /\ daemon = "up"
    /\ daemon' = "draining"
    /\ agent' = [s \in Slots |-> IF agent[s] \in {"queued", "running"} THEN "canceled"
                                 ELSE agent[s]]
    /\ UNCHANGED <<routine, service, inflight, start, record>>

\* The server is closed, and RoutineService.stop() is called.
Stop ==
    /\ daemon = "draining"
    /\ daemon' = "stopped"
    /\ timers' = [r \in Routines |-> None]
    /\ armed' = [r \in Routines |-> armed[r] - Held(r)]
    /\ UNCHANGED <<routine, fires, starts>>

\* The process ends, by itself or by a crash.
Exit ==
    /\ Alive
    /\ daemon' = "down"
    /\ timers' = [r \in Routines |-> None]
    /\ armed' = [r \in Routines |-> 0]
    /\ fires' = [r \in Routines |-> FALSE]
    /\ inflight' = [r \in Routines |-> None]
    /\ start' = [s \in Slots |-> IF start[s].phase = "free" THEN NoStart
                                 ELSE [start[s] EXCEPT !.phase = "lost"]]
    /\ agent' = [s \in Slots |-> IF agent[s] \in {"queued", "running"} THEN "lost"
                                 ELSE agent[s]]
    /\ UNCHANGED <<routine, record>>

\* start(), rescheduleAll(); the rows of runs are left as they are.
Boot ==
    /\ daemon = "down"
    /\ daemon' = "up"
    /\ timers' = [r \in Routines |-> Due(routine[r])]
    /\ armed' = [r \in Routines |-> IF Due(routine[r]) = None THEN 0 ELSE 1]
    /\ UNCHANGED <<routine, fires, starts>>

-----------------------------------------------------------------------------

Starting(s) == Prepare(s) \/ Link(s) \/ Refuse(s) \/ Launch(s)

Completing(s) == \E status \in Outcomes : Complete(s, status)

Ending(s) == agent[s] = "running" /\ \E outcome \in Outcomes : AgentEnds(s, outcome)

Next ==
    \/ \E r \in Routines, enabled \in BOOLEAN, plan \in Plans :
          Create(r, enabled, plan) \/ Patch(r, enabled, plan)
    \/ \E r \in Routines : Delete(r) \/ Fire(r) \/ RunNow(r)
    \/ \E s \in Slots : Starting(s) \/ Completing(s) \/ Forget(s)
    \/ \E s \in Slots, outcome \in Outcomes : AgentEnds(s, outcome)
    \/ Shutdown
    \/ Stop
    \/ Exit
    \/ Boot

Spec == Init /\ [][Next]_vars

\* Timers go off, the awaits of the handler are answered, agent runs end
\* (ChatRun) and their ends are written; nobody need ask for anything.  Fire
\* is strongly fair because Slots may run out, which nothing does in the code.
Fairness ==
    /\ \A r \in Routines : SF_vars(Fire(r))
    /\ \A s \in Slots : /\ WF_vars(Starting(s)) /\ WF_vars(Completing(s))
                        /\ WF_vars(Ending(s)) /\ WF_vars(Forget(s))

FairSpec == Spec /\ Fairness

-----------------------------------------------------------------------------
(* Properties                                                               *)

InProgress(s) == start[s].phase \in {"config", "plugin", "linking"}

\* Type correctness of the state.
TypeOK ==
    /\ routine \in [Routines -> [row : {"unborn", "listed", "deleted"}, enabled : BOOLEAN,
                                 plan : Plans \cup {None}]]
    /\ timers \in [Routines -> Plans \cup {None}]
    /\ armed \in [Routines -> Nat]
    /\ fires \in [Routines -> BOOLEAN]
    /\ inflight \in [Routines -> Slots \cup {None}]
    /\ start \in [Slots -> [routine : Routines \cup {None},
                            phase : {"free", "config", "plugin", "linking", "refused",
                                     "watched", "unrecorded", "over", "lost"}]]
    /\ agent \in [Slots -> Outcomes \cup {"none", "queued", "running", "lost"}]
    /\ record \in [Slots -> Outcomes \cup {"none", "running", "erased"}]
    /\ daemon \in {"up", "draining", "stopped", "down"}

\* Every timer that runs is the one in the map, and is for the routine as it
\* is now: what the routes and stop() clear is all there is, so that a
\* routine that was paused, deleted or moved does not fire by an old timer.
TimerIsCurrent ==
    \A r \in Routines :
        /\ armed[r] = Held(r)
        /\ timers[r] # None => Started /\ timers[r] = Due(routine[r])

\* At most one start of a routine is in progress, and it is the one whose
\* promise a timer and a button would share; a callback that awaits one does
\* not await it in vain.
StartsAreShared ==
    /\ \A s, t \in Slots :
         InProgress(s) /\ InProgress(t) /\ start[s].routine = start[t].routine => s = t
    /\ \A r \in Routines : inflight[r] # None =>
         InProgress(inflight[r]) /\ start[inflight[r]].routine = r
    /\ \A r \in Routines : fires[r] => inflight[r] # None

\* A live agent run has an open row unless its routine was deleted, an open
\* row has somebody who will close it unless the daemon has gone since, and a
\* row never claims an outcome other than failed that its run did not have.
RecordsAgree ==
    \A s \in Slots :
        /\ agent[s] = "running" =>
             record[s] = "running" \/ routine[start[s].routine].row = "deleted"
        /\ record[s] = "running" => start[s].phase \in {"watched", "lost"}
        /\ record[s] \in {"succeeded", "canceled"} => agent[s] = record[s]
        /\ record[s] \in Outcomes \cup {"running"} => routine[start[s].routine].row = "listed"

\* A routine that is switched on is waiting for its time or being started, and
\* one that is not waits for nothing, whatever the routes, failing starts,
\* shared starts, shutdowns, crashes and boots do.
Scheduled == INSTANCE Cadence WITH
    Jobs    <- Routines,
    wanted  <- [r \in Routines |-> IF Started THEN Due(routine[r]) ELSE None],
    waiting <- timers,
    busy    <- fires
ImplementsCadence == Scheduled!Spec

\* A routine that stays switched on fires for ever: no fire is its last
\* ("Always reschedule so a single fire keeps the cadence alive").
FiresForEver ==
    \A r \in Routines :
        []<>(~Started \/ Due(routine[r]) = None) \/ []<>fires[r]

=============================================================================
