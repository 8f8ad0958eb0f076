------------------------------ MODULE ChatRun -------------------------------
(***************************************************************************)
(* One chat run of the daemon, from the request to the close of the agent  *)
(* process: startChatRun in apps/daemon/src/server.ts, with the run object *)
(* of runs.ts, the RPC sessions of acp.ts and pi-rpc.ts, the tool token,   *)
(* the inactivity watchdog and its kill timers, cancel and shutdown.       *)
(*                                                                         *)
(* startChatRun is asynchronous: between two of its awaits a cancel, a     *)
(* shutdown or any other handler may run, and pc says at which await it    *)
(* is.  After the spawn it has returned and the run is driven by handlers: *)
(* of the child's streams, its error and close events, timers and calls.   *)
(***************************************************************************)
EXTENDS RunObject

CONSTANTS
    Agents,   \* the agents the run may be for
    MaxIds    \* bound: the child says nothing more once the ids have passed it

Formats == {"plain", "tracked", "acp", "pi", "critique"}

ASSUME ChatAssumption ==
    /\ Agents \subseteq [format : Formats, stubborn : BOOLEAN]
    /\ MaxIds \in Nat

VARIABLES
    agent,    \* the adapter: its stream format, and whether the process
              \* ignores SIGTERM
    pc,       \* where startChatRun is
    run,      \* the run object
    child,    \* the agent process; "failing" is a spawn whose error is pending
    exit,     \* how the process ended
    session,  \* run.acpSession: "none", "open", "finished", "fatal", "aborted"
    timers,   \* armed timers
    grant,    \* [token, sink]: the tool token, and the sink registered for it
    turn,     \* the closure's flags
    critique, \* the critique orchestrator: "none", "running", "settled", "threw"
    shut      \* shutdownActive: "no", "grace", "reaping", "done"

process == <<child, exit, session>>
vars == <<agent, pc, run, child, exit, session, timers, grant, turn, critique, shut>>

\* "tracked": qoder and the JSON event streams; "plain" also stands for the
\* Claude and Copilot streams, which the close handler treats alike;
\* "critique": a plain stream handed to the critique orchestrator.
Tracked    == agent.format \in {"tracked", "pi"}
HasSession == agent.format \in {"acp", "pi"}

Stopped == run.cancelRequested \/ Terminal(run)

Revoked(g) == [token |-> IF g.token = "live" THEN "revoked" ELSE g.token, sink |-> FALSE]
Armed      == timers \cup {"watchdog"}         \* noteAgentActivity
Forced     == {"force1", "force2"}             \* scheduleForcedChildShutdown
Talking    == pc = "live" /\ child.proc \in {"alive", "exited"} /\ exit # "spawnError"
Bounded    == run.nextEventId <= MaxIds

Init ==
    /\ agent \in Agents
    /\ pc = "created"
    /\ run = NewRun
    /\ child = NoChild
    /\ exit = "none"
    /\ session = "none"
    /\ timers = {}
    /\ grant = [token |-> "none", sink |-> FALSE]
    /\ turn = [artifact |-> FALSE, quiet |-> FALSE, streamErr |-> FALSE,
               output |-> FALSE]
    /\ critique = "none"
    /\ shut = "no"

-----------------------------------------------------------------------------
(* startChatRun up to the spawn                                            *)

\* An unknown agent or an empty message: checked before anything else.
Reject ==
    /\ pc = "created"
    /\ run' = Fail(run)
    /\ pc' = "returned"
    /\ UNCHANGED <<agent, process, timers, grant, turn, critique, shut>>

\* The first check for a stop; memory and the project folder are awaited next.
Start ==
    /\ pc = "created"
    /\ pc' = IF Stopped THEN "returned" ELSE "gathering"
    /\ UNCHANGED <<agent, run, process, timers, grant, turn, critique, shut>>

\* The second check; a run with a project folder is minted a tool token.
Gathered(token) ==
    /\ pc = "gathering"
    /\ pc' = IF Stopped THEN "returned" ELSE "preparing"
    /\ grant' = IF Stopped THEN grant ELSE [grant EXCEPT !.token = token]
    /\ UNCHANGED <<agent, run, process, timers, turn, critique, shut>>

\* The prompt is composed (MCP configuration, skills, system prompt).
Prepared ==
    /\ pc = "preparing"
    /\ pc' = "configuring"
    /\ UNCHANGED <<agent, run, process, timers, grant, turn, critique, shut>>

\* Composing throws, or the prompt exceeds a command line: the run fails and
\* the token stays.
GiveUp ==
    /\ pc \in {"preparing", "configuring"}
    /\ run' = Fail(run)
    /\ pc' = "returned"
    /\ UNCHANGED <<agent, process, timers, grant, turn, critique, shut>>

\* The agent's binary is not found.
NoBinary ==
    /\ pc = "configuring"
    /\ run' = Fail(run)
    /\ grant' = Revoked(grant)
    /\ pc' = "returned"
    /\ UNCHANGED <<agent, process, timers, turn, critique, shut>>

\* The last check for a stop, in the same tick as the spawn.
StoppedBeforeSpawn ==
    /\ pc = "configuring"
    /\ Stopped
    /\ grant' = Revoked(grant)
    /\ pc' = "returned"
    /\ UNCHANGED <<agent, run, process, timers, turn, critique, shut>>

Running(r) == Emit([r EXCEPT !.status = "running"], "start")

SpawnThrows ==
    /\ pc = "configuring"
    /\ ~Stopped
    /\ run' = Fail(Running(run))
    /\ timers' = Armed
    /\ grant' = Revoked(grant)
    /\ pc' = "returned"
    /\ UNCHANGED <<agent, process, turn, critique, shut>>

\* Mutant of Launch: a stop during the last await is not noticed.
LaunchRegardless(proc) ==
    /\ pc = "configuring"
    /\ run' = Running(run)
    /\ child' = [Forked(agent.stubborn) EXCEPT !.proc = proc]
    /\ session' = IF HasSession THEN "open" ELSE "none"
    /\ critique' = IF agent.format = "critique" THEN "running" ELSE "none"
    /\ timers' = Armed
    /\ grant' = [grant EXCEPT !.sink = grant.token # "none"]
    /\ pc' = "live"
    /\ UNCHANGED <<agent, exit, turn, shut>>

\* A spawn may also fail with an error event still to come.
Launch(proc) ==
    /\ pc = "configuring"
    /\ ~Stopped
    /\ run' = Running(run)
    /\ child' = [Forked(agent.stubborn) EXCEPT !.proc = proc]
    /\ session' = IF HasSession THEN "open" ELSE "none"
    /\ critique' = IF agent.format = "critique" THEN "running" ELSE "none"
    /\ timers' = Armed
    /\ grant' = [grant EXCEPT !.sink = grant.token # "none"]
    /\ pc' = "live"
    /\ UNCHANGED <<agent, exit, turn, shut>>

-----------------------------------------------------------------------------
(* What the agent says                                                     *)

\* Any output, on stdout or stderr, whatever has become of the run.
Output(substantive) ==
    /\ Talking /\ Bounded
    /\ run' = Emit(run, "data")
    /\ turn' = [turn EXCEPT !.output = @ \/ substantive]
    /\ timers' = Armed
    /\ UNCHANGED <<agent, pc, process, grant, critique, shut>>

\* An error event of a tracked stream: remembered once, and the watchdog is
\* switched off until there is output again.
StreamError ==
    /\ Talking /\ Tracked
    /\ session \in {"none", "open"}
    /\ ~turn.streamErr
    /\ run' = Emit(run, "error")
    /\ turn' = [turn EXCEPT !.streamErr = TRUE]
    /\ timers' = timers \ {"watchdog"}
    /\ UNCHANGED <<agent, pc, process, grant, critique, shut>>

\* Writing the prompt to stdin fails, and not because the agent has left: the
\* error is sent and nothing remembers it.
StdinFails ==
    /\ pc = "live" /\ child.proc # "closed" /\ Bounded
    /\ agent.format \in {"plain", "tracked"}
    /\ run' = Emit(run, "error")
    /\ UNCHANGED <<agent, pc, process, timers, grant, turn, critique, shut>>

\* The session has its answer: stdin is closed and the process is given a
\* moment to exit by itself.
SessionFinishes ==
    /\ Talking /\ session = "open"
    /\ session' = "finished"
    /\ timers' = Armed \cup {"sessionEnd"}
    /\ UNCHANGED <<agent, pc, run, child, exit, grant, turn, critique, shut>>

\* fail() of a session that is open: its error reaches the run by the send
\* the session was given.
Reported(r) == IF agent.format = "pi" /\ turn.streamErr THEN r ELSE Emit(r, "error")
Broken(t)   == [t EXCEPT !.streamErr = @ \/ agent.format = "pi"]

SessionFails ==
    /\ Talking /\ session = "open"
    /\ session' = "fatal"
    /\ run' = Reported(run)
    /\ turn' = Broken(turn)
    /\ timers' = IF agent.format = "acp" THEN Armed
                 ELSE IF turn.streamErr THEN timers ELSE timers \ {"watchdog"}
    /\ child' = KillOnce(child, "SIGTERM")
    /\ UNCHANGED <<agent, pc, exit, grant, critique, shut>>

\* The agent registers a live artifact with its tool token.
RegisterArtifact ==
    /\ grant = [token |-> "live", sink |-> TRUE]
    /\ Bounded
    /\ run' = Emit(run, "data")
    /\ turn' = [turn EXCEPT !.artifact = TRUE]
    /\ timers' = Armed
    /\ UNCHANGED <<agent, pc, process, grant, critique, shut>>

TokenExpires ==
    /\ grant.token = "live"
    /\ grant' = [grant EXCEPT !.token = "revoked"]
    /\ UNCHANGED <<agent, pc, run, process, timers, turn, critique, shut>>

-----------------------------------------------------------------------------
(* Timers                                                                  *)

Elapses(timer) == timer \in timers

\* failForInactivity: a stopped run is left alone; after an artifact the
\* agent is asked to leave and its exit will end the run; otherwise the run
\* fails here.
WatchdogIdle ==
    /\ Elapses("watchdog") /\ Stopped
    /\ timers' = timers \ {"watchdog"}
    /\ UNCHANGED <<agent, pc, run, process, grant, turn, critique, shut>>

\* Mutant of WatchdogFires: it fails the run and leaves the child alone.
WatchdogOnlyFails ==
    /\ Elapses("watchdog") /\ ~Stopped
    /\ run' = Fail(run)
    /\ timers' = timers \ {"watchdog"}
    /\ UNCHANGED <<agent, pc, process, grant, turn, critique, shut>>

\* Mutant of WatchdogFires: it does not look for a cancel.
WatchdogIgnoresCancel ==
    /\ Elapses("watchdog") /\ ~Terminal(run)
    /\ turn' = [turn EXCEPT !.quiet = turn.artifact \/ @]
    /\ run' = IF turn.artifact THEN run ELSE Fail(run)
    /\ session' = Abort(session)
    /\ child' = KillOnce(child, "SIGTERM")
    /\ timers' = (timers \ {"watchdog"}) \cup Forced
    /\ UNCHANGED <<agent, pc, exit, grant, critique, shut>>

WatchdogFires ==
    /\ Elapses("watchdog") /\ ~Stopped
    /\ turn' = [turn EXCEPT !.quiet = turn.artifact \/ @]
    /\ run' = IF turn.artifact THEN run ELSE Fail(run)
    /\ session' = Abort(session)
    /\ child' = KillOnce(child, "SIGTERM")
    /\ timers' = (timers \ {"watchdog"}) \cup Forced
    /\ UNCHANGED <<agent, pc, exit, grant, critique, shut>>

\* The two kill timers: both ask whether a signal was ever delivered.
SignalAfter(timer, sig) ==
    /\ Elapses(timer)
    /\ timers' = timers \ {timer}
    /\ child' = KillOnce(child, sig)
    /\ UNCHANGED <<agent, pc, run, exit, session, grant, turn, critique, shut>>

Force1      == SignalAfter("force1", "SIGTERM")
Force2      == "force1" \notin timers /\ SignalAfter("force2", "SIGKILL")
SessionEnd  == SignalAfter("sessionEnd", "SIGTERM")

\* Mutant of CancelGrace: the grace period ends without a signal.
CancelGraceForgets ==
    /\ Elapses("cancelGrace")
    /\ timers' = timers \ {"cancelGrace"}
    /\ UNCHANGED <<agent, pc, run, process, grant, turn, critique, shut>>

CancelGrace == SignalAfter("cancelGrace", "SIGTERM")

-----------------------------------------------------------------------------
(* The process                                                             *)

ChildExits(how) ==
    /\ child.proc = "alive"
    /\ child' = [child EXCEPT !.proc = "exited"]
    /\ exit' = how
    /\ UNCHANGED <<agent, pc, run, session, timers, grant, turn, critique, shut>>

ChildDies == Doomed(child) /\ \E how \in {"zero", "nonzero"} \cup child.got : ChildExits(how)

\* The error event of a failed spawn: first the session's handler, then the
\* run's.  The critique branch only reports it.
ChildErrors ==
    LET failed == IF session = "open" THEN Reported(run) ELSE run
    IN  /\ child.proc = "failing"
        /\ child' = [child EXCEPT !.proc = "exited"]
        /\ exit' = "spawnError"
        /\ session' = IF session = "open" THEN "fatal" ELSE session
        /\ turn' = IF session = "open" THEN Broken(turn) ELSE turn
        /\ IF agent.format = "critique"
           THEN run' = Emit(run, "error") /\ UNCHANGED <<timers, grant>>
           ELSE /\ run' = Fail(failed)
                /\ timers' = timers \ {"watchdog"}
                /\ grant' = Revoked(grant)
    /\ UNCHANGED <<agent, pc, critique, shut>>

\* Mutant of CloseStatus: without the override for a completed session.
CloseStatusByExit ==
    IF run.cancelRequested THEN "canceled"
    ELSE IF exit = "zero" \/ (exit \in Signals /\ turn.quiet) THEN "succeeded"
    ELSE "failed"

\* classifyChatRunCloseStatus.
CloseStatus ==
    IF run.cancelRequested THEN "canceled"
    ELSE IF \/ exit = "zero"
            \/ exit = "SIGTERM" /\ agent.format = "acp" /\ session = "finished"
            \/ exit \in Signals /\ turn.quiet
    THEN "succeeded"
    ELSE "failed"

\* Mutant of Empty: nobody looks for output.
NeverEmpty == FALSE

\* Nothing the user could see came of a clean exit.
Empty == exit = "zero" /\ Tracked /\ ~turn.output /\ ~run.cancelRequested

\* A failure that is explained: a failed login found in the output of a plain
\* or a tracked stream decides even over the quiet period.
Explains == exit # "zero" /\ ~run.cancelRequested /\ agent.format \in {"plain", "tracked"}

\* What the close handler makes of the run: an error already reported decides;
\* a failure it finds itself it reports, or explains where it can (explained).
Closed(r, explained) ==
    IF session = "fatal" \/ turn.streamErr THEN Finish(r, "failed")
    ELSE IF Empty \/ (explained /\ Explains) THEN Fail(r)
    ELSE Finish(r, CloseStatus)

\* Mutant of ChildCloses: the token is left to its expiry.
ChildClosesKeepsGrant(explained) ==
    /\ child.proc = "exited"
    /\ child' = [child EXCEPT !.proc = "closed"]
    /\ IF agent.format = "critique"
       THEN UNCHANGED <<run, timers>>
       ELSE /\ run' = Closed(run, explained)
            /\ timers' = timers \ {"watchdog", "sessionEnd"}
    /\ UNCHANGED <<agent, pc, exit, session, grant, turn, critique, shut>>

ChildCloses(explained) ==
    /\ child.proc = "exited"
    /\ child' = [child EXCEPT !.proc = "closed"]
    /\ IF agent.format = "critique"
       THEN UNCHANGED <<run, timers, grant>>
       ELSE /\ run' = Closed(run, explained)
            /\ timers' = timers \ {"watchdog", "sessionEnd"}
            /\ grant' = Revoked(grant)
    /\ UNCHANGED <<agent, pc, exit, session, turn, critique, shut>>

-----------------------------------------------------------------------------
(* The critique orchestrator (external: it reads the child's output until   *)
(* it ends, fails or times out)                                             *)

\* A verdict takes output; without a shipped round the orchestrator signals
\* the child, whether it then falls back to an earlier round or not.
CritiqueSettles(succeeded, signals) ==
    /\ critique = "running"
    /\ succeeded => turn.output
    /\ succeeded \/ signals
    /\ critique' = "settled"
    /\ child' = IF signals THEN Kill(child, "SIGTERM") ELSE child
    /\ run' = Finish(run, IF run.cancelRequested THEN "canceled"
                          ELSE IF succeeded THEN "succeeded" ELSE "failed")
    /\ UNCHANGED <<agent, pc, exit, session, timers, grant, turn, shut>>

\* Writing its result throws.
CritiqueThrows ==
    /\ critique = "running"
    /\ critique' = "threw"
    /\ run' = Fail(run)
    /\ UNCHANGED <<agent, pc, process, timers, grant, turn, shut>>

-----------------------------------------------------------------------------
(* Cancel and shutdown (runs.ts)                                           *)

Cancel ==
    /\ ~Terminal(run)
    /\ LET after == Cancelled(run, child, session)
       IN  run' = after.run /\ child' = after.child /\ session' = after.acp
    /\ timers' = IF session # "none" THEN timers \cup {"cancelGrace"} ELSE timers
    /\ UNCHANGED <<agent, pc, exit, grant, turn, critique, shut>>

ShutdownActive ==
    /\ shut = "no"
    /\ ~Terminal(run)
    /\ LET after == ShutDown(run, child, session)
       IN  run' = after.run /\ child' = after.child /\ session' = after.acp
    /\ shut' = IF child.proc = "alive" THEN "grace" ELSE "done"
    /\ UNCHANGED <<agent, pc, exit, timers, grant, turn, critique>>

ShutdownSkips ==
    /\ shut = "no"
    /\ Terminal(run)
    /\ shut' = "done"
    /\ UNCHANGED <<agent, pc, run, process, timers, grant, turn, critique>>

ShutdownGraceEnds ==
    /\ shut = "grace"
    /\ child' = Kill(child, "SIGKILL")
    /\ shut' = IF child.proc = "alive" THEN "reaping" ELSE "done"
    /\ UNCHANGED <<agent, pc, run, exit, session, timers, grant, turn, critique>>

ShutdownReturns ==
    /\ shut = "reaping"
    /\ shut' = "done"
    /\ UNCHANGED <<agent, pc, run, process, timers, grant, turn, critique>>

-----------------------------------------------------------------------------

Starting ==
    \/ Reject
    \/ Start
    \/ \E token \in {"none", "live"} : Gathered(token)
    \/ Prepared
    \/ GiveUp
    \/ NoBinary
    \/ StoppedBeforeSpawn
    \/ SpawnThrows
    \/ \E proc \in {"alive", "failing"} : Launch(proc)

Speaking ==
    \/ \E substantive \in BOOLEAN : Output(substantive)
    \/ StreamError
    \/ StdinFails
    \/ SessionFinishes
    \/ SessionFails
    \/ RegisterArtifact
    \/ TokenExpires

Ticking ==
    \/ WatchdogIdle
    \/ WatchdogFires
    \/ Force1
    \/ Force2
    \/ SessionEnd
    \/ CancelGrace

Ending ==
    \/ \E how \in {"zero", "nonzero"} \cup Signals : ChildExits(how)
    \/ ChildErrors
    \/ \E explained \in BOOLEAN : ChildCloses(explained)
    \/ \E succeeded, signals \in BOOLEAN : CritiqueSettles(succeeded, signals)
    \/ CritiqueThrows

Stopping ==
    \/ Cancel
    \/ ShutdownActive
    \/ ShutdownSkips
    \/ ShutdownGraceEnds
    \/ ShutdownReturns

Next == Starting \/ Speaking \/ Ticking \/ Ending \/ Stopping

Spec == Init /\ [][Next]_vars

\* Awaits are answered, timers fire, signals are delivered, Node reports the
\* end of a process, and the orchestrator has a total timeout.  Nothing makes
\* an agent say or finish anything, and nobody need cancel.
Fairness ==
    /\ WF_vars(Starting)
    /\ WF_vars(WatchdogIdle \/ WatchdogFires)
    /\ WF_vars(Force1)
    /\ WF_vars(Force2)
    /\ WF_vars(SessionEnd)
    /\ WF_vars(CancelGrace)
    /\ WF_vars(ChildDies)
    /\ WF_vars(ChildErrors)
    /\ WF_vars(\E explained \in BOOLEAN : ChildCloses(explained))
    /\ WF_vars(\E succeeded, signals \in BOOLEAN : CritiqueSettles(succeeded, signals))
    /\ WF_vars(ShutdownGraceEnds)
    /\ WF_vars(ShutdownReturns)

FairSpec == Spec /\ Fairness

-----------------------------------------------------------------------------
(* Properties                                                              *)

PcSet      == {"created", "gathering", "preparing", "configuring", "returned", "live"}
ChildType  == [proc : {"none", "alive", "failing", "exited", "closed"}, killed : BOOLEAN,
               got : SUBSET Signals, stubborn : BOOLEAN]
ExitSet    == {"none", "zero", "nonzero", "spawnError"} \cup Signals
SessionSet == {"none", "open", "finished", "fatal", "aborted"}
TimerSet   == {"watchdog", "force1", "force2", "sessionEnd", "cancelGrace"}
GrantType  == [token : {"none", "live", "revoked"}, sink : BOOLEAN]
TurnType   == [artifact : BOOLEAN, quiet : BOOLEAN, streamErr : BOOLEAN, output : BOOLEAN]

\* Every variable has its type.
TypeOK ==
    /\ agent \in Agents
    /\ pc \in PcSet
    /\ run \in RunType
    /\ child \in ChildType /\ exit \in ExitSet /\ session \in SessionSet
    /\ timers \subseteq TimerSet
    /\ grant \in GrantType
    /\ turn \in TurnType
    /\ critique \in {"none", "running", "settled", "threw"}
    /\ shut \in {"no", "grace", "reaping", "done"}

\* No process is forgotten: when a run has ended before its agent process, by
\* the watchdog, a second cancel, a failed session or shutdown, the process
\* has been signalled.  (The critique orchestrator leaves a process that has
\* shipped to itself.)
EndedMeansSignalled ==
    Terminal(run) /\ child.proc = "alive" /\ agent.format # "critique" => child.killed

\* A run that was cancelled before it ended is reported as canceled, unless
\* an error had already been reported for it: neither the watchdog nor the
\* way the process dies of the cancel decides otherwise.
CancelWins ==
    run.cancelRequested /\ Terminal(run) =>
        \/ run.status = "canceled"
        \/ turn.streamErr \/ session = "fatal" \/ critique = "threw"
        \/ exit = "spawnError" \/ pc = "returned"

\* Success is claimed only for a run whose stream, session and spawn reported
\* no error, whose process ended cleanly or was ended by the daemon when the
\* work was done, and which left something to see where that is tracked.  (An
\* error of stdin is sent to the clients and may be followed by success.)
SuccessIsClean ==
    run.status = "succeeded" =>
        /\ ~turn.streamErr /\ session # "fatal" /\ exit # "spawnError"
        /\ exit = "zero" /\ Tracked => turn.output
        /\ exit = "nonzero" => agent.format = "critique"
        /\ exit \in Signals /\ agent.format # "critique" =>
               (turn.artifact /\ turn.quiet) \/ session = "finished"

\* The tool token does not outlive the process it was given to, and no sink
\* is left registered for it (the close and error handlers, which the critique
\* branch does not install).
GrantEndsWithChild ==
    child.proc = "closed" /\ agent.format # "critique" =>
        grant.token # "live" /\ ~grant.sink

\* A turn the RPC session completed, and whose agent stayed on until the
\* daemon's own SIGTERM and nothing else stopped it, has just been closed.
TurnCompleted(format) ==
    /\ agent.format = format
    /\ child.proc = "exited" /\ child'.proc = "closed"
    /\ ~Stopped /\ session = "finished" /\ turn.output /\ ~turn.streamErr
    /\ exit = "SIGTERM" /\ child.got = {"SIGTERM"}

\* Such a turn of an ACP agent is a success (acp.ts and the close handler).
CompletedTurnSucceeds == [][TurnCompleted("acp") => run'.status = "succeeded"]_vars

\* A run never leaves a terminal status (startChatRun sets "running" itself,
\* past the service) and settles once.
Lifecycle == INSTANCE RunLifecycle WITH phase <- run.status, told <- run.told,
                                        Observers <- Waiters
ImplementsLifecycle == Lifecycle!Spec

\* Every run ends once its agent falls silent, whatever the agent does, if it
\* leaves when it is told to: short of a stream error, which switches the
\* watchdog off and signals nobody.
EveryRunEnds == ~agent.stubborn => <>(Terminal(run) \/ turn.streamErr)

-----------------------------------------------------------------------------
(* What comments, documents and tests say, which the code does not do      *)

\* The inactivity kill timer escalates to SIGKILL if the child has not exited
\* after SIGTERM.
WatchdogEscalates ==
    (turn.quiet /\ child.proc = "alive") ~>
        (child.proc # "alive" \/ "SIGKILL" \in child.got)

=============================================================================
