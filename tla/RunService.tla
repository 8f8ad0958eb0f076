----------------------------- MODULE RunService -----------------------------
(***************************************************************************)
(* The chat run service of the daemon (apps/daemon/src/runs.ts): one run,  *)
(* the callers that emit to it and finish it, the SSE clients that attach, *)
(* drop and reattach with a cursor, the promises handed out by wait(),     *)
(* cancellation, daemon shutdown and TTL cleanup.  Runs share no state, so *)
(* one run stands for all of them.  A step is one call of a function of    *)
(* runs.ts, one timer, or one thing done by a client or by the child.      *)
(***************************************************************************)
EXTENDS RunObject

CONSTANTS
    Agents,      \* kinds of agent a run may launch: does it ignore SIGTERM,
                 \* and has it an RPC session
    MaxIds       \* bound: no caller emits once the ids have passed it

ASSUME ServiceAssumption ==
    /\ Agents \subseteq [stubborn : BOOLEAN, session : {"none", "open"}]
    /\ MaxIds \in Nat

VARIABLES
    run,      \* the run object
    inMap,    \* the service's map still holds it
    child,    \* the agent process, as the daemon and the OS see it
    acp,      \* the run's RPC session: "none", "open" or "aborted"
    timers,   \* armed timers: "ttl", "cancelGrace"
    shut,     \* shutdownActive: "no", "grace", "reaping", "done"
    conn,     \* clients whose connection is open
    cursor,   \* cursor[c]: the last event id client c remembers
    seen      \* seen[c]: every id client c has ever received

clientVars == <<conn, cursor, seen>>
procVars   == <<child, acp>>
vars == <<run, inMap, child, acp, timers, shut, conn, cursor, seen>>

Init ==
    /\ run = NewRun
    /\ inMap = TRUE
    /\ child = NoChild
    /\ acp = "none"
    /\ timers = {}
    /\ shut = "no"
    /\ conn = {}
    /\ cursor = [c \in Clients |-> 0]
    /\ seen = [c \in Clients |-> {}]

\* finish() of an active run also arms the cleanup timer.
Settled(r) == timers \cup (IF ~Terminal(run) /\ Terminal(r) THEN {"ttl"} ELSE {})

-----------------------------------------------------------------------------
(* Callers: the run is driven by whatever code holds the object            *)

\* The starter marks the run running and spawns the agent in one go.
Launch(agent) ==
    /\ run.status = "queued" /\ ~run.cancelRequested
    /\ run' = Emit([run EXCEPT !.status = "running"], "start")
    /\ child' = Forked(agent.stubborn)
    /\ acp' = agent.session
    /\ UNCHANGED <<inMap, timers, shut, clientVars>>

CallEmit(event) ==
    /\ run.nextEventId <= MaxIds
    /\ run' = Emit(run, event)
    /\ UNCHANGED <<inMap, procVars, timers, shut, clientVars>>

CallFinish(status) ==
    /\ ~Terminal(run)
    /\ run' = Finish(run, status)
    /\ timers' = Settled(run')
    /\ UNCHANGED <<inMap, procVars, shut, clientVars>>

\* fail() emits its error whether or not the run is already terminal.
CallFail ==
    /\ run.nextEventId <= MaxIds
    /\ run' = Fail(run)
    /\ timers' = Settled(run')
    /\ UNCHANGED <<inMap, procVars, shut, clientVars>>

CallWait(w) ==
    /\ run.told[w] = "idle"
    /\ run' = Wait(run, w)
    /\ UNCHANGED <<inMap, procVars, timers, shut, clientVars>>

\* POST /cancel finds the run in the map; on a terminal run it does nothing.
Cancel ==
    LET after == Cancelled(run, child, acp)
    IN  /\ inMap
        /\ ~Terminal(run)
        /\ run' = after.run
        /\ child' = after.child
        /\ acp' = after.acp
        /\ timers' = Settled(run') \cup (IF acp # "none" THEN {"cancelGrace"} ELSE {})
        /\ UNCHANGED <<inMap, shut, clientVars>>

CancelGraceElapses ==
    /\ "cancelGrace" \in timers
    /\ timers' = timers \ {"cancelGrace"}
    /\ child' = KillOnce(child, "SIGTERM")
    /\ UNCHANGED <<run, inMap, acp, shut, clientVars>>

\* The cleanup timer drops the run from the map.
Cleanup ==
    /\ "ttl" \in timers
    /\ timers' = timers \ {"ttl"}
    /\ inMap' = IF Terminal(run) THEN FALSE ELSE inMap
    /\ UNCHANGED <<run, procVars, shut, clientVars>>

-----------------------------------------------------------------------------
(* Daemon shutdown: only runs that are active when it starts are stopped   *)

ShutdownActive ==
    /\ shut = "no"
    /\ ~Terminal(run)
    /\ LET after == ShutDown(run, child, acp)
       IN  run' = after.run /\ child' = after.child /\ acp' = after.acp
    /\ timers' = Settled(run')
    /\ shut' = IF child.proc = "alive" THEN "grace" ELSE "done"
    /\ UNCHANGED <<inMap, clientVars>>

ShutdownSkips ==
    /\ shut = "no"
    /\ Terminal(run)
    /\ shut' = "done"
    /\ UNCHANGED <<run, inMap, procVars, timers, clientVars>>

\* Mutant of ShutdownGraceEnds: the second signal asks whether one was sent.
ShutdownGraceEndsOnce ==
    /\ shut = "grace"
    /\ child' = KillOnce(child, "SIGKILL")
    /\ shut' = IF child.proc = "exited" THEN "done" ELSE "reaping"
    /\ UNCHANGED <<run, inMap, acp, timers, clientVars>>

\* The child is awaited for the grace period; if it outlives it, SIGKILL.
ShutdownGraceEnds ==
    /\ shut = "grace"
    /\ child' = Kill(child, "SIGKILL")
    /\ shut' = IF child.proc = "exited" THEN "done" ELSE "reaping"
    /\ UNCHANGED <<run, inMap, acp, timers, clientVars>>

ShutdownReturns ==
    /\ shut = "reaping"
    /\ shut' = "done"
    /\ UNCHANGED <<run, inMap, procVars, timers, clientVars>>

-----------------------------------------------------------------------------
(* The child                                                               *)

ChildDies ==
    /\ Doomed(child)
    /\ child' = [child EXCEPT !.proc = "exited"]
    /\ UNCHANGED <<run, inMap, acp, timers, shut, clientVars>>

ChildExits ==
    /\ child.proc = "alive" /\ ~Doomed(child)
    /\ child' = [child EXCEPT !.proc = "exited"]
    /\ UNCHANGED <<run, inMap, acp, timers, shut, clientVars>>

-----------------------------------------------------------------------------
(* Clients                                                                 *)

\* A client attaches with the id it remembers; a page that was reloaded may
\* remember an older one than it had seen.
Connect(c, after) ==
    /\ inMap
    /\ c \notin conn
    /\ after <= cursor[c]
    /\ run' = Stream(run, c, after)
    /\ conn' = conn \cup {c}
    /\ cursor' = [cursor EXCEPT ![c] = after]
    /\ UNCHANGED <<inMap, procVars, timers, shut, seen>>

\* A response delivers its records in the order of their ids.
Receive(c) ==
    /\ c \in conn
    /\ \E rec \in run.sent[c] :
          /\ \A other \in run.sent[c] : rec.id <= other.id
          /\ run' = [run EXCEPT !.sent[c] = @ \ {rec}]
          /\ cursor' = [cursor EXCEPT ![c] = rec.id]
          /\ seen' = [seen EXCEPT ![c] = @ \cup {rec.id}]
    /\ UNCHANGED <<inMap, procVars, timers, shut, conn>>

\* The connection goes away: what was in flight is lost.
Disconnect(c) ==
    /\ conn' = conn \ {c}
    /\ run' = [run EXCEPT !.clients = @ \ {c}, !.sent[c] = {}, !.closed = @ \ {c}]
    /\ UNCHANGED <<inMap, procVars, timers, shut, cursor, seen>>

Drop(c) == c \in conn /\ Disconnect(c)

\* The client has read everything up to the end of an ended response.
HangUp(c) ==
    /\ c \in conn /\ c \in run.closed /\ run.sent[c] = {}
    /\ Disconnect(c)

-----------------------------------------------------------------------------

ServiceNext ==
    \/ \E agent \in Agents : Launch(agent)
    \/ \E event \in {"data", "error"} : CallEmit(event)
    \/ \E status \in TerminalStatus : CallFinish(status)
    \/ CallFail
    \/ \E w \in Waiters : CallWait(w)
    \/ Cancel
    \/ CancelGraceElapses
    \/ Cleanup
    \/ ShutdownActive
    \/ ShutdownSkips
    \/ ShutdownGraceEnds
    \/ ShutdownReturns

ClientNext(c) ==
    \/ \E after \in 0..cursor[c] : Connect(c, after)
    \/ Receive(c)
    \/ Drop(c)
    \/ HangUp(c)

Next ==
    \/ ServiceNext
    \/ ChildDies
    \/ ChildExits
    \/ \E c \in Clients : ClientNext(c)

Spec == Init /\ [][Next]_vars

\* Timers fire, the kernel delivers SIGKILL and an agent that does not ignore
\* SIGTERM dies of it, and an open connection is read to its end.
Fairness ==
    /\ WF_vars(CancelGraceElapses)
    /\ WF_vars(ShutdownGraceEnds)
    /\ WF_vars(ShutdownReturns)
    /\ WF_vars(ChildDies)
    /\ \A c \in Clients : WF_vars(Receive(c)) /\ WF_vars(HangUp(c))

FairSpec == Spec /\ Fairness

-----------------------------------------------------------------------------
(* Properties                                                              *)

ChildType ==
    [proc : {"none", "alive", "exited"}, killed : BOOLEAN,
     got : SUBSET Signals, stubborn : BOOLEAN]

\* Type correctness of the service's state.
TypeOK ==
    /\ run \in RunType
    /\ inMap \in BOOLEAN
    /\ child \in ChildType
    /\ acp \in {"none", "open", "aborted"}
    /\ timers \subseteq {"ttl", "cancelGrace"}
    /\ shut \in {"no", "grace", "reaping", "done"}
    /\ conn \subseteq Clients
    /\ cursor \in [Clients -> Nat]
    /\ seen \in [Clients -> SUBSET Nat]

\* Nobody is stranded (finish, stream, wait and the cleanup timer together):
\* a response that is open is either ended or still in the list the service
\* will end, a promise that is pending is in the list it will resolve, and a
\* run that is terminal or gone from the map has emptied both lists.
NobodyStranded ==
    /\ conn = run.clients \cup run.closed
    /\ \A w \in Waiters : run.told[w] = "asking" => w \in run.waiters
    /\ Terminal(run) \/ ~inMap => run.clients = {} /\ run.waiters = {}

\* A response attached to an active run is exactly up to date: what is in
\* flight to it is newer than what its client remembers, and the newest of
\* the two is the newest event of the run, so replay and live events neither
\* overlap nor leave a gap at the moment of attaching (stream, emit).
AttachedIsCurrent ==
    \A c \in run.clients :
        LET ids == {rec.id : rec \in run.sent[c]}
        IN  /\ \A id \in ids : id > cursor[c]
            /\ run.nextEventId - 1 \in ids \cup {cursor[c]}

\* However a client drops, reloads and reattaches, an event older than its
\* cursor that it never received is one the ring buffer has evicted.
OnlyEvictedIsLost ==
    \A c \in Clients : \A id \in 1..cursor[c] :
        id \in seen[c] \/ \A i \in DOMAIN run.events : run.events[i].id # id

\* A terminal status is final, whatever cancel, shutdown, a watchdog or a
\* late handler does afterwards, and so is what a waiter was told.
OutcomeIsFinal ==
    [][ /\ Terminal(run) => run'.status = run.status
        /\ \A w \in Waiters : run.told[w] \in TerminalStatus =>
               run'.told[w] = run.told[w] /\ run.told[w] = run.status ]_vars

\* The service implements the run that RunLifecycle promises.
Lifecycle == INSTANCE RunLifecycle WITH phase <- run.status, told <- run.told,
                                        Observers <- Waiters
ImplementsLifecycle == Lifecycle!Spec

\* Every connection to a terminal run comes to its end.
StreamsEnd ==
    \A c \in Clients : (c \in conn /\ Terminal(run)) ~> c \notin conn

\* A child that was alive when shutdown stopped its run does not survive the
\* shutdown, even if it ignores SIGTERM.
ShutdownReaps == shut = "grace" ~> child.proc = "exited"

=============================================================================
