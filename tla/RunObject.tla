----------------------------- MODULE RunObject ------------------------------
(***************************************************************************)
(* The run object of the daemon's chat run service                         *)
(* (apps/daemon/src/runs.ts) and the handle on its agent process, as       *)
(* values: what emit, finish, fail, stream and wait make of a run, and     *)
(* what a signal makes of a child.  Each function of runs.ts runs to       *)
(* completion on the event loop, so each is one operator; a handler that   *)
(* calls several applies them one after the other.  RunService and ChatRun *)
(* are the state machines built from these operators.                      *)
(***************************************************************************)
EXTENDS Naturals, Sequences

CONSTANTS
    Clients,      \* SSE responses that may be attached to the run
    Waiters,      \* callers of wait()
    MaxEvents     \* maxEvents: capacity of the replay buffer

ASSUME MaxEventsAssumption == MaxEvents \in Nat \ {0}

-----------------------------------------------------------------------------
(* The run object and what may be done to it                               *)

TerminalStatus == {"succeeded", "failed", "canceled"}   \* TERMINAL_RUN_STATUSES
ActiveStatus   == {"queued", "running"}
EventKinds     == {"start", "data", "error", "end"}
Record         == [id : Nat \ {0}, event : EventKinds]
Outcomes       == {"idle", "asking"} \cup TerminalStatus

RunType ==
    [status : ActiveStatus \cup TerminalStatus, cancelRequested : BOOLEAN,
     events : Seq(Record), nextEventId : Nat \ {0},
     clients : SUBSET Clients, waiters : SUBSET Waiters,
     sent : [Clients -> SUBSET Record], closed : SUBSET Clients,
     told : [Waiters -> Outcomes]]

Terminal(r) == r.status \in TerminalStatus

\* sent[c] is what has been written to c's response and not yet received;
\* closed is the set of responses the service has ended.
NewRun ==
    [status |-> "queued", cancelRequested |-> FALSE,
     events |-> <<>>, nextEventId |-> 1,
     clients |-> {}, waiters |-> {},
     sent |-> [c \in Clients |-> {}], closed |-> {},
     told |-> [w \in Waiters |-> "idle"]]

\* The buffer keeps the newest MaxEvents records.
Buffer(events, rec) ==
    LET all == Append(events, rec)
    IN  IF Len(all) > MaxEvents THEN Tail(all) ELSE all

\* Mutant of Emit: the record is only buffered, not sent to who is attached.
EmitOnlyBuffers(r, event) ==
    [r EXCEPT !.nextEventId = @ + 1,
              !.events = Buffer(@, [id |-> r.nextEventId, event |-> event])]

\* emit() looks at neither the status nor the reader: it always appends.
Emit(r, event) ==
    LET rec == [id |-> r.nextEventId, event |-> event]
    IN  [r EXCEPT !.nextEventId = @ + 1,
                  !.events = Buffer(@, rec),
                  !.sent = [c \in Clients |-> IF c \in r.clients THEN @[c] \cup {rec}
                                                                 ELSE @[c]]]

\* Mutant of Release: the promises are resolved but the clients not ended.
ReleaseForgetsClients(r) ==
    [r EXCEPT !.told = [w \in Waiters |-> IF w \in r.waiters THEN r.status ELSE @[w]],
              !.waiters = {}]

Release(r) ==
    [r EXCEPT !.closed = @ \cup r.clients,
              !.clients = {},
              !.told = [w \in Waiters |-> IF w \in r.waiters THEN r.status ELSE @[w]],
              !.waiters = {}]

\* Mutant of Finish: a run that has ended may be finished again.
FinishAgain(r, status) == Release(Emit([r EXCEPT !.status = status], "end"))

Finish(r, status) ==
    IF Terminal(r) THEN r
    ELSE Release(Emit([r EXCEPT !.status = status], "end"))

Fail(r) == Finish(Emit(r, "error"), "failed")

\* Mutant of Replay: the event just after the cursor is skipped.
ReplaySkipsOne(r, after) ==
    {r.events[i] : i \in {k \in DOMAIN r.events : r.events[k].id > after + 1}}

Replay(r, after) ==
    {r.events[i] : i \in {k \in DOMAIN r.events : r.events[k].id > after}}

\* Mutant of Stream: a terminal run is replayed but the response is not ended.
StreamLeavesOpen(r, c, after) ==
    [r EXCEPT !.sent[c] = Replay(r, after),
              !.clients = IF Terminal(r) THEN @ ELSE @ \cup {c}]

\* A reader of a terminal run whose cursor is past the buffer is sent the
\* last buffered record again.
Stream(r, c, after) ==
    LET replay == Replay(r, after)
        resend == IF replay = {} /\ r.events # <<>> THEN {r.events[Len(r.events)]} ELSE {}
    IN  IF Terminal(r)
        THEN [r EXCEPT !.sent[c] = replay \cup resend, !.closed = @ \cup {c}]
        ELSE [r EXCEPT !.sent[c] = replay, !.clients = @ \cup {c}]

Wait(r, w) ==
    IF Terminal(r) THEN [r EXCEPT !.told[w] = r.status]
    ELSE [r EXCEPT !.told[w] = "asking", !.waiters = @ \cup {w}]

-----------------------------------------------------------------------------
(* The child process and the RPC session                                   *)

Signals == {"SIGTERM", "SIGKILL"}

\* killed is Node's flag: some signal has been delivered.  stubborn: the
\* agent ignores SIGTERM.
NoChild == [proc |-> "none", killed |-> FALSE, got |-> {}, stubborn |-> FALSE]
Forked(stubborn) == [NoChild EXCEPT !.proc = "alive", !.stubborn = stubborn]

Kill(ch, sig) ==
    IF ch.proc = "alive" THEN [ch EXCEPT !.killed = TRUE, !.got = @ \cup {sig}]
    ELSE ch

\* child && !child.killed && child.kill(sig): what every caller but shutdown does.
KillOnce(ch, sig) == IF ch.killed THEN ch ELSE Kill(ch, sig)

Abort(session) == IF session = "open" THEN "aborted" ELSE session

-----------------------------------------------------------------------------
(* Stopping a run: cancel and shutdownActive, on the run, its child and its *)
(* session together.                                                        *)

\* The session is aborted (and the caller arms the grace timer), or the child
\* is signalled, or there is nothing left to stop and the run ends here.
Cancelled(r, ch, session) ==
    LET asked == [r EXCEPT !.cancelRequested = TRUE]
    IN  IF session # "none"
        THEN [run |-> asked, child |-> ch, acp |-> Abort(session)]
        ELSE IF ch.proc # "none" /\ ~ch.killed
        THEN [run |-> asked, child |-> Kill(ch, "SIGTERM"), acp |-> session]
        ELSE [run |-> Finish(asked, "canceled"), child |-> ch, acp |-> session]

\* Shutdown does not wait for the child to end the run.
ShutDown(r, ch, session) ==
    [run   |-> Finish([r EXCEPT !.cancelRequested = TRUE], "canceled"),
     child |-> Kill(ch, "SIGTERM"),
     acp   |-> Abort(session)]

\* A signal the process cannot survive has reached it.
Doomed(ch) ==
    /\ ch.proc = "alive"
    /\ "SIGKILL" \in ch.got \/ ("SIGTERM" \in ch.got /\ ~ch.stubborn)

=============================================================================
