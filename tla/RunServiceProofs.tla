-------------------------- MODULE RunServiceProofs --------------------------
(***************************************************************************)
(* Theorems about RunService, for any clients, waiters, agents, buffer     *)
(* capacity and bound.                                                     *)
(***************************************************************************)
EXTENDS RunService, RunObjectProofs

-----------------------------------------------------------------------------
(* The inductive invariant                                                 *)

IInv ==
    /\ TypeOK
    /\ Tidy(run)
    /\ conn = run.clients \cup run.closed
    /\ ~inMap => Terminal(run)

\* A signal leaves a child.
LEMMA KillType ==
    ASSUME NEW ch \in ChildType, NEW sig \in Signals
    PROVE  Kill(ch, sig) \in ChildType /\ KillOnce(ch, sig) \in ChildType
  BY DEF Kill, KillOnce, ChildType

\* cancel() advances the run and leaves a child and a session.
LEMMA CancelledType ==
    ASSUME NEW r \in RunType, Tidy(r), NEW ch \in ChildType,
           NEW session \in {"none", "open", "aborted"}
    PROVE  LET after == Cancelled(r, ch, session)
           IN  /\ Advances(r, after.run)
               /\ after.child \in ChildType
               /\ after.acp \in {"none", "open", "aborted"}
<1>1. "SIGTERM" \in Signals
  BY DEF Signals
<1>2. Kill(ch, "SIGTERM") \in ChildType
  BY <1>1, KillType
<1>3. QED
  BY <1>2, AskedAdvances DEF Cancelled, Abort

\* shutdownActive() advances the run and leaves a child and a session.
LEMMA ShutDownType ==
    ASSUME NEW r \in RunType, Tidy(r), NEW ch \in ChildType,
           NEW session \in {"none", "open", "aborted"}
    PROVE  LET after == ShutDown(r, ch, session)
           IN  /\ Advances(r, after.run)
               /\ after.child \in ChildType
               /\ after.acp \in {"none", "open", "aborted"}
<1>1. "SIGTERM" \in Signals
  BY DEF Signals
<1>2. Kill(ch, "SIGTERM") \in ChildType
  BY <1>1, KillType
<1>3. QED
  BY <1>2, AskedAdvances DEF ShutDown, Abort

-----------------------------------------------------------------------------
(* One step of the service                                                 *)

\* The service as its observers see it.
Outward == Lifecycle!Next \/ UNCHANGED <<run.status, run.told>>

LEMMA AdvanceIsOutward ==
    ASSUME TypeOK, Advances(run, run')
    PROVE  Outward
<1>1. CASE run'.status = run.status /\ run'.told = run.told
  BY <1>1 DEF Outward
<1>2. CASE /\ ~Terminal(run)
           /\ run'.status \in TerminalStatus
           /\ run'.told = [w \in Waiters |-> IF run.told[w] = "asking" THEN run'.status
                                                                     ELSE run.told[w]]
  <2>1. run.status \in ActiveStatus
    BY <1>2 DEF TypeOK, RunType, Terminal
  <2>2. Lifecycle!Settle(run'.status)
    BY <1>2, <2>1 DEF Lifecycle!Settle, Lifecycle!ActiveStatus, ActiveStatus
  <2>3. QED
    BY <1>2, <2>2 DEF Outward, Lifecycle!Next, Lifecycle!TerminalStatus, TerminalStatus
<1>3. QED
  BY <1>1, <1>2 DEF Advances

\* Whatever drives the run keeps the invariant, if it minds its own variables.
LEMMA AdvanceKeeps ==
    ASSUME IInv, Advances(run, run'),
           UNCHANGED <<inMap, conn, cursor, seen>>,
           child' \in ChildType, acp' \in {"none", "open", "aborted"},
           timers' \subseteq {"ttl", "cancelGrace"},
           shut' \in {"no", "grace", "reaping", "done"}
    PROVE  IInv' /\ Outward
<1>1. TypeOK'
  BY DEF IInv, TypeOK, Advances
<1>2. ~inMap' => Terminal(run')
  BY DEF IInv, Advances, Terminal
<1>3. Outward
  BY AdvanceIsOutward DEF IInv
<1>4. QED
  BY <1>1, <1>2, <1>3 DEF IInv, Advances

\* A step that leaves the run alone and the clients too.
LEMMA OtherKeeps ==
    ASSUME IInv, UNCHANGED <<run, conn, cursor, seen>>,
           inMap' \in BOOLEAN, ~inMap' => Terminal(run),
           child' \in ChildType, acp' \in {"none", "open", "aborted"},
           timers' \subseteq {"ttl", "cancelGrace"},
           shut' \in {"no", "grace", "reaping", "done"}
    PROVE  IInv' /\ Outward
  BY DEF IInv, TypeOK, Outward

\* The step that marks the run running and spawns the agent.
LEMMA LaunchKeeps ==
    ASSUME IInv, NEW agent \in Agents, Launch(agent)
    PROVE  IInv' /\ Outward
<1> DEFINE set == [run EXCEPT !.status = "running"]
<1>1. /\ set \in RunType /\ set.status = "running" /\ set.told = run.told
      /\ set.waiters = run.waiters /\ set.clients = run.clients /\ set.closed = run.closed
  BY DEF IInv, TypeOK, RunType, ActiveStatus
<1>2. run.status = "queued" /\ run' = Emit(set, "start")
  BY DEF Launch
<1> HIDE DEF set
<1>3. Tidy(set)
  BY <1>1, <1>2 DEF IInv, TypeOK, RunType, Tidy, Terminal, TerminalStatus, ActiveStatus
<1>4. /\ run' \in RunType /\ Tidy(run') /\ run'.status = "running" /\ run'.told = run.told
      /\ run'.clients = run.clients /\ run'.closed = run.closed
  BY <1>1, <1>2, <1>3, EmitType, EmitTidy, EmitFrame DEF EventKinds
<1>5. Outward
  BY <1>2, <1>4 DEF Outward, Lifecycle!Next, Lifecycle!Begin
<1>6. child' \in ChildType /\ acp' \in {"none", "open", "aborted"}
  BY ServiceAssumption DEF Launch, Forked, NoChild, ChildType
<1>7. inMap
  BY <1>2 DEF IInv, Terminal, TerminalStatus
<1>8. QED
  BY <1>4, <1>5, <1>6, <1>7 DEF IInv, TypeOK, Launch, clientVars

\* A call of wait().
LEMMA WaitKeeps ==
    ASSUME IInv, NEW w \in Waiters, CallWait(w)
    PROVE  IInv' /\ Outward
<1>1. /\ run' \in RunType /\ Tidy(run')
      /\ run'.status = run.status
      /\ run'.clients = run.clients /\ run'.closed = run.closed
      /\ run'.told = [run.told EXCEPT ![w] = IF Terminal(run) THEN run.status ELSE "asking"]
  BY WaitTidy DEF IInv, TypeOK, CallWait
<1>2. Lifecycle!Ask(w)
  BY <1>1 DEF CallWait, Lifecycle!Ask, Terminal, TerminalStatus, Lifecycle!TerminalStatus
<1>3. Outward
  BY <1>2 DEF Outward, Lifecycle!Next
<1>4. QED
  BY <1>1, <1>3 DEF IInv, TypeOK, CallWait, procVars, clientVars, Terminal

\* A client that attaches.
LEMMA ConnectKeeps ==
    ASSUME IInv, NEW c \in Clients, NEW after \in 0..cursor[c], Connect(c, after)
    PROVE  IInv' /\ Outward
<1>1. after \in Nat
  BY DEF IInv, TypeOK
<1>2. /\ run' \in RunType /\ Tidy(run')
      /\ run'.status = run.status /\ run'.told = run.told
      /\ run'.clients \cup run'.closed = (run.clients \cup run.closed) \cup {c}
  BY <1>1, StreamTidy DEF IInv, TypeOK, Connect
<1>3. cursor' \in [Clients -> Nat]
  BY <1>1 DEF IInv, TypeOK, Connect
<1>4. QED
  BY <1>2, <1>3 DEF IInv, TypeOK, Connect, procVars, Outward, Terminal

\* Receiving touches only what is in flight and what the client remembers.
LEMMA ReceiveKeeps ==
    ASSUME IInv, NEW c \in Clients, Receive(c)
    PROVE  IInv' /\ Outward
<1>1. PICK rec \in run.sent[c] :
          /\ run' = [run EXCEPT !.sent[c] = @ \ {rec}]
          /\ cursor' = [cursor EXCEPT ![c] = rec.id]
          /\ seen' = [seen EXCEPT ![c] = @ \cup {rec.id}]
  BY DEF Receive
<1>2. rec \in Record /\ rec.id \in Nat
  BY DEF IInv, TypeOK, RunType, Record
<1> DEFINE sent == [run.sent EXCEPT ![c] = @ \ {rec}]
<1>3. sent \in [Clients -> SUBSET Record]
  BY DEF IInv, TypeOK, RunType
<1>4. run' = [run EXCEPT !.sent = sent]
  BY <1>1
<1> HIDE DEF sent
<1>5. /\ run' \in RunType
      /\ run'.status = run.status /\ run'.told = run.told /\ run'.waiters = run.waiters
      /\ run'.clients = run.clients /\ run'.closed = run.closed
  BY <1>3, <1>4 DEF IInv, TypeOK, RunType
<1>6. cursor' \in [Clients -> Nat] /\ seen' \in [Clients -> SUBSET Nat]
  BY <1>1, <1>2 DEF IInv, TypeOK
<1>7. Tidy(run')
  BY <1>5 DEF IInv, Tidy, Terminal
<1>8. QED
  BY <1>5, <1>6, <1>7 DEF IInv, TypeOK, Receive, procVars, Outward, Terminal

\* A connection that goes away.
LEMMA DisconnectKeeps ==
    ASSUME IInv, NEW c \in Clients, Disconnect(c)
    PROVE  IInv' /\ Outward
<1> DEFINE sent == [run.sent EXCEPT ![c] = {}]
<1>1. sent \in [Clients -> SUBSET Record]
  BY DEF IInv, TypeOK, RunType
<1>2. run' = [run EXCEPT !.clients = run.clients \ {c}, !.sent = sent,
                         !.closed = run.closed \ {c}]
  BY DEF Disconnect
<1> HIDE DEF sent
<1>3. /\ run' \in RunType
      /\ run'.status = run.status /\ run'.told = run.told /\ run'.waiters = run.waiters
      /\ run'.clients = run.clients \ {c} /\ run'.closed = run.closed \ {c}
  BY <1>1, <1>2 DEF IInv, TypeOK, RunType
<1>4. Tidy(run')
  BY <1>3 DEF IInv, Tidy, Terminal
<1>5. QED
  BY <1>3, <1>4 DEF IInv, TypeOK, Disconnect, procVars, Outward, Terminal

\* Any step whatever.
LEMMA StepKeeps ==
    ASSUME IInv, [Next]_vars
    PROVE  IInv' /\ Outward
<1> USE DEF procVars, clientVars
<1>1. run \in RunType /\ Tidy(run) /\ child \in ChildType
      /\ acp \in {"none", "open", "aborted"} /\ timers \subseteq {"ttl", "cancelGrace"}
      /\ shut \in {"no", "grace", "reaping", "done"} /\ inMap \in BOOLEAN
  BY DEF IInv, TypeOK
<1>2. /\ \A event \in EventKinds : Advances(run, Emit(run, event))
      /\ \A status \in TerminalStatus : Advances(run, Finish(run, status))
      /\ Advances(run, Fail(run))
  BY <1>1, EmitAdvances, FinishAdvances, FailAdvances
<1>3. \A sig \in Signals : Kill(child, sig) \in ChildType /\ KillOnce(child, sig) \in ChildType
  BY <1>1, KillType
<1>4. Settled(run') \subseteq {"ttl", "cancelGrace"}
  BY <1>1 DEF Settled
<1>5. CASE UNCHANGED vars
  BY <1>1, <1>5, OtherKeeps DEF vars, IInv
<1>6. ASSUME NEW agent \in Agents, Launch(agent) PROVE IInv' /\ Outward
  BY <1>6, LaunchKeeps
<1>7. ASSUME NEW event \in {"data", "error"}, CallEmit(event) PROVE IInv' /\ Outward
  <2>1. Advances(run, run')
    BY <1>2, <1>7 DEF CallEmit, EventKinds
  <2>2. QED
    BY <1>1, <1>7, <2>1, AdvanceKeeps DEF CallEmit
<1>8. ASSUME NEW status \in TerminalStatus, CallFinish(status) PROVE IInv' /\ Outward
  <2>1. Advances(run, run')
    BY <1>2, <1>8 DEF CallFinish
  <2>2. QED
    BY <1>1, <1>4, <1>8, <2>1, AdvanceKeeps DEF CallFinish
<1>9. CASE CallFail
  <2>1. Advances(run, run')
    BY <1>2, <1>9 DEF CallFail
  <2>2. QED
    BY <1>1, <1>4, <1>9, <2>1, AdvanceKeeps DEF CallFail
<1>10. ASSUME NEW w \in Waiters, CallWait(w) PROVE IInv' /\ Outward
  BY <1>10, WaitKeeps
<1>11. CASE Cancel
  <2>1. /\ Advances(run, run')
        /\ child' \in ChildType
        /\ acp' \in {"none", "open", "aborted"}
    BY <1>1, <1>11, CancelledType DEF Cancel
  <2>2. timers' \subseteq {"ttl", "cancelGrace"}
    BY <1>4, <1>11 DEF Cancel
  <2>3. QED
    BY <1>1, <1>11, <2>1, <2>2, AdvanceKeeps DEF Cancel
<1>12. CASE CancelGraceElapses
  BY <1>1, <1>3, <1>12, OtherKeeps DEF CancelGraceElapses, IInv, Signals
<1>13. CASE Cleanup
  BY <1>1, <1>13, OtherKeeps DEF Cleanup, IInv
<1>14. CASE ShutdownActive
  <2>1. /\ Advances(run, run')
        /\ child' \in ChildType
        /\ acp' \in {"none", "open", "aborted"}
    BY <1>1, <1>14, ShutDownType DEF ShutdownActive
  <2>2. timers' \subseteq {"ttl", "cancelGrace"}
    BY <1>4, <1>14 DEF ShutdownActive
  <2>3. QED
    BY <1>1, <1>14, <2>1, <2>2, AdvanceKeeps DEF ShutdownActive
<1>15. CASE ShutdownSkips
  BY <1>1, <1>15, OtherKeeps DEF ShutdownSkips, IInv
<1>16. CASE ShutdownGraceEnds
  BY <1>1, <1>3, <1>16, OtherKeeps DEF ShutdownGraceEnds, IInv, Signals
<1>17. CASE ShutdownReturns
  BY <1>1, <1>17, OtherKeeps DEF ShutdownReturns, IInv
<1>18. CASE ChildDies \/ ChildExits
  <2>1. child' \in ChildType
    BY <1>1, <1>18 DEF ChildDies, ChildExits, ChildType
  <2>2. QED
    BY <1>1, <1>18, <2>1, OtherKeeps DEF ChildDies, ChildExits, IInv
<1>19. ASSUME NEW c \in Clients, ClientNext(c) PROVE IInv' /\ Outward
  BY <1>19, ConnectKeeps, ReceiveKeeps, DisconnectKeeps DEF ClientNext, Drop, HangUp
<1>20. QED
  BY <1>5, <1>6, <1>7, <1>8, <1>9, <1>10, <1>11, <1>12, <1>13, <1>14, <1>15, <1>16,
     <1>17, <1>18, <1>19 DEF Next, ServiceNext

\* The run the service creates satisfies the invariant.
LEMMA InitKeeps == Init => IInv
<1> SUFFICES ASSUME Init PROVE IInv
  OBVIOUS
<1>1. run = NewRun /\ run \in RunType
  BY DEF Init, NewRun, RunType, ActiveStatus, Outcomes
<1>2. Tidy(run)
  BY <1>1 DEF NewRun, Tidy, TerminalStatus
<1>3. TypeOK
  BY <1>1 DEF Init, TypeOK, NoChild, ChildType
<1>4. QED
  BY <1>1, <1>2, <1>3 DEF Init, IInv, NewRun

-----------------------------------------------------------------------------
(* What reaches a client                                                   *)

\* The buffer ends with the newest event, and its ids have no gap.
Numbered(r) ==
    /\ r.nextEventId > 1 => Len(r.events) > 0
    /\ Len(r.events) < r.nextEventId
    /\ \A i \in 1..Len(r.events) : r.events[i].id + Len(r.events) + 1 = r.nextEventId + i

\* What is in flight to a client that remembers the id "at": each event once,
\* and none skipped that is still buffered.  To an attached client everything
\* newer than what it remembers is in flight, and nothing else.
InFlight(r, c, at) ==
    /\ \A rec \in r.sent[c] : rec.id < r.nextEventId
    /\ \A one, other \in r.sent[c] : one.id = other.id => one = other
    /\ \A rec \in r.sent[c], i \in 1..Len(r.events) :
           /\ r.events[i].id < rec.id
           /\ at < r.events[i].id \/ \E one \in r.sent[c] : one.id < r.events[i].id
           => r.events[i] \in r.sent[c]
    /\ c \in r.clients =>
           /\ \A rec \in r.sent[c] : at < rec.id
           /\ \A i \in 1..Len(r.events) : at < r.events[i].id => r.events[i] \in r.sent[c]

\* Such a client has seen what it could have seen.
Served(r, c, at, ids) ==
    /\ at < r.nextEventId
    /\ InFlight(r, c, at)
    /\ \A i \in 1..Len(r.events) : r.events[i].id <= at => r.events[i].id \in ids

\* An operation after which every client is served as well as before.
Serves(r, s) ==
    Numbered(r) =>
        /\ Numbered(s)
        /\ \A c \in Clients, at \in Nat, ids \in SUBSET Nat :
               Served(r, c, at, ids) => Served(s, c, at, ids)

LEMMA ServesInTurn ==
    ASSUME NEW r, NEW s, NEW t, Serves(r, s), Serves(s, t)
    PROVE  Serves(r, t)
  BY DEF Serves

\* Who neither emits nor attaches serves everybody.
LEMMA SameServes ==
    ASSUME NEW r, NEW s, s.events = r.events, s.nextEventId = r.nextEventId,
           s.sent = r.sent, s.clients \subseteq r.clients
    PROVE  Serves(r, s)
  BY DEF Serves, Served, InFlight, Numbered

\* A buffer after one more record: the record last, and before it those of
\* the old records that are left, in their order.
Shifted(b, events, rec) ==
    /\ b \in Seq(Record) /\ Len(b) > 0 /\ b[Len(b)] = rec
    /\ \E d \in {0, 1} :
           /\ Len(b) + d = Len(events) + 1
           /\ \A i \in 1..(Len(b) - 1) : i + d \in 1..Len(events) /\ b[i] = events[i + d]

LEMMA BufferHolds ==
    ASSUME NEW events \in Seq(Record), NEW rec \in Record
    PROVE  Shifted(Buffer(events, rec), events, rec)
<1> DEFINE all == Append(events, rec)
           b   == Buffer(events, rec)
<1>1. /\ all \in Seq(Record) /\ Len(all) = Len(events) + 1
      /\ all[Len(events) + 1] = rec /\ \A i \in 1..Len(events) : all[i] = events[i]
  OBVIOUS
<1>2. b = IF Len(all) > MaxEvents THEN Tail(all) ELSE all
  BY DEF Buffer
<1>3. Len(events) \in Nat
  OBVIOUS
<1> SUFFICES Shifted(b, events, rec)
  OBVIOUS
<1> HIDE DEF all, b
<1>4. CASE Len(all) > MaxEvents
  <2>1. Len(events) > 0
    BY <1>1, <1>3, <1>4, MaxEventsAssumption
  <2>2. /\ b \in Seq(Record) /\ Len(b) = Len(events)
        /\ \A i \in 1..Len(events) : b[i] = all[i + 1]
    BY <1>1, <1>2, <1>3, <1>4, <2>1
  <2>3. /\ Len(b) > 0 /\ b[Len(b)] = rec /\ Len(b) + 1 = Len(events) + 1
        /\ \A i \in 1..(Len(b) - 1) : i + 1 \in 1..Len(events) /\ b[i] = events[i + 1]
    BY <1>1, <1>3, <2>1, <2>2
  <2>4. QED
    BY <2>2, <2>3 DEF Shifted
<1>5. CASE ~(Len(all) > MaxEvents)
  <2>1. b = all
    BY <1>2, <1>5
  <2>2. /\ Len(b) > 0 /\ b[Len(b)] = rec /\ Len(b) + 0 = Len(events) + 1
        /\ \A i \in 1..(Len(b) - 1) : i + 0 \in 1..Len(events) /\ b[i] = events[i + 0]
    BY <1>1, <1>3, <2>1
  <2>3. QED
    BY <1>1, <2>1, <2>2 DEF Shifted
<1>6. QED
  BY <1>4, <1>5

\* emit(): the event goes to the buffer and to everybody attached at once.
LEMMA EmitServes ==
    ASSUME NEW r \in RunType, NEW event \in EventKinds
    PROVE  Serves(r, Emit(r, event))
<1> DEFINE rec == [id |-> r.nextEventId, event |-> event]
           s   == Emit(r, event)
           n   == Len(r.events)
           m   == Len(s.events)
<1>1. /\ r.events \in Seq(Record) /\ r.nextEventId \in Nat \ {0}
      /\ r.sent \in [Clients -> SUBSET Record]
  BY DEF RunType
<1>2. rec \in Record /\ rec.id = r.nextEventId
  BY <1>1 DEF Record
<1>3. /\ s.events = Buffer(r.events, rec) /\ s.nextEventId = r.nextEventId + 1
      /\ s.clients = r.clients
      /\ \A c \in Clients :
             s.sent[c] = IF c \in r.clients THEN r.sent[c] \cup {rec} ELSE r.sent[c]
  BY DEF Emit, RunType
<1> HIDE DEF rec, s
<1>4. Shifted(s.events, r.events, rec)
  BY <1>1, <1>2, <1>3, BufferHolds
<1>5. m \in Nat /\ m > 0 /\ s.events[m] = rec
  BY <1>4 DEF Shifted
<1>shift. PICK d \in {0, 1} :
         /\ m + d = n + 1
         /\ \A i \in 1..(m - 1) : i + d \in 1..n /\ s.events[i] = r.events[i + d]
  BY <1>4 DEF Shifted
<1>6. n \in Nat /\ \A i \in 1..n : r.events[i] \in Record
  BY <1>1
<1>7. \A i \in 1..n : r.events[i].id \in Nat
  BY <1>6 DEF Record
<1> HIDE DEF n, m
<1>8. \A i \in 1..m : s.events[i] = rec \/ \E j \in 1..n : s.events[i] = r.events[j]
  <2>1. TAKE i \in 1..m
  <2>2. CASE i = m
    BY <1>5, <2>2
  <2>3. CASE i # m
    <3>1. i \in 1..(m - 1)
      BY <1>5, <2>3
    <3>2. QED
      BY <1>shift, <3>1
  <2>4. QED
    BY <2>2, <2>3
<1>9. SUFFICES ASSUME Numbered(r)
               PROVE  /\ Numbered(s)
                      /\ \A c \in Clients, at \in Nat, ids \in SUBSET Nat :
                             Served(r, c, at, ids) => Served(s, c, at, ids)
  BY DEF Serves, s
<1>10. Numbered(s)
  <2>1. ASSUME NEW i \in 1..m
        PROVE  s.events[i].id + m + 1 = s.nextEventId + i
    <3>1. CASE i = m
      BY <1>1, <1>2, <1>3, <1>5, <1>6, <3>1
    <3>2. CASE i # m
      <4>1. i \in 1..(m - 1)
        BY <1>5, <3>2
      <4>2. i + d \in 1..n /\ s.events[i] = r.events[i + d]
        BY <1>shift, <4>1
      <4>3. r.events[i + d].id + n + 1 = r.nextEventId + (i + d) /\ r.events[i + d].id \in Nat
        BY <1>7, <1>9, <4>2 DEF Numbered, n
      <4>4. PICK x \in Nat : x = r.events[i + d].id
        BY <4>3
      <4>5. /\ s.events[i].id = x /\ x + n + 1 = r.nextEventId + (i + d)
            /\ m + d = n + 1 /\ s.nextEventId = r.nextEventId + 1
            /\ i \in Nat /\ d \in Nat /\ n \in Nat /\ m \in Nat /\ r.nextEventId \in Nat
        BY <1>1, <1>3, <1>shift, <1>5, <1>6, <4>2, <4>3, <4>4
      <4>6. x + m + 1 = (r.nextEventId + 1) + i
        BY <4>5
      <4>7. QED
        BY <4>5, <4>6
    <3>3. QED
      BY <3>1, <3>2
  <2>2. n < r.nextEventId
    BY <1>9 DEF Numbered, n
  <2>3. m > 0 /\ m < s.nextEventId
    BY <1>1, <1>3, <1>5, <1>shift, <1>6, <2>2
  <2>4. QED
    BY <2>1, <2>3 DEF Numbered, m
<1>11. ASSUME NEW c \in Clients, NEW at \in Nat, NEW ids \in SUBSET Nat,
              Served(r, c, at, ids)
       PROVE  Served(s, c, at, ids)
  <2>1. /\ at < r.nextEventId
        /\ \A one \in r.sent[c] : one.id \in Nat /\ one.id < r.nextEventId
    BY <1>1, <1>11 DEF Served, InFlight, Record
  <2>2. at < s.nextEventId
    BY <1>1, <1>3, <2>1
  <2>3. \A i \in 1..m : s.events[i].id <= at => s.events[i].id \in ids
    <3>1. \A i \in 1..n : r.events[i].id <= at => r.events[i].id \in ids
      BY <1>11 DEF Served, n
    <3>2. QED
      BY <1>1, <1>2, <1>8, <2>1, <3>1
  <2>4. /\ \A one \in s.sent[c] : one = rec \/ one \in r.sent[c]
        /\ \A one \in s.sent[c] : one.id < s.nextEventId
    <3>1. \A one \in s.sent[c] : one = rec \/ one \in r.sent[c]
      BY <1>3
    <3>2. rec.id < s.nextEventId /\ \A one \in r.sent[c] : one.id < s.nextEventId
      BY <1>1, <1>2, <1>3, <2>1
    <3>3. QED
      BY <3>1, <3>2
  <2>5. \A one, other \in s.sent[c] : one.id = other.id => one = other
    <3>1. \A one, other \in r.sent[c] : one.id = other.id => one = other
      BY <1>11 DEF Served, InFlight
    <3>2. \A one \in r.sent[c] : one.id # rec.id
      BY <1>1, <1>2, <2>1
    <3>3. QED
      BY <2>4, <3>1, <3>2
  <2>6. \A one \in s.sent[c], i \in 1..m :
           /\ s.events[i].id < one.id
           /\ at < s.events[i].id \/ \E low \in s.sent[c] : low.id < s.events[i].id
           => s.events[i] \in s.sent[c]
    <3>1. TAKE one \in s.sent[c], i \in 1..m
    <3>2. HAVE /\ s.events[i].id < one.id
               /\ at < s.events[i].id \/ \E low \in s.sent[c] : low.id < s.events[i].id
    <3>3. one = rec \/ one \in r.sent[c]
      BY <1>3
    <3>4. s.events[i].id # r.nextEventId
      BY <1>1, <1>2, <2>1, <3>2, <3>3, <1>7, <1>8
    <3>5. PICK j \in 1..n : s.events[i] = r.events[j]
      BY <1>2, <1>8, <3>4
    <3>6. r.events[j].id < r.nextEventId /\ r.events[j].id \in Nat
      BY <1>1, <1>2, <1>7, <2>1, <3>2, <3>3, <3>5
    <3>7. at < r.events[j].id \/ \E low \in r.sent[c] : low.id < r.events[j].id
      BY <1>1, <1>2, <2>4, <3>2, <3>5, <3>6
    <3>8. CASE c \in r.clients
      <4>1. \A low \in r.sent[c] : at < low.id
        BY <1>11, <3>8 DEF Served, InFlight
      <4>2. at < r.events[j].id
        BY <2>1, <3>6, <3>7, <4>1
      <4>3. r.events[j] \in r.sent[c]
        BY <1>11, <3>8, <4>2 DEF Served, InFlight, n
      <4>4. QED
        BY <1>3, <3>5, <3>8, <4>3
    <3>9. CASE c \notin r.clients
      <4>1. one \in r.sent[c] /\ s.sent[c] = r.sent[c]
        BY <1>3, <3>9
      <4>2. QED
        BY <1>11, <3>2, <3>5, <3>7, <4>1 DEF Served, InFlight, n
    <3>10. QED
      BY <3>8, <3>9
  <2>7. ASSUME c \in s.clients
        PROVE  /\ \A one \in s.sent[c] : at < one.id
               /\ \A i \in 1..m : at < s.events[i].id => s.events[i] \in s.sent[c]
    <3>1. /\ c \in r.clients /\ s.sent[c] = r.sent[c] \cup {rec}
          /\ \A one \in r.sent[c] : at < one.id
          /\ \A i \in 1..n : at < r.events[i].id => r.events[i] \in r.sent[c]
      BY <1>3, <1>11, <2>7 DEF Served, InFlight, n
    <3>2. QED
      BY <1>2, <1>8, <2>1, <3>1
  <2>8. QED
    BY <2>2, <2>3, <2>4, <2>5, <2>6, <2>7 DEF Served, InFlight, m
<1>12. QED
  BY <1>10, <1>11

\* finish(): the end event goes out, then everybody is let go.
LEMMA FinishServes ==
    ASSUME NEW r \in RunType, NEW status \in TerminalStatus
    PROVE  Serves(r, Finish(r, status))
<1> DEFINE set   == [r EXCEPT !.status = status]
           ended == Emit(set, "end")
<1>1. set \in RunType /\ Serves(r, set)
  <2>1. /\ set \in RunType
        /\ set.events = r.events /\ set.nextEventId = r.nextEventId
        /\ set.sent = r.sent /\ set.clients = r.clients
    BY DEF RunType
  <2> HIDE DEF set
  <2>2. QED
    BY <2>1, SameServes
<1>2. ended \in RunType /\ Serves(set, ended)
  <2> HIDE DEF set
  <2> QED BY <1>1, EmitServes, EmitType DEF EventKinds
<1>3. Finish(r, status) = IF Terminal(r) THEN r ELSE Release(ended)
  BY DEF Finish
<1> HIDE DEF set, ended
<1>4. Serves(ended, Release(ended))
  <2>1. /\ Release(ended).events = ended.events /\ Release(ended).sent = ended.sent
        /\ Release(ended).nextEventId = ended.nextEventId /\ Release(ended).clients = {}
    BY <1>2 DEF Release, RunType
  <2>2. QED
    BY <2>1, SameServes
<1>5. Serves(r, r)
  BY SameServes
<1>6. QED
  BY <1>1, <1>2, <1>3, <1>4, <1>5, ServesInTurn

LEMMA FailServes ==
    ASSUME NEW r \in RunType
    PROVE  Serves(r, Fail(r))
<1>1. Emit(r, "error") \in RunType /\ Serves(r, Emit(r, "error"))
  BY EmitServes, EmitType DEF EventKinds
<1>2. Serves(Emit(r, "error"), Fail(r))
  BY <1>1, FinishServes DEF Fail, TerminalStatus
<1>3. QED
  BY <1>1, <1>2, ServesInTurn

LEMMA AskedServes ==
    ASSUME NEW r \in RunType
    PROVE  LET asked == [r EXCEPT !.cancelRequested = TRUE]
           IN  Serves(r, asked) /\ Serves(r, Finish(asked, "canceled"))
<1> DEFINE asked == [r EXCEPT !.cancelRequested = TRUE]
<1>1. /\ asked \in RunType /\ asked.events = r.events /\ asked.nextEventId = r.nextEventId
      /\ asked.sent = r.sent /\ asked.clients = r.clients
  BY DEF RunType
<1> HIDE DEF asked
<1>2. Serves(r, asked) /\ Serves(asked, Finish(asked, "canceled"))
  BY <1>1, SameServes, FinishServes DEF TerminalStatus
<1>3. Serves(r, Finish(asked, "canceled"))
  BY <1>2, ServesInTurn
<1>4. QED
  BY <1>2, <1>3 DEF asked

\* The service as a whole: every client is served.
AllServed == Numbered(run) /\ \A c \in Clients : Served(run, c, cursor[c], seen[c])

LEMMA ServingKeeps ==
    ASSUME IInv, AllServed, Serves(run, run'), UNCHANGED <<cursor, seen>>
    PROVE  AllServed'
BY DEF AllServed, Serves, IInv, TypeOK

\* What an attached client is sent: the events that are newer than the id it
\* remembers, from the buffer.
LEMMA ReplayHolds ==
    ASSUME NEW r, NEW after \in Nat, Numbered(r), r.events \in Seq(Record),
           r.nextEventId \in Nat
    PROVE  LET replay == Replay(r, after)
           IN  /\ \A rec \in replay : rec.id \in Nat /\ after < rec.id /\ rec.id < r.nextEventId
               /\ \A one, other \in replay : one.id = other.id => one = other
               /\ \A i \in 1..Len(r.events) :
                      r.events[i].id \in Nat /\ (after < r.events[i].id => r.events[i] \in replay)
<1>1. Len(r.events) \in Nat /\ \A i \in 1..Len(r.events) : r.events[i].id \in Nat
  <2>1. Len(r.events) \in Nat /\ \A i \in 1..Len(r.events) : r.events[i] \in Record
    OBVIOUS
  <2>2. QED
    BY <2>1 DEF Record
<1>2. \A i, j \in 1..Len(r.events) : r.events[i].id = r.events[j].id => i = j
  BY <1>1 DEF Numbered
<1>3. \A i \in 1..Len(r.events) : r.events[i].id < r.nextEventId
  BY <1>1 DEF Numbered
<1>4. DOMAIN r.events = 1..Len(r.events)
  OBVIOUS
<1>5. \A rec \in Replay(r, after) :
         \E i \in 1..Len(r.events) : rec = r.events[i] /\ after < r.events[i].id
  BY <1>1, <1>4 DEF Replay
<1>6. \A i \in 1..Len(r.events) : after < r.events[i].id => r.events[i] \in Replay(r, after)
  BY <1>1, <1>4 DEF Replay
<1>7. QED
  BY <1>1, <1>2, <1>3, <1>5, <1>6

LEMMA ConnectServes ==
    ASSUME IInv, AllServed, NEW c \in Clients, NEW after \in 0..cursor[c], Connect(c, after)
    PROVE  AllServed'
<1> DEFINE replay == Replay(run, after)
           n      == Len(run.events)
           resend == IF replay = {} /\ run.events # <<>> THEN {run.events[n]} ELSE {}
<1>1. /\ run.events \in Seq(Record) /\ run.nextEventId \in Nat \ {0}
      /\ run.sent \in [Clients -> SUBSET Record] /\ cursor \in [Clients -> Nat]
      /\ seen \in [Clients -> SUBSET Nat] /\ after \in Nat /\ after <= cursor[c]
      /\ n \in Nat
  BY DEF IInv, TypeOK, RunType
<1>2. Numbered(run) /\ \A other \in Clients : Served(run, other, cursor[other], seen[other])
  BY DEF AllServed
<1>3. /\ \A rec \in replay : rec.id \in Nat /\ after < rec.id /\ rec.id < run.nextEventId
      /\ \A one, other \in replay : one.id = other.id => one = other
      /\ \A i \in 1..n :
             run.events[i].id \in Nat /\ (after < run.events[i].id => run.events[i] \in replay)
  BY <1>1, <1>2, ReplayHolds
<1>4. /\ run'.events = run.events /\ run'.nextEventId = run.nextEventId
      /\ run'.clients \subseteq run.clients \cup {c}
      /\ \A other \in Clients \ {c} : run'.sent[other] = run.sent[other]
      /\ \/ run'.sent[c] = replay
         \/ run'.sent[c] = replay \cup resend /\ c \notin run'.clients
  BY DEF Connect, Stream, IInv, TypeOK, RunType, Tidy
<1>5. cursor' = [cursor EXCEPT ![c] = after] /\ seen' = seen
  BY DEF Connect
<1>6. Numbered(run')
  BY <1>2, <1>4 DEF Numbered
<1>7. \A other \in Clients \ {c} : Served(run', other, cursor'[other], seen'[other])
  BY <1>1, <1>2, <1>4, <1>5 DEF Served, InFlight
<1>8. Served(run', c, after, seen[c])
  <2>1. after < run.nextEventId
    BY <1>1, <1>2 DEF Served
  <2>2. \A i \in 1..n : run.events[i].id <= after => run.events[i].id \in seen[c]
    BY <1>1, <1>2, <1>3 DEF Served
  <2>3. InFlight(run', c, after)
    <3>1. CASE run'.sent[c] = replay
      BY <1>3, <1>4, <3>1 DEF InFlight
    <3>2. CASE replay = {} /\ run'.sent[c] = resend /\ c \notin run'.clients
      <4>1. ASSUME NEW rec \in resend PROVE rec = run.events[n] /\ n \in 1..n
        BY <1>1, <4>1
      <4>2. \A i \in 1..n : ~(after < run.events[i].id)
        BY <1>3, <3>2
      <4>3. \A i \in 1..n : run.events[i].id < run.nextEventId
        BY <1>1, <1>2, <1>3 DEF Numbered
      <4>4. QED
        BY <1>1, <1>3, <1>4, <3>2, <4>1, <4>2, <4>3 DEF InFlight
    <3>3. replay # {} => resend = {}
      OBVIOUS
    <3>4. QED
      BY <1>4, <3>1, <3>2, <3>3
  <2>4. QED
    BY <1>4, <2>1, <2>2, <2>3 DEF Served
<1>9. QED
  BY <1>1, <1>5, <1>6, <1>7, <1>8 DEF AllServed

LEMMA ReceiveServes ==
    ASSUME IInv, AllServed, NEW c \in Clients, Receive(c)
    PROVE  AllServed'
<1>1. PICK rec \in run.sent[c] :
          /\ \A other \in run.sent[c] : rec.id <= other.id
          /\ run' = [run EXCEPT !.sent[c] = @ \ {rec}]
          /\ cursor' = [cursor EXCEPT ![c] = rec.id]
          /\ seen' = [seen EXCEPT ![c] = @ \cup {rec.id}]
  BY DEF Receive
<1>2. /\ run.events \in Seq(Record) /\ run.nextEventId \in Nat \ {0}
      /\ run.sent \in [Clients -> SUBSET Record] /\ cursor \in [Clients -> Nat]
      /\ seen \in [Clients -> SUBSET Nat]
  BY DEF IInv, TypeOK, RunType
<1>3. /\ rec.id \in Nat /\ \A one \in run.sent[c] : one.id \in Nat
      /\ \A i \in 1..Len(run.events) : run.events[i].id \in Nat
  <2>1. /\ rec \in Record /\ \A one \in run.sent[c] : one \in Record
        /\ \A i \in 1..Len(run.events) : run.events[i] \in Record
    BY <1>2
  <2>2. QED
    BY <2>1 DEF Record
<1>4. Numbered(run) /\ \A other \in Clients : Served(run, other, cursor[other], seen[other])
  BY DEF AllServed
<1>5. /\ run'.events = run.events /\ run'.nextEventId = run.nextEventId
      /\ run'.clients = run.clients
      /\ \A other \in Clients \ {c} : run'.sent[other] = run.sent[other]
      /\ run'.sent[c] = run.sent[c] \ {rec}
  BY <1>1 DEF IInv, TypeOK, RunType
<1>6. Numbered(run')
  BY <1>4, <1>5 DEF Numbered
<1>7. \A other \in Clients \ {c} : Served(run', other, cursor'[other], seen'[other])
  BY <1>1, <1>2, <1>4, <1>5 DEF Served, InFlight
<1>8. Served(run', c, rec.id, seen[c] \cup {rec.id})
  <2>1. /\ rec.id < run.nextEventId
        /\ \A one \in run.sent[c] \ {rec} : rec.id < one.id
    BY <1>1, <1>3, <1>4 DEF Served, InFlight
  <2>2. \A i \in 1..Len(run.events) :
           cursor[c] < run.events[i].id => ~(run.events[i].id < rec.id)
    <3>1. SUFFICES ASSUME NEW i \in 1..Len(run.events), cursor[c] < run.events[i].id,
                          run.events[i].id < rec.id
                   PROVE  FALSE
      OBVIOUS
    <3>2. InFlight(run, c, cursor[c])
      BY <1>4 DEF Served
    <3>3. run.events[i] \in run.sent[c]
      BY <3>1, <3>2 DEF InFlight
    <3>4. QED
      BY <1>1, <1>3, <3>1, <3>3
  <2>3. \A i \in 1..Len(run.events) :
           run.events[i].id <= rec.id => run.events[i].id \in seen[c] \cup {rec.id}
    BY <1>2, <1>3, <1>4, <2>2 DEF Served
  <2>4. InFlight(run', c, rec.id)
    <3>1. \A one \in run'.sent[c] : one.id < run'.nextEventId
      BY <1>4, <1>5 DEF Served, InFlight
    <3>2. \A one, other \in run'.sent[c] : one.id = other.id => one = other
      BY <1>4, <1>5 DEF Served, InFlight
    <3>3. \A one \in run'.sent[c], i \in 1..Len(run'.events) :
             /\ run'.events[i].id < one.id
             /\ \/ rec.id < run'.events[i].id
                \/ \E low \in run'.sent[c] : low.id < run'.events[i].id
             => run'.events[i] \in run'.sent[c]
      <4>1. TAKE one \in run'.sent[c], i \in 1..Len(run'.events)
      <4>2. HAVE /\ run'.events[i].id < one.id
                 /\ \/ rec.id < run'.events[i].id
                    \/ \E low \in run'.sent[c] : low.id < run'.events[i].id
      <4>3. rec.id < run.events[i].id
        BY <1>3, <1>5, <2>1, <4>2
      <4>4. one \in run.sent[c] /\ run.events[i].id < one.id /\ rec \in run.sent[c]
        BY <1>5, <4>2
      <4>5. run.events[i] \in run.sent[c] /\ run.events[i] # rec
        BY <1>3, <1>4, <1>5, <4>3, <4>4 DEF Served, InFlight
      <4>6. QED
        BY <1>5, <4>5
    <3>4. c \in run'.clients =>
             /\ \A one \in run'.sent[c] : rec.id < one.id
             /\ \A i \in 1..Len(run'.events) :
                    rec.id < run'.events[i].id => run'.events[i] \in run'.sent[c]
      BY <1>2, <1>3, <1>4, <1>5, <2>1 DEF Served, InFlight
    <3>5. QED
      BY <3>1, <3>2, <3>3, <3>4 DEF InFlight
  <2>5. QED
    BY <1>5, <2>1, <2>3, <2>4 DEF Served
<1>9. QED
  BY <1>1, <1>2, <1>6, <1>7, <1>8 DEF AllServed

LEMMA DisconnectServes ==
    ASSUME IInv, AllServed, NEW c \in Clients, Disconnect(c)
    PROVE  AllServed'
<1>1. /\ run'.events = run.events /\ run'.nextEventId = run.nextEventId
      /\ run'.clients = run.clients \ {c} /\ run'.sent[c] = {}
      /\ \A other \in Clients \ {c} : run'.sent[other] = run.sent[other]
      /\ UNCHANGED <<cursor, seen>>
  BY DEF Disconnect, IInv, TypeOK, RunType
<1>2. Numbered(run')
  BY <1>1 DEF AllServed, Numbered
<1>3. Served(run', c, cursor[c], seen[c])
  BY <1>1 DEF AllServed, Served, InFlight
<1>4. \A other \in Clients \ {c} : Served(run', other, cursor[other], seen[other])
  BY <1>1 DEF AllServed, Served, InFlight
<1>5. QED
  BY <1>1, <1>2, <1>3, <1>4 DEF AllServed

\* Launching, waiting, cancelling and shutting down attach nobody.
LEMMA OthersServe ==
    ASSUME IInv
    PROVE  /\ \A agent \in Agents : Launch(agent) => Serves(run, run')
           /\ \A w \in Waiters : CallWait(w) => Serves(run, run')
           /\ Cancel => Serves(run, run')
           /\ ShutdownActive => Serves(run, run')
<1>1. run \in RunType
  BY DEF IInv, TypeOK
<1>2. ASSUME NEW agent \in Agents, Launch(agent) PROVE Serves(run, run')
  <2> DEFINE set == [run EXCEPT !.status = "running"]
  <2>1. /\ set \in RunType /\ set.events = run.events /\ set.sent = run.sent
        /\ set.nextEventId = run.nextEventId /\ set.clients = run.clients
    BY <1>1 DEF RunType, ActiveStatus
  <2>2. run' = Emit(set, "start")
    BY <1>2 DEF Launch
  <2> HIDE DEF set
  <2>3. Serves(run, set) /\ Serves(set, run')
    BY <2>1, <2>2, SameServes, EmitServes DEF EventKinds
  <2>4. QED
    BY <2>3, ServesInTurn
<1>3. ASSUME NEW w \in Waiters, CallWait(w) PROVE Serves(run, run')
  <2>1. /\ run'.events = run.events /\ run'.sent = run.sent
        /\ run'.nextEventId = run.nextEventId /\ run'.clients = run.clients
    BY <1>1, <1>3 DEF CallWait, Wait, RunType
  <2>2. QED
    BY <2>1, SameServes
<1>4. ASSUME Cancel PROVE Serves(run, run')
  BY <1>1, <1>4, AskedServes DEF Cancel, Cancelled
<1>5. ASSUME ShutdownActive PROVE Serves(run, run')
  BY <1>1, <1>5, AskedServes DEF ShutdownActive, ShutDown
<1>6. QED
  BY <1>2, <1>3, <1>4, <1>5

LEMMA StepServes ==
    ASSUME IInv, AllServed, [Next]_vars
    PROVE  AllServed'
<1> USE DEF procVars, clientVars
<1>1. run \in RunType
  BY DEF IInv, TypeOK
<1>2. /\ \A event \in EventKinds : Serves(run, Emit(run, event))
      /\ \A status \in TerminalStatus : Serves(run, Finish(run, status))
      /\ Serves(run, Fail(run)) /\ Serves(run, run)
  BY <1>1, EmitServes, FinishServes, FailServes, SameServes
<1>3. CASE UNCHANGED vars
  BY <1>2, <1>3, ServingKeeps DEF vars
<1>4. ASSUME NEW agent \in Agents, Launch(agent) PROVE AllServed'
  BY <1>4, OthersServe, ServingKeeps DEF Launch
<1>5. ASSUME NEW event \in {"data", "error"}, CallEmit(event) PROVE AllServed'
  BY <1>2, <1>5, ServingKeeps DEF CallEmit, EventKinds
<1>6. ASSUME NEW status \in TerminalStatus, CallFinish(status) PROVE AllServed'
  BY <1>2, <1>6, ServingKeeps DEF CallFinish
<1>7. CASE CallFail
  BY <1>2, <1>7, ServingKeeps DEF CallFail
<1>8. ASSUME NEW w \in Waiters, CallWait(w) PROVE AllServed'
  BY <1>8, OthersServe, ServingKeeps DEF CallWait
<1>9. CASE Cancel
  BY <1>9, OthersServe, ServingKeeps DEF Cancel
<1>10. CASE ShutdownActive
  BY <1>10, OthersServe, ServingKeeps DEF ShutdownActive
<1>11. CASE \/ CancelGraceElapses \/ Cleanup \/ ShutdownSkips \/ ShutdownGraceEnds
            \/ ShutdownReturns \/ ChildDies \/ ChildExits
  <2>1. UNCHANGED <<run, cursor, seen>>
    BY <1>11 DEF CancelGraceElapses, Cleanup, ShutdownSkips, ShutdownGraceEnds,
                 ShutdownReturns, ChildDies, ChildExits
  <2>2. QED
    BY <1>2, <2>1, ServingKeeps
<1>12. ASSUME NEW c \in Clients, ClientNext(c) PROVE AllServed'
  BY <1>12, ConnectServes, ReceiveServes, DisconnectServes DEF ClientNext, Drop, HangUp
<1>13. QED
  BY <1>3, <1>4, <1>5, <1>6, <1>7, <1>8, <1>9, <1>10, <1>11, <1>12 DEF Next, ServiceNext

LEMMA InitServes ==
    ASSUME Init
    PROVE  AllServed
<1>1. /\ run.events = <<>> /\ run.nextEventId = 1 /\ run.clients = {}
      /\ \A c \in Clients : run.sent[c] = {} /\ cursor[c] = 0
  BY DEF Init, NewRun
<1>2. Len(run.events) = 0
  BY <1>1
<1>3. Numbered(run)
  BY <1>1, <1>2 DEF Numbered
<1>4. ASSUME NEW c \in Clients PROVE Served(run, c, cursor[c], seen[c])
  BY <1>1, <1>2 DEF Served, InFlight
<1>5. QED
  BY <1>3, <1>4 DEF AllServed

-----------------------------------------------------------------------------
(* The theorems                                                            *)

\* The inductive invariant holds in every reachable state.
THEOREM Invariance == Spec => []IInv
<1>1. IInv /\ [Next]_vars => IInv'
  BY StepKeeps
<1>2. QED
  BY <1>1, InitKeeps, PTL DEF Spec

\* The state of the service is always well typed.
THEOREM TypeCorrect == Spec => []TypeOK
<1>1. IInv => TypeOK
  BY DEF IInv
<1>2. QED
  BY <1>1, Invariance, PTL

\* Whatever happens to a run and to the clients and waiters that come and go,
\* none of them is left on a list nobody will serve, or off it.
THEOREM NobodyIsStranded == Spec => []NobodyStranded
<1>1. IInv => NobodyStranded
  BY DEF IInv, Tidy, NobodyStranded
<1>2. QED
  BY <1>1, Invariance, PTL

\* The second inductive invariant: buffer and streams.
THEOREM Delivery == Spec => []AllServed
<1>1. Init => AllServed
  BY InitServes
<1>2. IInv /\ AllServed /\ [Next]_vars => AllServed'
  BY StepServes
<1>3. QED
  BY <1>1, <1>2, Invariance, PTL DEF Spec

\* At the moment of attaching, and ever after, replay and live events neither
\* overlap nor leave a gap.
THEOREM NoGap == Spec => []AttachedIsCurrent
<1>1. ASSUME IInv, AllServed PROVE AttachedIsCurrent
  <2>1. SUFFICES ASSUME NEW c \in run.clients
                 PROVE  /\ \A rec \in run.sent[c] : rec.id > cursor[c]
                        /\ \/ run.nextEventId - 1 = cursor[c]
                           \/ \E rec \in run.sent[c] : rec.id = run.nextEventId - 1
    BY DEF AttachedIsCurrent
  <2>2. /\ c \in Clients /\ cursor[c] \in Nat /\ run.nextEventId \in Nat \ {0}
        /\ run.sent[c] \subseteq Record /\ run.events \in Seq(Record)
    BY <1>1 DEF IInv, TypeOK, RunType
  <2>3. /\ Numbered(run) /\ cursor[c] < run.nextEventId
        /\ \A rec \in run.sent[c] : cursor[c] < rec.id
        /\ \A i \in 1..Len(run.events) :
               cursor[c] < run.events[i].id => run.events[i] \in run.sent[c]
    BY <1>1, <2>2 DEF AllServed, Served, InFlight
  <2>4. \A rec \in run.sent[c] : rec.id > cursor[c]
    BY <2>2, <2>3 DEF Record
  <2>5. CASE cursor[c] = run.nextEventId - 1
    BY <2>4, <2>5
  <2>6. CASE cursor[c] # run.nextEventId - 1
    <3> DEFINE n == Len(run.events)
    <3>1. n \in Nat /\ n > 0
      BY <2>2, <2>3, <2>6 DEF Numbered
    <3>2. n \in 1..n /\ run.events[n].id \in Nat
      <4>1. n \in 1..n /\ run.events[n] \in Record
        BY <2>2, <3>1
      <4>2. QED
        BY <4>1 DEF Record
    <3>3. run.events[n].id + n + 1 = run.nextEventId + n
      BY <2>3, <3>2 DEF Numbered
    <3> HIDE DEF n
    <3>4. run.events[n].id = run.nextEventId - 1
      BY <2>2, <3>1, <3>2, <3>3
    <3>5. cursor[c] < run.events[n].id
      BY <2>2, <2>3, <2>6, <3>4
    <3>6. QED
      BY <2>3, <2>4, <3>2, <3>4, <3>5 DEF n
  <2>7. QED
    BY <2>5, <2>6
<1>2. QED
  BY <1>1, Invariance, Delivery, PTL

\* However a client drops and reattaches, with whatever id it remembers, an
\* event it never got was evicted from the buffer.
THEOREM NothingBufferedIsLost == Spec => []OnlyEvictedIsLost
<1>1. ASSUME IInv, AllServed PROVE OnlyEvictedIsLost
  <2>1. run.events \in Seq(Record)
    BY <1>1 DEF IInv, TypeOK, RunType
  <2>2. DOMAIN run.events = 1..Len(run.events)
    BY <2>1
  <2>3. \A c \in Clients, i \in 1..Len(run.events) :
           run.events[i].id <= cursor[c] => run.events[i].id \in seen[c]
    BY <1>1 DEF AllServed, Served
  <2>4. QED
    BY <2>2, <2>3 DEF OnlyEvictedIsLost
<1>2. QED
  BY <1>1, Invariance, Delivery, PTL

\* A run is a future: the service, with its events, clients, processes and
\* timers, implements RunLifecycle.
THEOREM Implementation == Spec => ImplementsLifecycle
<1>1. Init => Lifecycle!Init
  BY DEF Init, NewRun, Lifecycle!Init
<1>2. IInv /\ [Next]_vars => [Lifecycle!Next]_(Lifecycle!vars)
  BY StepKeeps DEF Outward, Lifecycle!vars
<1>3. QED
  BY <1>1, <1>2, Invariance, PTL DEF Spec, ImplementsLifecycle, Lifecycle!Spec

\* No late handler, watchdog, cancel or shutdown changes an outcome, or what
\* a waiter was told of it.
THEOREM OutcomeStands == Spec => OutcomeIsFinal
<1> DEFINE Stands == /\ Terminal(run) => run'.status = run.status
                     /\ \A w \in Waiters : run.told[w] \in TerminalStatus =>
                            run'.told[w] = run.told[w] /\ run.told[w] = run.status
<1>1. IInv /\ [Next]_vars => [Stands]_vars
  <2> SUFFICES ASSUME IInv, [Next]_vars PROVE Stands
    OBVIOUS
  <2>1. \A w \in Waiters : run.told[w] \in TerminalStatus => run.told[w] = run.status
    BY DEF IInv, Tidy
  <2>2. CASE UNCHANGED <<run.status, run.told>>
    BY <2>1, <2>2
  <2>3. CASE Lifecycle!Begin
    BY <2>1, <2>3 DEF Lifecycle!Begin, Terminal, TerminalStatus
  <2>4. ASSUME NEW outcome \in Lifecycle!TerminalStatus, Lifecycle!Settle(outcome)
        PROVE  Stands
    BY <2>1, <2>4 DEF Lifecycle!Settle, Lifecycle!ActiveStatus, Terminal, TerminalStatus
  <2>5. ASSUME NEW o \in Waiters, Lifecycle!Ask(o)
        PROVE  Stands
    BY <2>1, <2>5 DEF Lifecycle!Ask, Terminal, TerminalStatus, IInv, TypeOK, RunType
  <2>6. QED
    BY <2>2, <2>3, <2>4, <2>5, StepKeeps DEF Outward, Lifecycle!Next
<1>2. QED
  BY <1>1, Invariance, PTL DEF Spec, OutcomeIsFinal

=============================================================================
