-------------------------- MODULE RunObjectProofs ---------------------------
(***************************************************************************)
(* What the operators of RunObject preserve, for any clients, waiters and  *)
(* buffer capacity: the lemmas the proofs about RunService and ChatRun     *)
(* share.                                                                  *)
(***************************************************************************)
EXTENDS RunObject, TLAPS

-----------------------------------------------------------------------------
(* What the operations on a run preserve                                   *)

\* The replay buffer stays a sequence of records.
LEMMA BufferType ==
    ASSUME NEW events \in Seq(Record), NEW rec \in Record
    PROVE  Buffer(events, rec) \in Seq(Record)
  BY MaxEventsAssumption DEF Buffer

\* emit() yields a run.
LEMMA EmitType ==
    ASSUME NEW r \in RunType, NEW event \in EventKinds
    PROVE  Emit(r, event) \in RunType
<1> DEFINE rec == [id |-> r.nextEventId, event |-> event]
<1>1. rec \in Record
  BY DEF RunType, Record
<1>2. Buffer(r.events, rec) \in Seq(Record)
  BY <1>1, BufferType DEF RunType
<1>3. [c \in Clients |-> IF c \in r.clients THEN r.sent[c] \cup {rec} ELSE r.sent[c]]
          \in [Clients -> SUBSET Record]
  BY <1>1 DEF RunType
<1>4. r.nextEventId + 1 \in Nat \ {0}
  BY DEF RunType
<1>5. Emit(r, event) =
          [r EXCEPT !.nextEventId = r.nextEventId + 1,
                    !.events = Buffer(r.events, rec),
                    !.sent = [c \in Clients |-> IF c \in r.clients THEN r.sent[c] \cup {rec}
                                                                   ELSE r.sent[c]]]
  BY DEF Emit
<1>6. QED
  <2> HIDE DEF rec
  <2> QED BY <1>2, <1>3, <1>4, <1>5 DEF RunType

\* emit() tells nobody anything and attaches nobody.
LEMMA EmitFrame ==
    ASSUME NEW r \in RunType, NEW event \in EventKinds
    PROVE  /\ Emit(r, event).status = r.status
           /\ Emit(r, event).cancelRequested = r.cancelRequested
           /\ Emit(r, event).clients = r.clients
           /\ Emit(r, event).waiters = r.waiters
           /\ Emit(r, event).closed = r.closed
           /\ Emit(r, event).told = r.told
           /\ Emit(r, event).nextEventId = r.nextEventId + 1
  BY DEF Emit, RunType

\* Releasing everyone yields a run.
LEMMA ReleaseType ==
    ASSUME NEW r \in RunType, Terminal(r)
    PROVE  Release(r) \in RunType
<1>1. [w \in Waiters |-> IF w \in r.waiters THEN r.status ELSE r.told[w]]
          \in [Waiters -> Outcomes]
  BY DEF RunType, Outcomes, Terminal
<1>2. QED
  BY <1>1 DEF Release, RunType

-----------------------------------------------------------------------------
(* A run that is tidy, and what advances it                                *)

\* Who is asking is exactly who is on the list, who has been told was told
\* the status, and a run that has ended has nobody left on its lists.
Tidy(r) ==
    /\ \A w \in Waiters : r.told[w] = "asking" <=> w \in r.waiters
    /\ \A w \in Waiters : r.told[w] \in TerminalStatus => r.told[w] = r.status
    /\ Terminal(r) => r.clients = {} /\ r.waiters = {}

\* emit() disturbs nothing a tidy run rests on.
LEMMA EmitTidy ==
    ASSUME NEW r \in RunType, NEW event \in EventKinds, Tidy(r)
    PROVE  Tidy(Emit(r, event))
  BY EmitFrame DEF Tidy, Terminal

\* finish() of an active run: everybody is told, nobody is left.
LEMMA FinishActive ==
    ASSUME NEW r \in RunType, NEW status \in TerminalStatus, Tidy(r), ~Terminal(r)
    PROVE  LET f == Finish(r, status)
           IN  /\ f \in RunType
               /\ Tidy(f)
               /\ f.status = status
               /\ f.told = [w \in Waiters |-> IF r.told[w] = "asking" THEN status
                                                                     ELSE r.told[w]]
               /\ f.clients \cup f.closed = r.clients \cup r.closed
<1> DEFINE set   == [r EXCEPT !.status = status]
           ended == Emit(set, "end")
<1>1. /\ set \in RunType
      /\ set.status = status /\ set.clients = r.clients /\ set.waiters = r.waiters
      /\ set.closed = r.closed /\ set.told = r.told
  BY DEF RunType
<1>2. "end" \in EventKinds
  BY DEF EventKinds
<1>3. /\ ended \in RunType
      /\ ended.status = status /\ ended.clients = r.clients /\ ended.waiters = r.waiters
      /\ ended.closed = r.closed /\ ended.told = r.told
  <2> HIDE DEF set
  <2> QED BY <1>1, <1>2, EmitType, EmitFrame
<1>4. Finish(r, status) = Release(ended)
  BY DEF Finish
<1> HIDE DEF set, ended
<1>5. Terminal(ended)
  BY <1>3 DEF Terminal
<1>6. Release(ended) \in RunType
  BY <1>3, <1>5, ReleaseType
<1>7. /\ Release(ended).status = status
      /\ Release(ended).clients = {}
      /\ Release(ended).waiters = {}
      /\ Release(ended).closed = r.closed \cup r.clients
      /\ Release(ended).told = [w \in Waiters |-> IF w \in r.waiters THEN status ELSE r.told[w]]
  BY <1>3 DEF Release, RunType
<1>8. [w \in Waiters |-> IF w \in r.waiters THEN status ELSE r.told[w]]
          = [w \in Waiters |-> IF r.told[w] = "asking" THEN status ELSE r.told[w]]
  BY DEF Tidy
<1>9. \A w \in Waiters : r.told[w] \notin TerminalStatus
  BY DEF Tidy, Terminal
<1>10. Tidy(Release(ended))
  BY <1>7, <1>8, <1>9 DEF Tidy, TerminalStatus
<1>11. QED
  BY <1>4, <1>6, <1>7, <1>8, <1>10

\* What every operation that drives a run does to it: it may settle the run,
\* once and for everybody, and attaches or drops nobody.
Advances(r, s) ==
    /\ s \in RunType
    /\ Tidy(s)
    /\ s.clients \cup s.closed = r.clients \cup r.closed
    /\ \/ s.status = r.status /\ s.told = r.told
       \/ /\ ~Terminal(r)
          /\ s.status \in TerminalStatus
          /\ s.told = [w \in Waiters |-> IF r.told[w] = "asking" THEN s.status
                                                                 ELSE r.told[w]]

\* emit() advances a run.
LEMMA EmitAdvances ==
    ASSUME NEW r \in RunType, NEW event \in EventKinds, Tidy(r)
    PROVE  Advances(r, Emit(r, event))
  BY EmitType, EmitFrame, EmitTidy DEF Advances

\* finish() advances a run, whether or not it was active.
LEMMA FinishAdvances ==
    ASSUME NEW r \in RunType, NEW status \in TerminalStatus, Tidy(r)
    PROVE  Advances(r, Finish(r, status))
<1>1. CASE Terminal(r)
  BY <1>1 DEF Finish, Advances
<1>2. CASE ~Terminal(r)
  <2> DEFINE f == Finish(r, status)
  <2>1. /\ f \in RunType
        /\ Tidy(f)
        /\ f.status = status
        /\ f.told = [w \in Waiters |-> IF r.told[w] = "asking" THEN status ELSE r.told[w]]
        /\ f.clients \cup f.closed = r.clients \cup r.closed
    BY <1>2, FinishActive
  <2> HIDE DEF f
  <2>2. Advances(r, f)
    BY <1>2, <2>1 DEF Advances
  <2>3. QED
    BY <2>2 DEF f
<1>3. QED
  BY <1>1, <1>2

\* fail() advances a run: its error and then its end.
LEMMA FailAdvances ==
    ASSUME NEW r \in RunType, Tidy(r)
    PROVE  Advances(r, Fail(r))
<1> DEFINE e == Emit(r, "error")
<1>1. "error" \in EventKinds /\ "failed" \in TerminalStatus
  BY DEF EventKinds, TerminalStatus
<1>2. e \in RunType /\ Tidy(e) /\ e.status = r.status /\ e.told = r.told
      /\ e.clients = r.clients /\ e.closed = r.closed
  BY <1>1, EmitType, EmitTidy, EmitFrame
<1> HIDE DEF e
<1>3. Advances(e, Finish(e, "failed"))
  BY <1>1, <1>2, FinishAdvances
<1>4. Fail(r) = Finish(e, "failed")
  BY DEF Fail, e
<1>5. QED
  BY <1>2, <1>3, <1>4 DEF Advances, Terminal

\* finish() gives an active run its status and leaves one that has ended, and
\* looks at no request to cancel.
LEMMA FinishEnds ==
    ASSUME NEW r \in RunType, NEW status \in TerminalStatus
    PROVE  /\ Finish(r, status).status = IF Terminal(r) THEN r.status ELSE status
           /\ Finish(r, status).cancelRequested = r.cancelRequested
<1> DEFINE ended == Emit([r EXCEPT !.status = status], "end")
<1>1. /\ [r EXCEPT !.status = status] \in RunType
      /\ [r EXCEPT !.status = status].status = status
      /\ [r EXCEPT !.status = status].cancelRequested = r.cancelRequested
  BY DEF RunType
<1>2. /\ ended \in RunType /\ ended.status = status
      /\ ended.cancelRequested = r.cancelRequested
  BY <1>1, EmitType, EmitFrame DEF EventKinds
<1>3. Finish(r, status) = IF Terminal(r) THEN r ELSE Release(ended)
  BY DEF Finish
<1> HIDE DEF ended
<1>4. Release(ended).status = status /\ Release(ended).cancelRequested = r.cancelRequested
  BY <1>2 DEF Release, RunType
<1>5. QED
  BY <1>3, <1>4

\* fail() reports an error first, which changes neither.
LEMMA FailEnds ==
    ASSUME NEW r \in RunType
    PROVE  /\ Fail(r).status = IF Terminal(r) THEN r.status ELSE "failed"
           /\ Fail(r).cancelRequested = r.cancelRequested
<1>1. /\ Emit(r, "error") \in RunType
      /\ Emit(r, "error").status = r.status
      /\ Emit(r, "error").cancelRequested = r.cancelRequested
  BY EmitType, EmitFrame DEF EventKinds
<1>2. QED
  BY <1>1, FinishEnds DEF Fail, Terminal, TerminalStatus

\* Setting cancelRequested is nobody's business but the handlers'.
LEMMA AskedAdvances ==
    ASSUME NEW r \in RunType, Tidy(r)
    PROVE  LET asked == [r EXCEPT !.cancelRequested = TRUE]
           IN  /\ Advances(r, asked)
               /\ Advances(r, Finish(asked, "canceled"))
<1> DEFINE asked == [r EXCEPT !.cancelRequested = TRUE]
<1>1. /\ asked \in RunType
      /\ asked.status = r.status /\ asked.told = r.told /\ asked.waiters = r.waiters
      /\ asked.clients = r.clients /\ asked.closed = r.closed
  BY DEF RunType
<1> HIDE DEF asked
<1>2. Tidy(asked)
  BY <1>1 DEF Tidy, Terminal
<1>3. Advances(asked, Finish(asked, "canceled"))
  BY <1>1, <1>2, FinishAdvances DEF TerminalStatus
<1>4. Advances(r, asked)
  BY <1>1, <1>2 DEF Advances
<1>5. Advances(r, Finish(asked, "canceled"))
  BY <1>1, <1>3 DEF Advances, Terminal
<1>6. QED
  BY <1>4, <1>5 DEF asked

\* wait(): a run that has ended answers at once.
LEMMA WaitTidy ==
    ASSUME NEW r \in RunType, NEW w \in Waiters, Tidy(r), r.told[w] = "idle"
    PROVE  LET s == Wait(r, w)
           IN  /\ s \in RunType
               /\ Tidy(s)
               /\ s.status = r.status /\ s.clients = r.clients /\ s.closed = r.closed
               /\ s.told = [r.told EXCEPT ![w] = IF Terminal(r) THEN r.status ELSE "asking"]
<1> DEFINE s    == Wait(r, w)
           told == [r.told EXCEPT ![w] = IF Terminal(r) THEN r.status ELSE "asking"]
<1>1. told \in [Waiters -> Outcomes]
  BY DEF RunType, Outcomes, Terminal
<1>2. s = IF Terminal(r) THEN [r EXCEPT !.told = told]
                         ELSE [r EXCEPT !.told = told, !.waiters = r.waiters \cup {w}]
  BY DEF Wait
<1>3. told[w] = IF Terminal(r) THEN r.status ELSE "asking"
  BY DEF RunType
<1>4. \A v \in Waiters \ {w} : told[v] = r.told[v]
  BY DEF RunType
<1> HIDE DEF told, s
<1>5. /\ s \in RunType
      /\ s.status = r.status /\ s.clients = r.clients /\ s.closed = r.closed
      /\ s.told = told
      /\ s.waiters = IF Terminal(r) THEN r.waiters ELSE r.waiters \cup {w}
  BY <1>1, <1>2 DEF RunType
<1>6. Tidy(s)
  BY <1>3, <1>4, <1>5 DEF Tidy, Terminal, TerminalStatus
<1>7. QED
  BY <1>5, <1>6 DEF s, told

\* stream(): the client joins the list of an active run, and the ended
\* responses of one that is not.
LEMMA StreamTidy ==
    ASSUME NEW r \in RunType, NEW c \in Clients, NEW after \in Nat, Tidy(r)
    PROVE  LET s == Stream(r, c, after)
           IN  /\ s \in RunType
               /\ Tidy(s)
               /\ s.status = r.status /\ s.told = r.told
               /\ s.clients \cup s.closed = (r.clients \cup r.closed) \cup {c}
<1> DEFINE s      == Stream(r, c, after)
           replay == Replay(r, after)
           resend == IF replay = {} /\ r.events # <<>> THEN {r.events[Len(r.events)]} ELSE {}
           sent   == [r.sent EXCEPT ![c] = IF Terminal(r) THEN replay \cup resend ELSE replay]
<1>1. replay \in SUBSET Record
  BY DEF Replay, RunType
<1>2. resend \in SUBSET Record
  <2>1. ASSUME r.events # <<>> PROVE r.events[Len(r.events)] \in Record
    BY <2>1 DEF RunType
  <2>2. QED
    BY <2>1
<1>3. sent \in [Clients -> SUBSET Record]
  <2> HIDE DEF replay, resend
  <2> QED BY <1>1, <1>2 DEF RunType
<1>4. s = IF Terminal(r) THEN [r EXCEPT !.sent = sent, !.closed = r.closed \cup {c}]
                         ELSE [r EXCEPT !.sent = sent, !.clients = r.clients \cup {c}]
  BY DEF Stream
<1> HIDE DEF s, replay, resend, sent
<1>5. /\ s \in RunType
      /\ s.status = r.status /\ s.told = r.told /\ s.waiters = r.waiters
      /\ s.clients = IF Terminal(r) THEN r.clients ELSE r.clients \cup {c}
      /\ s.closed = IF Terminal(r) THEN r.closed \cup {c} ELSE r.closed
  BY <1>3, <1>4 DEF RunType
<1>6. Tidy(s)
  BY <1>5 DEF Tidy, Terminal
<1>7. QED
  BY <1>5, <1>6 DEF s

=============================================================================
