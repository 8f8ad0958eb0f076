------------------------- MODULE CritiqueRunProofs --------------------------
(***************************************************************************)
(* Theorems about CritiqueRun, for any rounds, scores, threshold, fallback  *)
(* policies and bound.                                                      *)
(***************************************************************************)
EXTENDS CritiqueRun, WellFoundedInduction, TLAPS

USE DEF RowType, ChildType, ChatType

-----------------------------------------------------------------------------
(* The inductive invariant                                                  *)

\* The events told name each event once, are of one status, and end with the
\* ship exactly if that is the verdict of a ship decision.
Consistent(events, status) ==
    /\ events # <<>>
    /\ \A i, j \in DOMAIN events : events[i].event = events[j].event => i = j
    /\ \A i \in DOMAIN events : events[i].status = status
    /\ status \in Verdict!Good <=> events[Len(events)].event = "ship"

\* Where the orchestrator is tells what the registry and the row hold: while
\* it works it has its handle, and nobody else writes a verdict.
Placed ==
    /\ pc \in {"spawned", "refused"} <=> row.status = "none"
    /\ pc = "spawned" => daemon = "up"
    /\ pc \in Working => daemon = "up" /\ handle # "none" /\ row.status \in {"running", "deleted"}
    /\ pc \in {"dead", "threw"} => row.status \in {"running", "deleted", "interrupted"}
    /\ pc = "done" => row.status \in {final.status, "deleted"}

\* The artifact is on disk before its path is in the row, and its path in the
\* row before anybody is told.
Fetchable ==
    /\ pc \in {"spawned", "refused", "reading", "stopping", "shipping", "pinning"} =>
           told = <<>> /\ ~path /\ ~row.artifact
    /\ pc = "pinning" => file
    /\ path \/ row.artifact => file
    /\ path => row.artifact \/ row.status = "deleted"

\* The decision, what is told of it and what it rests on.
Decided ==
    /\ pc \in {"spawned", "reading", "stopping"} => final = NoFinal
    /\ pc \in {"shipping", "pinning"} => final.status \in Verdict!Good
    /\ pc \in {"writing", "done", "threw"} => Consistent(told, final.status)
    /\ \A i, j \in DOMAIN told : told[i].event = told[j].event => i = j
    /\ final.status = "shipped" =>
           \E i \in DOMAIN done : /\ done[i].n = ship /\ done[i].composite = final.score
                                  /\ final.score >= Threshold /\ ~done[i].mustFix
    /\ row.status = "shipped" =>
           pc = "done" /\ final.status = "shipped" /\ row.score = final.score

IInv == TypeOK /\ Placed /\ Fetchable /\ Decided

-----------------------------------------------------------------------------
(* What the choices of the decision return                                  *)

\* A nonempty set of numbers has a least one.
LEMMA LeastExists ==
    ASSUME NEW S, S \subseteq Nat, S # {}
    PROVE  \E m \in S : \A k \in S : m <= k
<1> DEFINE R == {ss \in Nat \X Nat : ss[1] < ss[2]}
<1>1. IsWellFoundedOn(R, Nat)
  BY NatLessThanWellFounded DEF OpToRel
<1>2. PICK m \in S : \A k \in S : <<k, m>> \notin R
  <2> HIDE DEF R
  <2> QED BY <1>1, WFMin
<1>3. ASSUME NEW k \in S PROVE m <= k
  <2>1. ~(k < m)
    BY <1>2
  <2>2. QED
    BY <2>1
<1>4. QED
  BY <1>3

\* The round the agent's ship names is one the daemon closed.
LEMMA FirstIsClosed ==
    ASSUME done \in Seq(RoundType), NEW n, Closed(n) # {}
    PROVE  \E i \in DOMAIN done : First(n) = done[i] /\ done[i].n = n
<1> DEFINE first == CHOOSE i \in Closed(n) : \A j \in Closed(n) : i <= j
<1>1. Closed(n) \subseteq Nat
  BY DEF Closed
<1>2. \E i \in Closed(n) : \A j \in Closed(n) : i <= j
  BY <1>1, LeastExists
<1>3. first \in Closed(n)
  BY <1>2
<1>4. First(n) = done[first]
  BY DEF First
<1> HIDE DEF first
<1>5. QED
  BY <1>3, <1>4 DEF Closed

\* ship_best: among the rounds closed one is as good as any.
LEMMA BestExists ==
    ASSUME done \in Seq(RoundType), done # <<>>
    PROVE  \E i \in DOMAIN done : \A j \in DOMAIN done : Better(i, j)
<1> DEFINE HasBest(m) == \E i \in 1..m : \A j \in 1..m : Better(i, j)
           Worse      == {m \in DOMAIN done : ~HasBest(m)}
<1>1. /\ \A i \in DOMAIN done : done[i].composite \in Nat /\ done[i].n \in Nat
      /\ DOMAIN done = 1..Len(done) /\ Len(done) \in Nat \ {0}
  <2>1. \A i \in DOMAIN done : done[i] \in RoundType
    OBVIOUS
  <2>2. \A r \in RoundType : r.composite \in Nat /\ r.n \in Nat
    BY CritiqueAssumption DEF RoundType
  <2>3. DOMAIN done = 1..Len(done) /\ Len(done) \in Nat \ {0}
    OBVIOUS
  <2>4. QED
    BY <2>1, <2>2, <2>3
<1>2. \A i \in DOMAIN done : Better(i, i)
  BY <1>1 DEF Better
<1>3. \A i, j, k \in DOMAIN done : Better(i, j) /\ Better(j, k) => Better(i, k)
  BY <1>1 DEF Better
<1>4. \A i, j \in DOMAIN done : Better(i, j) \/ Better(j, i)
  BY <1>1 DEF Better
<1> HIDE DEF HasBest
<1>5. Worse = {}
  <2> SUFFICES ASSUME Worse # {} PROVE FALSE
    OBVIOUS
  <2>1. PICK m \in Worse : \A k \in Worse : m <= k
    <3>1. Worse \subseteq Nat
      BY <1>1
    <3> HIDE DEF Worse
    <3>2. QED
      BY <3>1, LeastExists
  <2>2. m \in 1..Len(done) /\ ~HasBest(m)
    BY <1>1, <2>1
  <2>3. m # 1
    BY <1>1, <1>2, <2>2 DEF HasBest
  <2>4. m - 1 \in 1..Len(done) /\ HasBest(m - 1)
    BY <1>1, <2>1, <2>2, <2>3
  <2>5. PICK i \in 1..(m - 1) : \A j \in 1..(m - 1) : Better(i, j)
    BY <2>4 DEF HasBest
  <2>6. /\ i \in DOMAIN done /\ i \in 1..m /\ m \in 1..m /\ m \in DOMAIN done
        /\ \A j \in 1..m : j \in DOMAIN done /\ (j \in 1..(m - 1) \/ j = m)
    BY <1>1, <2>2, <2>5
  <2>7. CASE Better(i, m)
    BY <2>2, <2>5, <2>6, <2>7 DEF HasBest
  <2>8. CASE Better(m, i)
    <3>1. \A j \in 1..m : Better(m, j)
      BY <1>2, <1>3, <2>5, <2>6, <2>8
    <3>2. QED
      BY <2>2, <2>6, <3>1 DEF HasBest
  <2>9. QED
    BY <1>4, <2>6, <2>7, <2>8
<1>6. HasBest(Len(done))
  BY <1>1, <1>5
<1>7. QED
  BY <1>1, <1>6 DEF HasBest

\* The fallback is a round the daemon closed, or none.
LEMMA ElectedType ==
    ASSUME done \in Seq(RoundType), NEW p
    PROVE  Elected(p) \in RoundType \cup {NoRound}
<1> DEFINE best == CHOOSE i \in DOMAIN done : \A j \in DOMAIN done : Better(i, j)
<1>1. CASE done = <<>> \/ p = "fail"
  BY <1>1 DEF Elected
<1>2. CASE done # <<>>
  <2>1. best \in DOMAIN done
    BY <1>2, BestExists
  <2>2. done[best] \in RoundType /\ done[Len(done)] \in RoundType
    <3> HIDE DEF best
    <3> QED BY <1>2, <2>1
  <2>3. QED
    BY <1>2, <2>2 DEF Elected
<1>3. QED
  BY <1>1, <1>2

-----------------------------------------------------------------------------
(* One step                                                                 *)

\* The row and the chat run as their readers see them.
Outward == Verdict!Next \/ UNCHANGED <<row.status, chat.status>>

\* A step of the loop: whatever it hears, no decision has been made.
LEMMA LoopKeeps ==
    ASSUME IInv, pc = "reading", pc' \in {"reading", "stopping"},
           cause' \in Causes,
           parser' \in ParserType,
           states' \in StatesType,
           deadline' \in DeadlineType,
           done' \in Seq(RoundType), ship' \in Rounds \cup {0}, handle' \in {"armed", "aborted"},
           UNCHANGED <<policy, result, stored, child, chat, daemon>>
    PROVE  IInv' /\ Outward
<1> USE DEF result, stored
<1>1. TypeOK' /\ Outward
  BY DEF IInv, TypeOK, Working, Outward
<1>2. Placed'
  BY DEF IInv, Placed, Working
<1>3. Fetchable'
  BY DEF IInv, Fetchable
<1>4. Decided'
  BY DEF IInv, Placed, Decided, Working, NoFinal
<1>5. QED
  BY <1>1, <1>2, <1>3, <1>4 DEF IInv

\* What the loop forgets when it is left has the right types.
LEMMA ScopeEndsType ==
    ASSUME TypeOK, ScopeEnds
    PROVE  /\ parser' \in ParserType
           /\ states' \in StatesType
           /\ deadline' \in DeadlineType
           /\ done' \in Seq(RoundType) /\ ship' \in Rounds \cup {0}
  BY DEF TypeOK, ScopeEnds, NoParser, NoStates, NoDeadline,
     ParserType, StatesType, DeadlineType

\* The loop is left.
LEMMA StopKeeps ==
    ASSUME IInv, pc = "reading", NEW why \in {"block", "total", "round", "exit", "signal", "abort"},
           Stop(why), handle' \in {"armed", "aborted"},
           UNCHANGED <<policy, result, stored, child, chat, daemon>>
    PROVE  IInv' /\ Outward
  BY LoopKeeps, ScopeEndsType DEF Stop, IInv, Causes

\* A tag that is heard, or breaks the loop off.
LEMMA SpeakingKeeps ==
    ASSUME IInv, Speaking
    PROVE  IInv' /\ Outward
<1> DEFINE Frame == UNCHANGED <<policy, result, handle, stored, child, chat, daemon>>
<1>1. pc = "reading" /\ Frame
  BY DEF Speaking, OpenRun, CloseRun, Garbage, OpenRound, RoundEnd, Panelist, Ship, Tag, Hears
<1>2. /\ handle' \in {"armed", "aborted"}
      /\ UNCHANGED <<policy, result, stored, child, chat, daemon>>
  BY <1>1 DEF IInv, TypeOK, Placed, Working
<1>3. /\ parser \in ParserType /\ states \in StatesType /\ deadline \in DeadlineType
      /\ done \in Seq(RoundType) /\ ship \in Rounds \cup {0}
      /\ cause \in Causes
  BY <1>1 DEF IInv, TypeOK
<1> HIDE DEF Frame
<1>4. CASE Stop("block")
  BY <1>1, <1>2, <1>4, StopKeeps
<1>5. CASE ~Stop("block") /\ UNCHANGED <<pc, cause>>
  <2> USE <1>3, <1>5 DEF Tag
  <2>1. CASE OpenRun \/ CloseRun
    <3>1. parser' \in ParserType /\ UNCHANGED <<states, done, deadline, ship>>
      BY <2>1 DEF OpenRun, CloseRun, ParserType
    <3>2. QED
      BY <1>1, <1>2, <3>1, LoopKeeps
  <2>2. ASSUME NEW n \in Rounds, OpenRound(n) PROVE IInv' /\ Outward
    <3>1. parser' \in ParserType /\ UNCHANGED <<states, done, deadline, ship>>
      BY <2>2 DEF OpenRound, ParserType
    <3>2. QED
      BY <1>1, <1>2, <3>1, LoopKeeps
  <2>3. ASSUME NEW c \in Scores, NEW mustFix \in BOOLEAN, NEW artifact \in BOOLEAN,
               Panelist(c, mustFix, artifact)
        PROVE  IInv' /\ Outward
    <3> DEFINE n     == parser.round
               score == [n |-> n, composite |-> c, mustFix |-> states[n].mustFix \/ mustFix]
    <3>1. /\ n # 0
          /\ parser' = [parser EXCEPT !.artifact = @ \/ (artifact /\ n = 1)]
          /\ states' = [states EXCEPT ![n] = score]
          /\ deadline' = IF deadline.n = n THEN deadline ELSE [armed |-> TRUE, n |-> n]
          /\ UNCHANGED <<done, ship>>
      BY <2>3 DEF Panelist
    <3>2. n \in Rounds
      BY <3>1 DEF ParserType
    <3>3. score \in RoundType
      BY <3>2 DEF StatesType, RoundType, NoRound
    <3>4. states' \in StatesType
      <4> HIDE DEF score, n
      <4> QED BY <3>1, <3>3 DEF StatesType
    <3>5. parser' \in ParserType
      BY <3>1 DEF ParserType
    <3>6. deadline' \in DeadlineType
      BY <3>1, <3>2 DEF DeadlineType
    <3>7. QED
      BY <1>1, <1>2, <3>1, <3>4, <3>5, <3>6, LoopKeeps
  <2>4. ASSUME NEW n \in Rounds, RoundEnd(n) PROVE IInv' /\ Outward
    <3>1. /\ parser' = [parser EXCEPT !.round = 0, !.closed = TRUE]
          /\ done' = IF states[n] = NoRound THEN done ELSE Append(done, states[n])
          /\ deadline' = [deadline EXCEPT !.armed = FALSE]
          /\ UNCHANGED <<states, ship>>
      BY <2>4 DEF RoundEnd
    <3>2. parser' \in ParserType
      BY <3>1 DEF ParserType
    <3>3. done' \in Seq(RoundType)
      BY <3>1 DEF StatesType
    <3>4. deadline' \in DeadlineType
      BY <3>1 DEF DeadlineType
    <3>5. QED
      BY <1>1, <1>2, <3>1, <3>2, <3>3, <3>4, LoopKeeps
  <2>5. ASSUME NEW n \in Rounds, NEW artifact \in BOOLEAN, Ship(n, artifact)
        PROVE  IInv' /\ Outward
    <3>1. ship' \in Rounds \cup {0} /\ UNCHANGED <<parser, states, done, deadline>>
      BY <2>5 DEF Ship
    <3>2. QED
      BY <1>1, <1>2, <3>1, LoopKeeps
  <2>6. QED
    BY <2>1, <2>2, <2>3, <2>4, <2>5 DEF Speaking, Garbage
<1>6. QED
  BY <1>4, <1>5 DEF Speaking, OpenRun, CloseRun, Garbage, OpenRound, RoundEnd, Panelist, Ship, Tag

\* A timer or the end of the child breaks the loop off.
LEMMA LeavingKeeps ==
    ASSUME IInv, TotalTimeout \/ RoundTimeout \/ ChildFailed \/ ChildSignaled
    PROVE  IInv' /\ Outward
<1>1. handle \in {"armed", "aborted"} \/ pc # "reading"
  BY DEF IInv, TypeOK, Placed, Working
<1>2. ASSUME NEW why \in {"total", "round", "exit", "signal"}, Leave(why) PROVE IInv' /\ Outward
  BY <1>1, <1>2, StopKeeps DEF Leave
<1>3. QED
  BY <1>2 DEF TotalTimeout, RoundTimeout, ChildFailed, ChildSignaled

\* The decision is made and told: everything is ready to be written down.
LEMMA VerdictKeeps ==
    ASSUME IInv, pc \in {"reading", "stopping"}, pc' = "writing",
           policy' \in Policies, cause' \in Causes,
           parser' \in ParserType, states' \in StatesType, deadline' \in DeadlineType,
           UNCHANGED <<done, ship, path, handle, stored, chat, daemon>>,
           child' = KillChild,
           final' \in [status : Verdicts \ {"shipped"}, score : ScoreType],
           told' \in Seq(EventType),
           Consistent(told', final'.status)
    PROVE  IInv' /\ Outward
<1> USE DEF stored
<1>1. child' \in ChildType
  BY DEF IInv, TypeOK, KillChild, Signalled
<1>2. TypeOK'
  BY <1>1 DEF IInv, TypeOK, Working
<1>3. Outward
  BY DEF Outward
<1>4. Placed'
  BY DEF IInv, Placed, Working
<1>5. Fetchable'
  BY DEF IInv, Fetchable
<1>6. Decided'
  BY DEF IInv, Placed, Decided, Working, Consistent
<1>7. QED
  BY <1>2, <1>3, <1>4, <1>5, <1>6 DEF IInv

\* The two ways a decision is told: a ship of a round, or the end without one
\* (which a ship of the best round so far may precede).
LEMMA ToldType ==
    ASSUME NEW status \in Verdicts, NEW best \in RoundType \cup {NoRound},
           NEW last \in Verdicts
    PROVE  LET closing == <<Event(last, status, 0)>>
           IN  /\ ShipOf(best, status) \in Seq(EventType)
               /\ closing \in Seq(EventType)
               /\ best # NoRound => ShipOf(best, status) = <<Event("ship", status, best.n)>>
               /\ best = NoRound => ShipOf(best, status) = <<>>
               /\ status \in Verdict!Good /\ best # NoRound => Consistent(ShipOf(best, status), status)
               /\ status \in Verdict!Bad => Consistent(ShipOf(best, status) \o closing, status)
<1> DEFINE closing == <<Event(last, status, 0)>>
           ship1   == <<Event("ship", status, best.n)>>
<1>1. closing \in Seq(EventType)
  BY DEF Event, EventType
<1>2. best # NoRound => ship1 \in Seq(EventType)
  BY DEF Event, RoundType, EventType
<1>3. ShipOf(best, status) = IF best = NoRound THEN <<>> ELSE ship1
  BY DEF ShipOf
<1>4. ASSUME best # NoRound, status \in Verdict!Good
      PROVE  Consistent(ship1, status)
  BY <1>4 DEF Consistent, Event
<1>5. ASSUME status \in Verdict!Bad
      PROVE  Consistent(closing, status)
  BY <1>5 DEF Consistent, Event, Verdict!Bad, Verdict!Good, Verdicts
<1>6. ASSUME best # NoRound, status \in Verdict!Bad
      PROVE  Consistent(ship1 \o closing, status)
  BY <1>6 DEF Consistent, Event, Verdict!Bad, Verdict!Good, Verdicts
<1>7. <<>> \o closing = closing
  BY <1>1
<1> HIDE DEF closing, ship1
<1>8. CASE best = NoRound
  <2>1. ShipOf(best, status) = <<>> /\ <<>> \in Seq(EventType)
    BY <1>3, <1>8
  <2>2. QED
    BY <1>1, <1>5, <1>7, <1>8, <2>1 DEF closing
<1>9. CASE best # NoRound
  <2>1. ShipOf(best, status) = ship1
    BY <1>3, <1>9
  <2>2. QED
    BY <1>1, <1>2, <1>4, <1>6, <1>9, <2>1 DEF closing, ship1
<1>10. QED
  BY <1>8, <1>9

\* The catch block concludes with what it has told.
LEMMA ConcludedKeeps ==
    ASSUME IInv, pc \in {"reading", "stopping"},
           NEW why \in Causes,
           Concluded(why), cause' \in Causes,
           parser' \in ParserType, states' \in StatesType, deadline' \in DeadlineType,
           UNCHANGED <<done, ship, handle, stored, chat, daemon>>
    PROVE  IInv' /\ Outward
<1> DEFINE status == StatusOf(why)
           last   == IF status = "timed_out" THEN "failed" ELSE status
<1>1. PICK p \in Policies :
          LET best == IF status \in {"interrupted", "timed_out"} THEN Elected(p) ELSE NoRound
          IN  /\ policy' = p
              /\ child' = KillChild
              /\ final' = [status |-> status, score |-> best.composite]
              /\ told' = told \o ShipOf(best, status) \o <<Event(last, status, 0)>>
              /\ pc' = "writing"
              /\ UNCHANGED path
  BY DEF Concluded
<1> DEFINE best == IF status \in {"interrupted", "timed_out"} THEN Elected(p) ELSE NoRound
<1>2. status \in Verdict!Bad /\ status \in Verdicts \ {"shipped"} /\ last \in Verdicts
  BY DEF StatusOf, Verdict!Bad, Verdicts
<1>3. best \in RoundType \cup {NoRound}
  BY ElectedType DEF IInv, TypeOK
<1>4. best.composite \in ScoreType
  BY <1>3 DEF RoundType, NoRound, ScoreType
<1>5. told = <<>>
  BY DEF IInv, Fetchable
<1> HIDE DEF status, best, last
<1>6. /\ ShipOf(best, status) \in Seq(EventType)
      /\ <<Event(last, status, 0)>> \in Seq(EventType)
      /\ Consistent(ShipOf(best, status) \o <<Event(last, status, 0)>>, status)
  BY <1>2, <1>3, ToldType
<1>7. told' = ShipOf(best, status) \o <<Event(last, status, 0)>>
  BY <1>1, <1>5, <1>6 DEF best, last
<1>8. final' = [status |-> status, score |-> best.composite]
  BY <1>1 DEF best
<1>9. final' \in [status : Verdicts \ {"shipped"}, score : ScoreType]
  BY <1>2, <1>4, <1>8
<1>10. /\ told' \in Seq(EventType) /\ Consistent(told', final'.status)
  BY <1>6, <1>7, <1>8
<1>11. pc' = "writing" /\ policy' \in Policies /\ child' = KillChild /\ UNCHANGED path
  BY <1>1
<1>12. QED
  BY <1>9, <1>10, <1>11, VerdictKeeps

\* Without a ship of a closed round the fallback policy decides.
LEMMA FallsBackKeeps ==
    ASSUME IInv, pc = "reading", FallsBack, cause' \in Causes, ScopeEnds,
           UNCHANGED <<handle, stored, chat, daemon>>
    PROVE  IInv' /\ Outward
<1>1. PICK p \in Policies :
          LET best == Elected(p)
          IN  /\ policy' = p
              /\ child' = KillChild
              /\ final' = [status |-> IF best = NoRound THEN "failed" ELSE "below_threshold",
                           score  |-> best.composite]
              /\ told' = IF best = NoRound THEN <<Event("failed", "failed", 0)>>
                         ELSE ShipOf(best, "below_threshold")
              /\ pc' = "writing"
              /\ UNCHANGED path
  BY DEF FallsBack
<1> DEFINE best   == Elected(p)
           status == IF best = NoRound THEN "failed" ELSE "below_threshold"
<1>2. best \in RoundType \cup {NoRound}
  BY ElectedType DEF IInv, TypeOK
<1>3. best.composite \in ScoreType
  BY <1>2 DEF RoundType, NoRound, ScoreType
<1>4. final' = [status |-> status, score |-> best.composite]
  BY <1>1
<1>5. told' = IF best = NoRound THEN <<Event("failed", "failed", 0)>>
              ELSE ShipOf(best, "below_threshold")
  BY <1>1
<1> HIDE DEF best
<1>6. final' \in [status : Verdicts \ {"shipped"}, score : ScoreType] /\ final'.status = status
  BY <1>3, <1>4 DEF Verdicts
<1>7. told' \in Seq(EventType) /\ Consistent(told', final'.status)
  <2>1. CASE best = NoRound
    <3>1. told' = <<Event("failed", "failed", 0)>>
      BY <1>5, <2>1
    <3>2. QED
      BY <1>6, <2>1, <3>1 DEF Event, EventType, Consistent, Verdicts, Verdict!Good
  <2>2. CASE best # NoRound
    <3>1. told' = ShipOf(best, "below_threshold")
      BY <1>5, <2>2
    <3>2. "below_threshold" \in Verdict!Good /\ "below_threshold" \in Verdicts
      BY DEF Verdict!Good, Verdicts
    <3>3. QED
      BY <1>2, <1>6, <2>2, <3>1, <3>2, ToldType
  <2>3. QED
    BY <2>1, <2>2
<1>8. pc' = "writing" /\ policy' \in Policies /\ child' = KillChild /\ UNCHANGED path
  BY <1>1
<1>9. QED
  BY <1>6, <1>7, <1>8, ScopeEndsType, VerdictKeeps DEF IInv, ScopeEnds

\* The agent's ship of a closed round: shipped only if the bar is met.
LEMMA AcceptsKeeps ==
    ASSUME IInv, pc = "reading", Closed(ship) # {}, Accepts(First(ship)), cause' \in Causes,
           ScopeEnds, UNCHANGED <<handle, stored, chat, daemon>>
    PROVE  IInv' /\ Outward
<1> USE DEF stored
<1>1. PICK i \in DOMAIN done : First(ship) = done[i] /\ done[i].n = ship
  BY FirstIsClosed DEF IInv, TypeOK
<1>2. done[i] \in RoundType
  BY DEF IInv, TypeOK
<1>3. /\ final'.status = IF Ships(done[i]) THEN "shipped" ELSE "below_threshold"
      /\ final'.score = done[i].composite
      /\ final' \in [status : Verdicts, score : ScoreType]
      /\ pc' = "shipping" /\ UNCHANGED <<policy, path, told, child, done, ship>>
  BY <1>1, <1>2 DEF Accepts, RoundType, ScoreType, Verdicts, ScopeEnds
<1>4. TypeOK'
  BY <1>3, ScopeEndsType DEF IInv, TypeOK, Working
<1>5. Placed'
  BY <1>3 DEF IInv, Placed, Working
<1>6. Fetchable'
  BY <1>3 DEF IInv, Fetchable
<1>7. final'.status = "shipped" =>
          /\ done'[i].n = ship' /\ done'[i].composite = final'.score
          /\ final'.score >= Threshold /\ ~done'[i].mustFix
  BY <1>1, <1>3 DEF Ships
<1>8. Decided'
  BY <1>3, <1>7 DEF IInv, Placed, Decided, Working, Verdict!Good
<1>9. QED
  BY <1>4, <1>5, <1>6, <1>8 DEF IInv, Outward

\* The end of the output.
LEMMA SourceEndsKeeps ==
    ASSUME IInv, SourceEnds
    PROVE  IInv' /\ Outward
<1>1. /\ pc = "reading" /\ cause' \in Causes /\ ScopeEnds
      /\ UNCHANGED <<done, ship, handle, stored, chat, daemon>>
  BY DEF SourceEnds, Causes, ScopeEnds
<1>2. CASE Concluded("block")
  BY <1>1, <1>2, ScopeEndsType, ConcludedKeeps DEF IInv, Causes
<1>3. CASE Closed(ship) # {} /\ Accepts(First(ship))
  BY <1>1, <1>3, AcceptsKeeps
<1>4. CASE FallsBack
  BY <1>1, <1>4, FallsBackKeeps
<1>5. QED
  BY <1>2, <1>3, <1>4 DEF SourceEnds

\* The start, which may fail before the row is there.
LEMMA BeginKeeps ==
    ASSUME IInv, Begin \/ BeginThrows
    PROVE  IInv' /\ Outward
<1> USE DEF scope, reading, result, stored
<1>1. CASE Begin
  <2>1. /\ row.status = "none" /\ row'.status = "running"
        /\ row' \in RowType
        /\ row'.artifact = row.artifact
    BY <1>1 DEF IInv, TypeOK, Placed, Begin
  <2>2. TypeOK'
    BY <1>1, <2>1 DEF IInv, TypeOK, Begin, Working
  <2>3. Placed'
    BY <1>1, <2>1 DEF IInv, Placed, Begin, Working
  <2>4. Fetchable' /\ Decided'
    BY <1>1, <2>1 DEF IInv, Fetchable, Decided, Begin, NoFinal
  <2>5. Outward
    BY <1>1, <2>1 DEF Outward, Verdict!Next, Verdict!Open, Begin
  <2>6. QED
    BY <2>2, <2>3, <2>4, <2>5 DEF IInv
<1>2. CASE BeginThrows
  <2>1. /\ chat'.status = IF chat.status = "running" THEN "failed" ELSE chat.status
        /\ chat' \in ChatType
    BY <1>2 DEF IInv, TypeOK, BeginThrows, Finish
  <2>2. TypeOK'
    BY <1>2, <2>1 DEF IInv, TypeOK, BeginThrows
  <2>3. Placed' /\ Fetchable' /\ Decided'
    BY <1>2 DEF IInv, Placed, Fetchable, Decided, BeginThrows, Working
  <2>4. CASE chat.status = "running"
    <3>1. Verdict!End("failed")
      BY <1>2, <2>1, <2>4 DEF Verdict!End, BeginThrows
    <3>2. QED
      BY <2>2, <2>3, <3>1 DEF Outward, Verdict!Next, IInv
  <2>5. CASE chat.status # "running"
    BY <1>2, <2>1, <2>2, <2>3, <2>5 DEF Outward, IInv, BeginThrows
  <2>6. QED
    BY <2>4, <2>5
<1>3. QED
  BY <1>1, <1>2

\* The artifact is on disk.
LEMMA ArtifactWrittenKeeps ==
    ASSUME IInv, ArtifactWritten
    PROVE  IInv' /\ Outward
<1> USE DEF scope, reading, result, ArtifactWritten
<1>1. TypeOK'
  BY DEF IInv, TypeOK, Working
<1>2. Placed'
  BY DEF IInv, Placed, Working
<1>3. Fetchable'
  BY DEF IInv, Fetchable
<1>4. Decided'
  BY DEF IInv, Decided
<1>5. QED
  BY <1>1, <1>2, <1>3, <1>4 DEF IInv, Outward

\* The ship of a decision is told, with or without its artifact.
LEMMA TellsKeeps ==
    ASSUME IInv, ArtifactPinned \/ ArtifactFails
    PROVE  IInv' /\ Outward
<1> USE DEF scope, reading, result, stored
<1>1. /\ pc \in {"shipping", "pinning"} /\ pc' = "writing" /\ told = <<>> /\ Tells
      /\ UNCHANGED <<policy, cause, parser, states, deadline, done, ship, final, handle, file,
                     child, chat, daemon>>
  BY DEF ArtifactPinned, ArtifactFails, IInv, Fetchable
<1>2. /\ told' = <<Event("ship", final.status, ship)>>
      /\ final.status \in Verdicts /\ final.status \in Verdict!Good /\ ship \in Rounds \cup {0}
  BY <1>1 DEF Tells, IInv, TypeOK, Decided
<1>3. told' \in Seq(EventType)
  BY <1>2 DEF Event, EventType
<1>4. Consistent(told', final'.status)
  BY <1>1, <1>2 DEF Event, Consistent
<1>5. /\ row' \in RowType
      /\ row'.status = row.status
      /\ path' \in BOOLEAN
      /\ path' \/ row'.artifact => file
      /\ path' => row'.artifact \/ row'.status = "deleted"
  <2>1. /\ row.status \in {"running", "deleted"} /\ ~path /\ ~row.artifact
        /\ pc = "pinning" => file
    BY <1>1 DEF IInv, Placed, Fetchable, Working
  <2>2. CASE ArtifactPinned
    BY <2>1, <2>2 DEF ArtifactPinned, Update, IInv, TypeOK
  <2>3. CASE ArtifactFails
    BY <2>1, <2>3 DEF ArtifactFails, IInv, TypeOK
  <2>4. QED
    BY <2>2, <2>3
<1>6. TypeOK'
  BY <1>1, <1>3, <1>5 DEF IInv, TypeOK, Working
<1>7. Placed'
  BY <1>1, <1>5 DEF IInv, Placed, Working
<1>8. Fetchable'
  BY <1>1, <1>5 DEF Fetchable
<1>9. Decided'
  BY <1>1, <1>4, <1>5 DEF IInv, Placed, Decided, Consistent, Working
<1>10. QED
  BY <1>1, <1>5, <1>6, <1>7, <1>8, <1>9 DEF IInv, Outward

\* The row gets its verdict and the chat run its end.
LEMMA SettleKeeps ==
    ASSUME IInv, Settle
    PROVE  IInv' /\ Outward
<1> USE DEF scope, reading, result
<1>1. /\ pc = "writing" /\ pc' = "done" /\ handle' = "none"
      /\ row.status \in {"running", "deleted"}
      /\ final.status \in Verdicts /\ final.score \in ScoreType /\ path \in BOOLEAN
      /\ UNCHANGED <<policy, cause, parser, states, deadline, done, ship, final, path, told, file,
                     child, daemon>>
  BY DEF Settle, IInv, TypeOK, Placed, Working
<1>2. row' = IF row.status = "deleted" THEN row
             ELSE [status |-> final.status, score |-> final.score, artifact |-> path]
  BY <1>1 DEF Settle, Update
<1>3. /\ row' \in RowType
      /\ row.status = "deleted" => row'.status = "deleted"
      /\ row.status = "running" => row'.status = final.status /\ row'.score = final.score
      /\ row'.artifact = IF row.status = "deleted" THEN row.artifact ELSE path
  BY <1>1, <1>2 DEF IInv, TypeOK
<1>4. /\ chat'.status = IF chat.status = "running" THEN ChatStatus ELSE chat.status
      /\ chat' \in ChatType
  <2>1. ChatStatus \in {"canceled", "succeeded", "failed"}
    BY DEF ChatStatus
  <2>2. chat' = IF chat.status = "running" THEN [chat EXCEPT !.status = ChatStatus] ELSE chat
    BY DEF Settle, Finish
  <2>3. QED
    BY <2>1, <2>2 DEF IInv, TypeOK
<1>5. TypeOK'
  BY <1>1, <1>3, <1>4 DEF IInv, TypeOK
<1>6. Placed'
  BY <1>1, <1>3 DEF Placed, Working, Verdicts
<1>7. Fetchable'
  BY <1>1, <1>3 DEF IInv, Fetchable
<1>8. Decided'
  BY <1>1, <1>3 DEF IInv, Decided
<1>9. CASE row.status = "running"
  <2>1. Verdict!Give(final.status)
    BY <1>1, <1>3, <1>4, <1>9 DEF Verdict!Give, Verdict!Good, ChatStatus
  <2>2. final.status \in Verdict!Good \cup Verdict!Bad
    BY <1>1 DEF Verdict!Good, Verdict!Bad, Verdicts
  <2>3. QED
    BY <1>5, <1>6, <1>7, <1>8, <2>1, <2>2 DEF Outward, Verdict!Next, IInv
<1>10. CASE row.status = "deleted" /\ chat.status = "running"
  <2>1. Verdict!End(ChatStatus) /\ ChatStatus \in {"canceled", "failed", "succeeded"}
    BY <1>3, <1>4, <1>10 DEF Verdict!End, ChatStatus
  <2>2. QED
    BY <1>5, <1>6, <1>7, <1>8, <2>1 DEF Outward, Verdict!Next, IInv
<1>11. CASE row.status = "deleted" /\ chat.status # "running"
  BY <1>3, <1>4, <1>5, <1>6, <1>7, <1>8, <1>11 DEF Outward, IInv
<1>12. QED
  BY <1>1, <1>9, <1>10, <1>11

\* The chat run, the child and the handle may change while the row, the
\* verdict and what is told of it stand.
LEMMA ChatKeeps ==
    ASSUME IInv, UNCHANGED <<policy, cause, parser, states, deadline, done, ship, final, path, told,
                             row, file>>,
           \/ UNCHANGED <<pc, handle, daemon>>
           \/ pc = "writing" /\ pc' = "threw" /\ handle' = "none" /\ UNCHANGED daemon
           \/ pc \notin Working \cup {"spawned"} /\ handle' = "none" /\ daemon' = "down" /\ UNCHANGED pc,
           child' \in ChildType,
           chat' \in ChatType,
           \/ chat'.status = chat.status
           \/ chat.status = "running" /\ chat'.status \in {"canceled", "failed", "lost"}
    PROVE  IInv' /\ Outward
<1>1. TypeOK'
  BY DEF IInv, TypeOK, Working
<1>2. Placed'
  BY DEF IInv, Placed, Working
<1>3. Fetchable'
  BY DEF IInv, Fetchable, Placed
<1>4. Decided'
  BY DEF IInv, Placed, Decided, Working
<1>5. CASE chat'.status = chat.status
  BY <1>1, <1>2, <1>3, <1>4, <1>5 DEF IInv, Outward
<1>6. CASE chat.status = "running" /\ chat'.status \in {"canceled", "failed", "lost"}
  <2>1. Verdict!End(chat'.status)
    BY <1>6 DEF Verdict!End
  <2>2. QED
    BY <1>1, <1>2, <1>3, <1>4, <1>6, <2>1 DEF IInv, Outward, Verdict!Next
<1>7. QED
  BY <1>5, <1>6

\* The endpoint marks a row nobody else will.
LEMMA RecoverKeeps ==
    ASSUME IInv, Recover \/ (\E stale \in BOOLEAN : Boot(stale))
    PROVE  IInv' /\ Outward
<1> USE DEF scope, reading, result, stored
<1>1. /\ pc \notin Working
      /\ UNCHANGED <<policy, pc, cause, parser, states, deadline, done, ship, final, path, told,
                     handle, file, child, chat>>
      /\ pc = "spawned" => daemon' = "up"
      /\ daemon' \in {"up", "down"}
  BY DEF Recover, Boot, IInv, Placed, TypeOK
<1>2. /\ row' \in RowType
      /\ row'.artifact = row.artifact
      /\ row'.status = row.status \/ (row.status = "running" /\ row'.status = "interrupted")
      /\ row'.score = row.score
  BY DEF Recover, Boot, IInv, TypeOK, Verdicts
<1>3. TypeOK'
  BY <1>1, <1>2 DEF IInv, TypeOK
<1>4. Placed'
  BY <1>1, <1>2 DEF IInv, TypeOK, Placed, Verdicts
<1>5. Fetchable'
  BY <1>1, <1>2 DEF IInv, Fetchable
<1>6. Decided'
  BY <1>1, <1>2 DEF IInv, Decided
<1>7. CASE row'.status = row.status
  BY <1>1, <1>3, <1>4, <1>5, <1>6, <1>7 DEF Outward, IInv
<1>8. CASE row.status = "running" /\ row'.status = "interrupted"
  <2>1. Verdict!Give("interrupted") /\ "interrupted" \in Verdict!Bad
    BY <1>1, <1>8 DEF Verdict!Give, Verdict!Bad
  <2>2. QED
    BY <1>3, <1>4, <1>5, <1>6, <2>1 DEF Outward, Verdict!Next, IInv
<1>9. QED
  BY <1>2, <1>7, <1>8

\* The row goes with its project.
LEMMA DeleteKeeps ==
    ASSUME IInv, DeleteProject
    PROVE  IInv' /\ Outward
<1> USE DEF scope, reading, result
<1>1. /\ row'.status = "deleted" /\ ~row'.artifact
      /\ row' \in RowType
      /\ pc \notin {"spawned", "refused"}
      /\ UNCHANGED <<policy, pc, cause, parser, states, deadline, done, ship, final, path, told,
                     handle, file, child, chat, daemon>>
  BY DEF DeleteProject, ScoreType, IInv, Placed
<1>2. TypeOK'
  BY <1>1 DEF IInv, TypeOK
<1>3. Placed'
  BY <1>1 DEF IInv, Placed
<1>4. Fetchable' /\ Decided'
  BY <1>1 DEF IInv, Fetchable, Decided
<1>5. Verdict!Erase
  BY <1>1 DEF Verdict!Erase
<1>6. QED
  BY <1>2, <1>3, <1>4, <1>5 DEF IInv, Outward, Verdict!Next

\* A crash takes an orchestrator at work, and leaves the row running.
LEMMA CrashKeeps ==
    ASSUME IInv, Crash
    PROVE  IInv' /\ Outward
<1> USE DEF scope, reading, result, stored
<1>1. /\ chat' \in ChatType
      /\ chat'.status = IF chat.status = "running" THEN "lost" ELSE chat.status
  BY DEF IInv, TypeOK, Crash, Finish
<1>2. CASE pc \in Working
  <2>1. /\ pc' = "dead" /\ final' = NoFinal /\ policy' = "unread" /\ cause' = "none"
        /\ parser' = NoParser /\ states' = NoStates /\ deadline' = NoDeadline
        /\ done' = <<>> /\ ship' = 0 /\ handle' = "none" /\ daemon' = "down"
        /\ UNCHANGED <<path, told, row, file, child>>
    BY <1>2 DEF Crash
  <2>2. /\ parser' \in ParserType /\ states' \in StatesType /\ deadline' \in DeadlineType
        /\ final' \in [status : Verdicts, score : ScoreType] /\ final'.status = "failed"
    BY <2>1 DEF NoParser, ParserType, NoStates, StatesType, NoDeadline, DeadlineType, NoFinal,
       Verdicts, ScoreType
  <2>3. TypeOK'
    BY <1>1, <2>1, <2>2 DEF IInv, TypeOK, Causes
  <2>4. Placed'
    BY <1>2, <2>1 DEF IInv, Placed, Working
  <2>5. Fetchable'
    BY <2>1 DEF IInv, Fetchable
  <2>6. Decided'
    BY <1>2, <2>1, <2>2 DEF IInv, Placed, Decided, Working
  <2>7. CASE chat.status = "running"
    <3>1. Verdict!End("lost")
      BY <1>1, <2>1, <2>7 DEF Verdict!End
    <3>2. QED
      BY <2>3, <2>4, <2>5, <2>6, <3>1 DEF IInv, Outward, Verdict!Next
  <2>8. QED
    BY <1>1, <2>1, <2>3, <2>4, <2>5, <2>6, <2>7 DEF IInv, Outward
<1>3. CASE pc \notin Working
  <2>1. /\ UNCHANGED <<policy, cause, parser, states, deadline, done, ship, final, path, told, row,
                       file, pc, child>>
        /\ pc # "spawned" /\ handle' = "none" /\ daemon' = "down"
    BY <1>3 DEF Crash
  <2>2. child' \in ChildType
    BY <2>1 DEF IInv, TypeOK
  <2>3. QED
    BY <1>1, <1>3, <2>1, <2>2, ChatKeeps
<1>4. QED
  BY <1>2, <1>3

\* Any step whatever.
LEMMA StepKeeps ==
    ASSUME IInv, [Next]_vars
    PROVE  IInv' /\ Outward
<1> USE DEF scope, reading, result, stored
<1>1. /\ child \in ChildType
      /\ chat \in ChatType
      /\ Signalled(child) \in ChildType
  BY DEF IInv, TypeOK, Signalled
<1>2. CASE UNCHANGED vars
  BY <1>1, <1>2, ChatKeeps DEF vars
<1>3. CASE Begin \/ BeginThrows
  BY <1>3, BeginKeeps
<1>4. CASE Speaking
  BY <1>4, SpeakingKeeps
<1>5. CASE Leaving
  BY <1>5, LeavingKeeps, SourceEndsKeeps DEF Leaving
<1>6. CASE CleanedUp
  <2>1. /\ parser' \in ParserType /\ states' \in StatesType /\ deadline' \in DeadlineType
        /\ cause \in Causes
    BY <1>6 DEF CleanedUp, IInv, TypeOK
  <2>2. QED
    BY <1>6, <2>1, ConcludedKeeps DEF CleanedUp
<1>7. CASE ArtifactWritten
  BY <1>7, ArtifactWrittenKeeps
<1>8. CASE ArtifactPinned \/ ArtifactFails
  BY <1>8, TellsKeeps
<1>9. CASE Settle
  BY <1>9, SettleKeeps
<1>10. CASE SettleThrows
  <2>1. chat' = Finish(chat, "failed") /\ UNCHANGED child
    BY <1>10 DEF SettleThrows
  <2>2. /\ chat' \in ChatType
        /\ chat'.status = IF chat.status = "running" THEN "failed" ELSE chat.status
    BY <1>1, <2>1 DEF Finish
  <2>3. QED
    BY <1>1, <1>10, <2>1, <2>2, ChatKeeps DEF SettleThrows
<1>11. CASE Recover \/ (\E stale \in BOOLEAN : Boot(stale))
  BY <1>11, RecoverKeeps
<1>12. CASE Interrupt
  <2>1. CASE pc = "reading"
    BY <1>12, <2>1, StopKeeps DEF Interrupt
  <2>2. CASE pc # "reading"
    <3>1. /\ handle' = "aborted" /\ handle # "none" /\ row.status = "running"
          /\ UNCHANGED <<policy, pc, cause, parser, states, deadline, done, ship, final, path, told,
                         row, file, child, chat, daemon>>
      BY <1>12, <2>2 DEF Interrupt
    <3>2. TypeOK' /\ Placed'
      BY <3>1 DEF IInv, TypeOK, Placed, Working
    <3>3. Fetchable' /\ Decided' /\ Outward
      BY <3>1 DEF IInv, Fetchable, Decided, Outward
    <3>4. QED
      BY <3>2, <3>3 DEF IInv
  <2>3. QED
    BY <2>1, <2>2
<1>13. ASSUME NEW how \in {"zero", "nonzero", "signal"}, ChildExits(how) PROVE IInv' /\ Outward
  <2>1. child' \in ChildType
    BY <1>1, <1>13 DEF ChildExits
  <2>2. QED
    BY <1>1, <1>13, <2>1, ChatKeeps DEF ChildExits
<1>14. CASE Cancel
  <2>1. /\ chat' \in ChatType
        /\ chat.status = "running" /\ chat'.status \in {"running", "canceled"}
    BY <1>1, <1>14 DEF Cancel
  <2>2. QED
    BY <1>1, <1>14, <2>1, ChatKeeps DEF Cancel
<1>15. CASE WatchdogFires
  <2>1. /\ chat' \in ChatType
        /\ chat.status = "running" /\ chat'.status = "failed"
    BY <1>1, <1>15 DEF WatchdogFires, Finish
  <2>2. QED
    BY <1>1, <1>15, <2>1, ChatKeeps DEF WatchdogFires
<1>16. CASE DeleteProject
  BY <1>16, DeleteKeeps
<1>17. CASE Crash
  BY <1>17, CrashKeeps
<1>18. QED
  BY <1>2, <1>3, <1>4, <1>5, <1>6, <1>7, <1>8, <1>9, <1>10, <1>11, <1>12, <1>13, <1>14, <1>15,
     <1>16, <1>17 DEF Next, Writing

\* The state a critique starts in.
LEMMA InitKeeps == Init => IInv
<1> SUFFICES ASSUME Init PROVE IInv
  OBVIOUS
<1>1. TypeOK
  <2>1. /\ parser \in ParserType /\ states \in StatesType /\ deadline \in DeadlineType
        /\ done \in Seq(RoundType) /\ told \in Seq(EventType)
    BY DEF Init, NoParser, ParserType, NoStates, StatesType, NoDeadline, DeadlineType
  <2>2. /\ final \in [status : Verdicts, score : ScoreType]
        /\ row \in RowType
    BY DEF Init, NoFinal, Verdicts, ScoreType
  <2>3. QED
    BY <2>1, <2>2 DEF Init, TypeOK, Causes
<1>2. Placed /\ Fetchable /\ Decided
  BY DEF Init, Placed, Fetchable, Decided, NoFinal, Working
<1>3. QED
  BY <1>1, <1>2 DEF IInv

-----------------------------------------------------------------------------
(* The theorems                                                             *)

\* The inductive invariant holds in every reachable state.
THEOREM Invariance == Spec => []IInv
<1>1. IInv /\ [Next]_vars => IInv'
  BY StepKeeps
<1>2. QED
  BY <1>1, InitKeeps, PTL DEF Spec

\* The state is always well typed.
THEOREM TypeCorrect == Spec => []TypeOK
<1>1. IInv => TypeOK
  BY DEF IInv
<1>2. QED
  BY <1>1, Invariance, PTL

\* Whatever the agent claims, a shipped row stands for a round the daemon
\* closed over the bar and with nothing to fix.
THEOREM BarIsMet == Spec => []ShippedMeetsBar
<1>1. IInv => ShippedMeetsBar
  BY DEF IInv, Decided, ShippedMeetsBar
<1>2. QED
  BY <1>1, Invariance, PTL

\* A path in a row, and a ship told with its artifact, can be followed.
THEOREM ShipsAreFetchable == Spec => []ShipIsFetchable
<1>1. IInv => ShipIsFetchable
  BY DEF IInv, Fetchable, ShipIsFetchable
<1>2. QED
  BY <1>1, Invariance, PTL

\* What was told is what the row says.
THEOREM TellsTheVerdict == Spec => []ToldIsVerdict
<1>1. IInv => ToldIsVerdict
  BY DEF IInv, Placed, Decided, Consistent, ToldIsVerdict, Verdict!Good
<1>2. QED
  BY <1>1, Invariance, PTL

\* The orchestrator, the endpoint, the crashes and the reconciliation give a
\* verdict once, and the chat run claims no success without it: CritiqueRun
\* implements CritiqueVerdict.
THEOREM Implementation == Spec => ImplementsVerdict
<1>1. Init => Verdict!Init
  BY DEF Init, Verdict!Init
<1>2. IInv /\ [Next]_vars => [Verdict!Next]_<<row.status, chat.status>>
  BY StepKeeps DEF Outward
<1>3. QED
  BY <1>1, <1>2, Invariance, PTL DEF Spec, ImplementsVerdict, Verdict!Spec

=============================================================================
