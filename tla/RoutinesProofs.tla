--------------------------- MODULE RoutinesProofs ---------------------------
(***************************************************************************)
(* Theorems about Routines, for any routines, plans and slots.              *)
(***************************************************************************)
EXTENDS Routines, TLAPS

RowType   == [row : {"unborn", "listed", "deleted"}, enabled : BOOLEAN,
              plan : Plans \cup {None}]
StartType == [routine : Routines \cup {None},
              phase : {"free", "config", "plugin", "linking", "refused",
                       "watched", "unrecorded", "over", "lost"}]
AgentType  == Outcomes \cup {"none", "queued", "running", "lost"}
RecordType == Outcomes \cup {"none", "running", "erased"}

\* The map of starts and the starts point at each other.
Paired ==
    /\ \A s \in Slots : InProgress(s) =>
         start[s].routine \in Routines /\ inflight[start[s].routine] = s
    /\ \A r \in Routines : inflight[r] # None =>
         InProgress(inflight[r]) /\ start[inflight[r]].routine = r
    /\ \A r \in Routines : fires[r] => inflight[r] # None

\* What has been done for a start, in the order of the handler: its agent run
\* comes before its row, the row before somebody waits for the end.
SlotOK(s) ==
    /\ start[s].phase # "free" =>
         start[s].routine \in Routines /\ routine[start[s].routine].row # "unborn"
    /\ start[s].phase \in {"free", "config", "plugin"} =>
         agent[s] = "none" /\ record[s] = "none"
    /\ start[s].phase \in {"linking", "refused"} =>
         agent[s] \in {"none", "queued", "canceled"} /\ record[s] = "none"
    /\ start[s].phase = "unrecorded" =>
         record[s] = "none" /\ routine[start[s].routine].row = "deleted"
    /\ start[s].phase = "watched" => record[s] \in {"running", "erased"}
    /\ agent[s] = "running" => start[s].phase \in {"watched", "unrecorded"}
    /\ record[s] = "running" => start[s].phase \in {"watched", "lost"}
    /\ record[s] \in {"succeeded", "canceled"} => agent[s] = record[s]
    /\ record[s] \in Outcomes \cup {"running"} => routine[start[s].routine].row = "listed"
    /\ record[s] = "erased" => routine[start[s].routine].row = "deleted"

Followed == \A s \in Slots : SlotOK(s)

IInv == TypeOK /\ TimerIsCurrent /\ Paired /\ Followed

-----------------------------------------------------------------------------

LEMMA InitHolds == Init => IInv
<1> SUFFICES ASSUME Init PROVE IInv
  OBVIOUS
<1>1. NoStart \in StartType /\ NoStart.phase = "free"
  BY DEF NoStart, StartType
<1>2. start \in [Slots -> StartType] /\ \A s \in Slots : start[s].phase = "free"
  BY <1>1 DEF Init
<1>3. TypeOK
  BY <1>2 DEF Init, TypeOK, StartType
<1>4. TimerIsCurrent
  BY DEF Init, TimerIsCurrent, Held
<1>5. Paired /\ Followed
  BY <1>2 DEF Init, Paired, Followed, SlotOK, InProgress, Outcomes
<1> QED  BY <1>3, <1>4, <1>5 DEF IInv

\* Re-arming leaves the routine with one timer, for its row as it is now, and
\* the others with theirs.
LEMMA RescheduledIsCurrent ==
  ASSUME TypeOK, TimerIsCurrent, NEW r \in Routines, NEW row \in RowType,
         Rescheduled(r, row), daemon' = daemon,
         routine'[r] = row, \A q \in Routines : q # r => routine'[q] = routine[q]
  PROVE  /\ timers' \in [Routines -> Plans \cup {None}] /\ armed' \in [Routines -> Nat]
         /\ TimerIsCurrent'
         /\ timers'[r] = IF Started THEN Due(row) ELSE None
         /\ \A q \in Routines : q # r => timers'[q] = timers[q]
<1> DEFINE plan == IF Started THEN Due(row) ELSE None
<1>1. plan \in Plans \cup {None} /\ (plan # None => Started /\ plan = Due(row))
  BY DEF Due, RowType
<1>2. /\ timers' = [timers EXCEPT ![r] = plan]
      /\ armed' = [armed EXCEPT ![r] = @ - Held(r) + IF plan = None THEN 0 ELSE 1]
  BY DEF Rescheduled
<1>3. armed[r] = Held(r) /\ armed[r] \in Nat
  BY DEF TypeOK, TimerIsCurrent
<1>4. /\ timers' \in [Routines -> Plans \cup {None}] /\ timers'[r] = plan
      /\ \A q \in Routines : q # r => timers'[q] = timers[q] /\ armed'[q] = armed[q]
  BY <1>1, <1>2 DEF TypeOK
<1>5. armed'[r] = IF plan = None THEN 0 ELSE 1
  BY <1>2, <1>3 DEF TypeOK, Held
<1>6. armed' \in [Routines -> Nat]
  BY <1>2, <1>3, <1>5 DEF TypeOK, Held
<1>7. Started' = Started
  BY DEF Started
<1>8. TimerIsCurrent'
  BY <1>1, <1>4, <1>5, <1>7 DEF TimerIsCurrent, Held
<1> QED  BY <1>4, <1>6, <1>8

\* A route that writes a row which was there before or not.
LEMMA EditKeeps ==
  ASSUME IInv, NEW r \in Routines, NEW row \in RowType, row.row = "listed",
         routine[r].row \in {"unborn", "listed"},
         routine' = [routine EXCEPT ![r] = row], Rescheduled(r, row),
         UNCHANGED <<fires, starts, daemon>>
  PROVE  IInv'
<1>1. /\ routine' \in [Routines -> RowType] /\ routine'[r] = row
      /\ \A q \in Routines : q # r => routine'[q] = routine[q]
  BY DEF IInv, TypeOK, RowType
<1>2. /\ timers' \in [Routines -> Plans \cup {None}] /\ armed' \in [Routines -> Nat]
      /\ TimerIsCurrent'
  BY <1>1, RescheduledIsCurrent DEF IInv
<1>3. TypeOK' /\ Paired'
  BY <1>1, <1>2 DEF IInv, TypeOK, RowType, Paired, InProgress, starts
<1>4. Followed'
  <2> SUFFICES ASSUME NEW s \in Slots PROVE SlotOK(s)'
    BY DEF Followed
  <2>1. SlotOK(s)
    BY DEF IInv, Followed
  <2> QED  BY <1>1, <2>1 DEF SlotOK, starts, Outcomes
<1> QED  BY <1>2, <1>3, <1>4 DEF IInv

LEMMA RoutesKeep ==
  ASSUME IInv, NEW r \in Routines, NEW enabled \in BOOLEAN, NEW plan \in Plans,
         Create(r, enabled, plan) \/ Patch(r, enabled, plan)
  PROVE  IInv'
<1> DEFINE row == [row |-> "listed", enabled |-> enabled, plan |-> plan]
<1>1. row \in RowType /\ row.row = "listed"
  BY DEF RowType
<1>2. /\ routine[r].row \in {"unborn", "listed"}
      /\ routine' = [routine EXCEPT ![r] = row] /\ Rescheduled(r, row)
      /\ UNCHANGED <<fires, starts, daemon>>
  BY DEF Create, Patch
<1> QED  BY <1>1, <1>2, EditKeeps

LEMMA DeleteKeeps == ASSUME IInv, NEW r \in Routines, Delete(r) PROVE IInv'
<1> DEFINE row == [row |-> "deleted", enabled |-> FALSE, plan |-> None]
<1>1. /\ routine' \in [Routines -> RowType] /\ routine'[r] = row
      /\ \A q \in Routines : q # r => routine'[q] = routine[q]
      /\ row \in RowType /\ routine[r].row = "listed"
  BY DEF Delete, IInv, TypeOK, RowType
<1>2. record' = [s \in Slots |-> IF start[s].routine = r /\ record[s] # "none"
                                 THEN "erased" ELSE record[s]]
  BY DEF Delete
<1>3. UNCHANGED <<fires, inflight, start, agent, daemon>>
  BY DEF Delete
<1>4. /\ timers' \in [Routines -> Plans \cup {None}] /\ armed' \in [Routines -> Nat]
      /\ TimerIsCurrent'
  <2>1. Rescheduled(r, row)
    <3>1. armed[r] \in Nat /\ armed[r] = Held(r)
      BY DEF IInv, TypeOK, TimerIsCurrent
    <3>2. armed[r] - Held(r) + 0 = armed[r] - Held(r)
      BY <3>1 DEF Held
    <3>3. (IF Started THEN Due(row) ELSE None) = None
      BY DEF Due
    <3> QED  BY <3>2, <3>3 DEF Delete, Unscheduled, Rescheduled
  <2> QED  BY <1>1, <1>3, <2>1, RescheduledIsCurrent DEF IInv
<1>5. TypeOK' /\ Paired'
  BY <1>1, <1>2, <1>3, <1>4 DEF IInv, TypeOK, RowType, Paired, InProgress
<1>6. Followed'
  <2> SUFFICES ASSUME NEW s \in Slots PROVE SlotOK(s)'
    BY DEF Followed
  <2>1. SlotOK(s)
    BY DEF IInv, Followed
  <2> QED  BY <1>1, <1>2, <1>3, <2>1 DEF SlotOK, Outcomes
<1> QED  BY <1>4, <1>5, <1>6 DEF IInv

\* A new start takes a free slot and is the one its routine shares.
LEMMA BegunKeeps ==
  ASSUME IInv, NEW r \in Routines, Begun(r), ~Joins(r), routine[r].row = "listed",
         UNCHANGED <<routine, daemon>>, fires' \in [Routines -> BOOLEAN],
         \A q \in Routines : q # r => fires'[q] = fires[q]
  PROVE  /\ inflight' \in [Routines -> Slots \cup {None}] /\ start' \in [Slots -> StartType]
         /\ UNCHANGED <<agent, record>>
         /\ Paired' /\ Followed'
<1>1. PICK s \in Slots :
        /\ start[s].phase = "free"
        /\ start' = [start EXCEPT ![s] = [routine |-> r, phase |-> "config"]]
        /\ inflight' = [inflight EXCEPT ![r] = s]
        /\ UNCHANGED <<agent, record>>
  BY DEF Begun
<1>2. /\ inflight' \in [Routines -> Slots \cup {None}]
      /\ inflight'[r] = s /\ \A q \in Routines : q # r => inflight'[q] = inflight[q]
  BY <1>1 DEF IInv, TypeOK
<1>3. /\ start' \in [Slots -> StartType]
      /\ start'[s].routine = r /\ start'[s].phase = "config"
      /\ \A t \in Slots : t # s => start'[t] = start[t]
  BY <1>1 DEF IInv, TypeOK, StartType
<1>4. s # None /\ inflight[r] = None
  BY RoutinesAssumption DEF Joins
<1>5. Paired'
  <2>1. ASSUME NEW t \in Slots, InProgress(t)'
        PROVE  start'[t].routine \in Routines /\ inflight'[start'[t].routine] = t
    <3>1. CASE t = s
      BY <1>2, <1>3, <3>1
    <3>2. CASE t # s
      <4>1. InProgress(t) /\ start'[t] = start[t]
        BY <1>3, <2>1, <3>2 DEF InProgress
      <4>2. start[t].routine \in Routines /\ inflight[start[t].routine] = t
        BY <4>1 DEF IInv, Paired
      <4>3. start[t].routine # r
        BY <1>4, <4>2, RoutinesAssumption
      <4> QED  BY <1>2, <4>1, <4>2, <4>3
    <3> QED  BY <3>1, <3>2
  <2>2. ASSUME NEW q \in Routines, inflight'[q] # None
        PROVE  InProgress(inflight[q])' /\ start'[inflight'[q]].routine = q
    <3>1. CASE q = r
      BY <1>2, <1>3, <3>1 DEF InProgress
    <3>2. CASE q # r
      <4>1. /\ inflight'[q] = inflight[q] /\ inflight[q] \in Slots
            /\ InProgress(inflight[q]) /\ start[inflight[q]].routine = q
        BY <1>2, <2>2, <3>2 DEF IInv, TypeOK, Paired
      <4>2. inflight[q] # s
        BY <1>1, <4>1 DEF InProgress
      <4> QED  BY <1>3, <4>1, <4>2 DEF InProgress
    <3> QED  BY <3>1, <3>2
  <2>3. \A q \in Routines : fires'[q] => inflight'[q] # None
    BY <1>2, <1>4 DEF IInv, Paired
  <2> QED  BY <2>1, <2>2, <2>3 DEF Paired
<1>6. Followed'
  <2> SUFFICES ASSUME NEW t \in Slots PROVE SlotOK(t)'
    BY DEF Followed
  <2>1. SlotOK(t) /\ SlotOK(s)
    BY DEF IInv, Followed
  <2>2. CASE t = s
    BY <1>1, <1>3, <2>1, <2>2 DEF SlotOK, Outcomes
  <2>3. CASE t # s
    BY <1>1, <1>3, <2>1, <2>3 DEF SlotOK
  <2> QED  BY <2>2, <2>3
<1> QED  BY <1>1, <1>2, <1>3, <1>5, <1>6

LEMMA FireKeeps == ASSUME IInv, NEW r \in Routines, Fire(r) PROVE IInv'
<1>1. /\ timers' = [timers EXCEPT ![r] = None] /\ armed' = [armed EXCEPT ![r] = @ - 1]
      /\ armed[r] > 0 /\ UNCHANGED <<routine, daemon>>
  BY DEF Fire
<1>2. armed[r] = Held(r) /\ armed[r] \in Nat
  BY DEF IInv, TypeOK, TimerIsCurrent
<1>3. armed[r] = 1 /\ timers[r] # None
  BY <1>1, <1>2 DEF Held
<1>4. /\ timers' \in [Routines -> Plans \cup {None}] /\ armed' \in [Routines -> Nat]
      /\ timers'[r] = None /\ armed'[r] = 0
      /\ \A q \in Routines : q # r => timers'[q] = timers[q] /\ armed'[q] = armed[q]
  BY <1>1, <1>3 DEF IInv, TypeOK
<1>5. TimerIsCurrent'
  BY <1>1, <1>4 DEF IInv, TimerIsCurrent, Held, Started
<1>6. routine[r].row = "listed"
  BY <1>3 DEF IInv, TimerIsCurrent, Due
<1>7. /\ fires' = [fires EXCEPT ![r] = TRUE]
      /\ (Joins(r) /\ UNCHANGED starts) \/ (~Joins(r) /\ Begun(r))
  BY <1>6 DEF Fire
<1>8. /\ fires' \in [Routines -> BOOLEAN] /\ fires'[r]
      /\ \A q \in Routines : q # r => fires'[q] = fires[q]
  BY <1>7 DEF IInv, TypeOK
<1>9. CASE Joins(r) /\ UNCHANGED starts
  <2>1. TypeOK'
    BY <1>1, <1>4, <1>8, <1>9 DEF IInv, TypeOK, starts
  <2>2. Paired'
    BY <1>8, <1>9 DEF IInv, Paired, InProgress, Joins, starts
  <2>3. Followed'
    BY <1>1, <1>9 DEF IInv, Followed, SlotOK, starts
  <2> QED  BY <1>5, <2>1, <2>2, <2>3 DEF IInv
<1>10. CASE ~Joins(r) /\ Begun(r)
  <2>1. /\ inflight' \in [Routines -> Slots \cup {None}] /\ start' \in [Slots -> StartType]
        /\ UNCHANGED <<agent, record>>
        /\ Paired' /\ Followed'
    BY <1>1, <1>6, <1>8, <1>10, BegunKeeps
  <2>2. TypeOK'
    BY <1>1, <1>4, <1>8, <2>1 DEF IInv, TypeOK, StartType
  <2> QED  BY <1>5, <2>1, <2>2 DEF IInv
<1> QED  BY <1>7, <1>9, <1>10

LEMMA RunNowKeeps == ASSUME IInv, NEW r \in Routines, RunNow(r) PROVE IInv'
<1>1. /\ routine[r].row = "listed" /\ ~Joins(r) /\ Begun(r)
      /\ UNCHANGED <<routine, service, daemon>>
  BY DEF RunNow
<1>2. fires' = fires /\ fires \in [Routines -> BOOLEAN] /\ UNCHANGED <<routine, daemon>>
  BY <1>1 DEF IInv, TypeOK, service
<1>3. /\ inflight' \in [Routines -> Slots \cup {None}] /\ start' \in [Slots -> StartType]
      /\ UNCHANGED <<agent, record>>
      /\ Paired' /\ Followed'
  BY <1>1, <1>2, BegunKeeps
<1>4. TypeOK' /\ TimerIsCurrent'
  BY <1>1, <1>3 DEF IInv, TypeOK, StartType, TimerIsCurrent, Held, Started, service
<1> QED  BY <1>3, <1>4 DEF IInv

\* A start that is over leaves its routine free for the next one.
LEMMA SettledKeeps ==
  ASSUME IInv, NEW s \in Slots, InProgress(s), Settled(s), UNCHANGED <<routine, daemon>>,
         start' \in [Slots -> StartType], ~InProgress(s)',
         \A t \in Slots : t # s => start'[t] = start[t]
  PROVE  /\ timers' \in [Routines -> Plans \cup {None}] /\ armed' \in [Routines -> Nat]
         /\ fires' \in [Routines -> BOOLEAN]
         /\ inflight' \in [Routines -> Slots \cup {None}]
         /\ TimerIsCurrent' /\ Paired'
<1> DEFINE r == start[s].routine
<1>1. r \in Routines /\ inflight[r] = s
  BY DEF IInv, Paired
<1>2. /\ inflight' = [inflight EXCEPT ![r] = None]
      /\ fires' = [fires EXCEPT ![r] = FALSE]
      /\ Rescheduled(r, routine[r]) \/ UNCHANGED <<timers, armed>>
  BY DEF Settled
<1>3. /\ inflight' \in [Routines -> Slots \cup {None}] /\ fires' \in [Routines -> BOOLEAN]
      /\ inflight'[r] = None /\ ~fires'[r]
      /\ \A q \in Routines : q # r => inflight'[q] = inflight[q] /\ fires'[q] = fires[q]
  BY <1>1, <1>2 DEF IInv, TypeOK
<1>4. /\ timers' \in [Routines -> Plans \cup {None}] /\ armed' \in [Routines -> Nat]
      /\ TimerIsCurrent'
  <2>1. CASE Rescheduled(r, routine[r])
    <3>1. routine[r] \in RowType
      BY <1>1 DEF IInv, TypeOK, RowType
    <3> QED  BY <1>1, <2>1, <3>1, RescheduledIsCurrent DEF IInv
  <2>2. CASE UNCHANGED <<timers, armed>>
    BY <2>2 DEF IInv, TypeOK, TimerIsCurrent, Held, Started
  <2> QED  BY <1>2, <2>1, <2>2
<1>5. Paired'
  <2>1. ASSUME NEW t \in Slots, InProgress(t)'
        PROVE  start'[t].routine \in Routines /\ inflight'[start'[t].routine] = t
    <3>1. t # s /\ start'[t] = start[t] /\ InProgress(t)
      BY <2>1 DEF InProgress
    <3>2. start[t].routine \in Routines /\ inflight[start[t].routine] = t
      BY <3>1 DEF IInv, Paired
    <3>3. start[t].routine # r
      BY <1>1, <3>1, <3>2
    <3> QED  BY <1>3, <3>1, <3>2, <3>3
  <2>2. ASSUME NEW q \in Routines, inflight'[q] # None
        PROVE  InProgress(inflight[q])' /\ start'[inflight'[q]].routine = q
    <3>1. q # r /\ inflight'[q] = inflight[q]
      BY <1>3, <2>2
    <3>2. inflight[q] \in Slots /\ InProgress(inflight[q]) /\ start[inflight[q]].routine = q
      BY <2>2, <3>1 DEF IInv, TypeOK, Paired
    <3>3. inflight[q] # s
      BY <3>1, <3>2
    <3> QED  BY <3>1, <3>2, <3>3 DEF InProgress
  <2>3. \A q \in Routines : fires'[q] => inflight'[q] # None
    BY <1>3 DEF IInv, Paired
  <2> QED  BY <2>1, <2>2, <2>3 DEF Paired
<1> QED  BY <1>3, <1>4, <1>5

\* One start changes, the others do not.
LEMMA OneStart ==
  ASSUME TypeOK, NEW s \in Slots, NEW x \in StartType, start' = [start EXCEPT ![s] = x]
  PROVE  /\ start' \in [Slots -> StartType] /\ start'[s] = x
         /\ \A t \in Slots : t # s => start'[t] = start[t]
  BY DEF TypeOK, StartType

\* What a slot is asked about is the same, but for one of them.
LEMMA OthersFollowed ==
  ASSUME Followed, NEW s \in Slots, SlotOK(s)',
         \A t \in Slots : t # s =>
            start'[t] = start[t] /\ agent'[t] = agent[t] /\ record'[t] = record[t],
         routine' = routine
  PROVE  Followed'
<1> SUFFICES ASSUME NEW t \in Slots, t # s PROVE SlotOK(t)'
  BY DEF Followed
<1> QED  BY DEF Followed, SlotOK

LEMMA PrepareKeeps == ASSUME IInv, NEW s \in Slots, Prepare(s) PROVE IInv'
<1> DEFINE x == [start[s] EXCEPT !.phase = "plugin"]
<1>1. /\ x \in StartType /\ x.phase = "plugin" /\ x.routine = start[s].routine
      /\ start' = [start EXCEPT ![s] = x] /\ start[s].phase = "config"
      /\ UNCHANGED <<routine, service, inflight, agent, record, daemon>>
  BY DEF Prepare, IInv, TypeOK, StartType
<1>2. /\ start' \in [Slots -> StartType] /\ start'[s] = x
      /\ \A t \in Slots : t # s => start'[t] = start[t]
  BY <1>1, OneStart DEF IInv
<1>3. TypeOK' /\ TimerIsCurrent'
  BY <1>1, <1>2 DEF IInv, TypeOK, StartType, TimerIsCurrent, Held, Started, service
<1>4. \A t \in Slots : InProgress(t)' = InProgress(t) /\ start'[t].routine = start[t].routine
  BY <1>1, <1>2 DEF InProgress
<1>5. Paired'
  BY <1>1, <1>4 DEF IInv, TypeOK, Paired, service
<1>6. SlotOK(s)'
  BY <1>1, <1>2 DEF IInv, Followed, SlotOK, Outcomes
<1>7. Followed'
  BY <1>1, <1>2, <1>6, OthersFollowed DEF IInv
<1> QED  BY <1>3, <1>5, <1>7 DEF IInv

LEMMA LinkKeeps == ASSUME IInv, NEW s \in Slots, Link(s) PROVE IInv'
<1> DEFINE x == [start[s] EXCEPT !.phase = "linking"]
<1>1. /\ x \in StartType /\ x.phase = "linking" /\ x.routine = start[s].routine
      /\ start' = [start EXCEPT ![s] = x] /\ start[s].phase = "plugin"
      /\ UNCHANGED <<routine, service, inflight, record, daemon>>
  BY DEF Link, IInv, TypeOK, StartType
<1>2. /\ start' \in [Slots -> StartType] /\ start'[s] = x
      /\ \A t \in Slots : t # s => start'[t] = start[t]
  BY <1>1, OneStart DEF IInv
<1>3. /\ agent' \in [Slots -> AgentType] /\ agent'[s] = "queued"
      /\ \A t \in Slots : t # s => agent'[t] = agent[t]
  BY DEF Link, IInv, TypeOK, AgentType
<1>4. TypeOK' /\ TimerIsCurrent'
  BY <1>1, <1>2, <1>3
     DEF IInv, TypeOK, StartType, AgentType, TimerIsCurrent, Held, Started, service
<1>5. \A t \in Slots : InProgress(t)' = InProgress(t) /\ start'[t].routine = start[t].routine
  BY <1>1, <1>2 DEF InProgress
<1>6. Paired'
  BY <1>1, <1>5 DEF IInv, TypeOK, Paired, service
<1>7. SlotOK(s)'
  BY <1>1, <1>2, <1>3 DEF IInv, Followed, SlotOK, Outcomes
<1>8. Followed'
  BY <1>1, <1>2, <1>3, <1>7, OthersFollowed DEF IInv
<1> QED  BY <1>4, <1>6, <1>8 DEF IInv

LEMMA RefuseKeeps == ASSUME IInv, NEW s \in Slots, Refuse(s) PROVE IInv'
<1> DEFINE x == [start[s] EXCEPT !.phase = "refused"]
<1>1. /\ x \in StartType /\ x.phase = "refused" /\ x.routine = start[s].routine
      /\ start' = [start EXCEPT ![s] = x] /\ start[s].phase \in {"config", "plugin", "linking"}
      /\ Settled(s) /\ UNCHANGED <<routine, agent, record, daemon>>
  BY DEF Refuse, IInv, TypeOK, StartType
<1>2. /\ start' \in [Slots -> StartType] /\ start'[s] = x
      /\ \A t \in Slots : t # s => start'[t] = start[t]
  BY <1>1, OneStart DEF IInv
<1>3. /\ timers' \in [Routines -> Plans \cup {None}] /\ armed' \in [Routines -> Nat]
      /\ fires' \in [Routines -> BOOLEAN]
      /\ inflight' \in [Routines -> Slots \cup {None}]
      /\ TimerIsCurrent' /\ Paired'
  BY <1>1, <1>2, SettledKeeps DEF InProgress
<1>4. TypeOK'
  BY <1>1, <1>2, <1>3 DEF IInv, TypeOK, StartType
<1>5. SlotOK(s)'
  BY <1>1, <1>2 DEF IInv, Followed, SlotOK, Outcomes
<1>6. Followed'
  BY <1>1, <1>2, <1>5, OthersFollowed DEF IInv
<1> QED  BY <1>3, <1>4, <1>6 DEF IInv

LEMMA LaunchKeeps == ASSUME IInv, NEW s \in Slots, Launch(s) PROVE IInv'
<1> DEFINE listed == routine[start[s].routine].row = "listed"
           x == [start[s] EXCEPT !.phase = IF listed THEN "watched" ELSE "unrecorded"]
           row == IF listed THEN "running" ELSE record[s]
<1>1. /\ x \in StartType /\ x.routine = start[s].routine
      /\ x.phase = IF listed THEN "watched" ELSE "unrecorded"
      /\ start' = [start EXCEPT ![s] = x] /\ start[s].phase \in {"plugin", "linking"}
      /\ agent' = [agent EXCEPT ![s] = IF @ = "canceled" THEN @ ELSE "running"]
      /\ Settled(s) /\ UNCHANGED <<routine, daemon>>
  BY DEF Launch, Recorded, IInv, TypeOK, StartType
<1>2. /\ start' \in [Slots -> StartType] /\ start'[s] = x
      /\ \A t \in Slots : t # s => start'[t] = start[t]
  BY <1>1, OneStart DEF IInv
<1>3. /\ record' \in [Slots -> RecordType] /\ record'[s] = row
      /\ \A t \in Slots : t # s => record'[t] = record[t]
  <2>1. CASE listed
    BY <2>1 DEF Launch, Recorded, IInv, TypeOK, RecordType
  <2>2. CASE ~listed
    BY <2>2 DEF Launch, Recorded, IInv, TypeOK, RecordType
  <2> QED  BY <2>1, <2>2
<1>4. /\ agent' \in [Slots -> AgentType] /\ agent'[s] \in {"canceled", "running"}
      /\ \A t \in Slots : t # s => agent'[t] = agent[t]
  BY <1>1 DEF IInv, TypeOK, AgentType
<1>5. /\ timers' \in [Routines -> Plans \cup {None}] /\ armed' \in [Routines -> Nat]
      /\ fires' \in [Routines -> BOOLEAN]
      /\ inflight' \in [Routines -> Slots \cup {None}]
      /\ TimerIsCurrent' /\ Paired'
  BY <1>1, <1>2, SettledKeeps DEF InProgress
<1>6. TypeOK'
  BY <1>1, <1>2, <1>3, <1>4, <1>5 DEF IInv, TypeOK, StartType, AgentType, RecordType
<1>7. /\ start[s].routine \in Routines /\ routine[start[s].routine].row \in {"listed", "deleted"}
      /\ record[s] = "none"
  BY <1>1 DEF IInv, TypeOK, Followed, SlotOK
<1>8. SlotOK(s)'
  BY <1>1, <1>2, <1>3, <1>4, <1>7 DEF SlotOK, Outcomes
<1>9. Followed'
  BY <1>1, <1>2, <1>3, <1>4, <1>8, OthersFollowed DEF IInv
<1> QED  BY <1>5, <1>6, <1>9 DEF IInv

LEMMA AgentEndsKeeps ==
  ASSUME IInv, NEW s \in Slots, NEW outcome \in Outcomes, AgentEnds(s, outcome)
  PROVE  IInv'
<1>1. /\ agent[s] = "running" \/ (agent[s] = "queued" /\ outcome = "canceled")
      /\ agent' \in [Slots -> AgentType] /\ agent'[s] = outcome
      /\ \A t \in Slots : t # s => agent'[t] = agent[t]
      /\ UNCHANGED <<routine, service, inflight, start, record, daemon>>
  BY DEF AgentEnds, IInv, TypeOK, AgentType
<1>2. TypeOK' /\ TimerIsCurrent' /\ Paired'
  BY <1>1 DEF IInv, TypeOK, AgentType, TimerIsCurrent, Held, Started, Paired, InProgress, service
<1>3. SlotOK(s)'
  BY <1>1 DEF IInv, Followed, SlotOK, Outcomes
<1>4. Followed'
  BY <1>1, <1>3, OthersFollowed DEF IInv
<1> QED  BY <1>2, <1>4 DEF IInv

LEMMA CompleteKeeps ==
  ASSUME IInv, NEW s \in Slots, NEW status \in Outcomes, Complete(s, status)
  PROVE  IInv'
<1> DEFINE x == [start[s] EXCEPT !.phase = "over"]
           row == IF record[s] = "erased" THEN "erased" ELSE status
<1>1. /\ x \in StartType /\ x.phase = "over" /\ x.routine = start[s].routine
      /\ start' = [start EXCEPT ![s] = x] /\ start[s].phase = "watched"
      /\ agent[s] \in Outcomes /\ status \in {agent[s], "failed"}
      /\ UNCHANGED <<routine, service, inflight, agent, daemon>>
  BY DEF Complete, IInv, TypeOK, StartType
<1>2. /\ start' \in [Slots -> StartType] /\ start'[s] = x
      /\ \A t \in Slots : t # s => start'[t] = start[t]
  BY <1>1, OneStart DEF IInv
<1>3. /\ record' \in [Slots -> RecordType] /\ record'[s] = row
      /\ \A t \in Slots : t # s => record'[t] = record[t]
  BY DEF Complete, Written, IInv, TypeOK, RecordType
<1>4. TypeOK' /\ TimerIsCurrent'
  BY <1>1, <1>2, <1>3 DEF IInv, TypeOK, StartType, RecordType, TimerIsCurrent, Held, Started,
                          service
<1>5. \A t \in Slots : InProgress(t)' = InProgress(t) /\ start'[t].routine = start[t].routine
  BY <1>1, <1>2 DEF InProgress
<1>6. Paired'
  BY <1>1, <1>5 DEF IInv, TypeOK, Paired, service
<1>7. SlotOK(s)'
  BY <1>1, <1>2, <1>3 DEF IInv, Followed, SlotOK, Outcomes
<1>8. Followed'
  BY <1>1, <1>2, <1>3, <1>7, OthersFollowed DEF IInv
<1> QED  BY <1>4, <1>6, <1>8 DEF IInv

LEMMA ForgetKeeps == ASSUME IInv, NEW s \in Slots, Forget(s) PROVE IInv'
<1>1. /\ NoStart \in StartType /\ NoStart.phase = "free"
      /\ start' = [start EXCEPT ![s] = NoStart]
      /\ start[s].phase \in {"refused", "over", "lost", "unrecorded"}
      /\ UNCHANGED <<routine, service, inflight, daemon>>
  BY DEF Forget, NoStart, StartType
<1>2. /\ start' \in [Slots -> StartType] /\ start'[s] = NoStart
      /\ \A t \in Slots : t # s => start'[t] = start[t]
  BY <1>1, OneStart DEF IInv
<1>3. /\ record' \in [Slots -> RecordType] /\ record'[s] = "none"
      /\ agent' \in [Slots -> AgentType] /\ agent'[s] = "none"
      /\ \A t \in Slots : t # s => record'[t] = record[t] /\ agent'[t] = agent[t]
  BY DEF Forget, IInv, TypeOK, RecordType, AgentType
<1>4. TypeOK' /\ TimerIsCurrent'
  BY <1>1, <1>2, <1>3 DEF IInv, TypeOK, StartType, RecordType, AgentType, TimerIsCurrent, Held,
                          Started, service
<1>5. \A t \in Slots : InProgress(t)' = InProgress(t)
                       /\ (InProgress(t) => start'[t].routine = start[t].routine)
  BY <1>1, <1>2 DEF InProgress
<1>6. Paired'
  BY <1>1, <1>5 DEF IInv, TypeOK, Paired, service
<1>7. SlotOK(s)'
  BY <1>1, <1>2, <1>3 DEF SlotOK, Outcomes
<1>8. Followed'
  BY <1>1, <1>2, <1>3, <1>7, OthersFollowed DEF IInv
<1> QED  BY <1>4, <1>6, <1>8 DEF IInv

LEMMA ShutdownKeeps == ASSUME IInv, Shutdown PROVE IInv'
<1>1. /\ daemon = "up" /\ daemon' = "draining"
      /\ agent' = [s \in Slots |-> IF agent[s] \in {"queued", "running"} THEN "canceled"
                                   ELSE agent[s]]
      /\ UNCHANGED <<routine, service, inflight, start, record>>
  BY DEF Shutdown
<1>2. TypeOK' /\ TimerIsCurrent' /\ Paired'
  BY <1>1 DEF IInv, TypeOK, TimerIsCurrent, Held, Started, Paired, InProgress, Outcomes, service
<1>3. Followed'
  <2> SUFFICES ASSUME NEW s \in Slots PROVE SlotOK(s)'
    BY DEF Followed
  <2>1. SlotOK(s)
    BY DEF IInv, Followed
  <2> QED  BY <1>1, <2>1 DEF SlotOK, Outcomes
<1> QED  BY <1>2, <1>3 DEF IInv

LEMMA StopKeeps == ASSUME IInv, Stop PROVE IInv'
<1>1. /\ daemon' = "stopped" /\ timers' = [r \in Routines |-> None]
      /\ armed' = [r \in Routines |-> armed[r] - Held(r)]
      /\ UNCHANGED <<routine, fires, starts>>
  BY DEF Stop
<1>2. \A r \in Routines : armed[r] - Held(r) = 0
  BY DEF IInv, TypeOK, TimerIsCurrent, Held
<1>3. TypeOK' /\ TimerIsCurrent'
  BY <1>1, <1>2 DEF IInv, TypeOK, TimerIsCurrent, Held, starts
<1>4. Paired' /\ Followed'
  BY <1>1 DEF IInv, Paired, InProgress, Followed, SlotOK, starts
<1> QED  BY <1>3, <1>4 DEF IInv

LEMMA ExitKeeps == ASSUME IInv, Exit PROVE IInv'
<1>1. /\ daemon' = "down" /\ UNCHANGED <<routine, record>>
      /\ timers' = [r \in Routines |-> None] /\ armed' = [r \in Routines |-> 0]
      /\ fires' = [r \in Routines |-> FALSE] /\ inflight' = [r \in Routines |-> None]
      /\ agent' = [s \in Slots |-> IF agent[s] \in {"queued", "running"} THEN "lost"
                                   ELSE agent[s]]
  BY DEF Exit
<1> DEFINE x(s) == IF start[s].phase = "free" THEN NoStart ELSE [start[s] EXCEPT !.phase = "lost"]
<1>2. ASSUME NEW s \in Slots
      PROVE  /\ x(s) \in StartType
             /\ start[s].phase = "free" => x(s).phase = "free"
             /\ start[s].phase # "free" =>
                  x(s).phase = "lost" /\ x(s).routine = start[s].routine
  <2>1. start[s] \in StartType
    BY DEF IInv, TypeOK, StartType
  <2>2. CASE start[s].phase = "free"
    BY <2>2 DEF NoStart, StartType
  <2>3. CASE start[s].phase # "free"
    BY <2>1, <2>3 DEF StartType
  <2> QED  BY <2>2, <2>3
<1>3. /\ start' = [s \in Slots |-> x(s)]
      /\ start' \in [Slots -> StartType]
  BY <1>2 DEF Exit
<1>4. \A s \in Slots : /\ start[s].phase = "free" => start'[s].phase = "free"
                       /\ start[s].phase # "free" =>
                            /\ start'[s].phase = "lost"
                            /\ start'[s].routine = start[s].routine
  BY <1>2, <1>3
<1>5. TypeOK' /\ TimerIsCurrent' /\ Paired'
  BY <1>1, <1>3, <1>4
  DEF IInv, TypeOK, StartType, TimerIsCurrent, Held, Paired, InProgress
<1>6. Followed'
  <2> SUFFICES ASSUME NEW s \in Slots PROVE SlotOK(s)'
    BY DEF Followed
  <2>1. SlotOK(s) /\ agent'[s] = (IF agent[s] \in {"queued", "running"} THEN "lost"
                                  ELSE agent[s])
    BY <1>1 DEF IInv, Followed
  <2>2. CASE start[s].phase = "free"
    BY <1>1, <1>4, <2>1, <2>2 DEF SlotOK, Outcomes
  <2>3. CASE start[s].phase # "free"
    BY <1>1, <1>4, <2>1, <2>3 DEF SlotOK, Outcomes
  <2> QED  BY <2>2, <2>3
<1> QED  BY <1>5, <1>6 DEF IInv

LEMMA BootKeeps == ASSUME IInv, Boot PROVE IInv'
<1>1. /\ daemon' = "up" /\ UNCHANGED <<routine, fires, starts>>
      /\ timers' = [r \in Routines |-> Due(routine[r])]
      /\ armed' = [r \in Routines |-> IF Due(routine[r]) = None THEN 0 ELSE 1]
  BY DEF Boot
<1>2. \A r \in Routines : Due(routine[r]) \in Plans \cup {None}
  BY DEF IInv, TypeOK, Due
<1>3. TypeOK' /\ TimerIsCurrent'
  BY <1>1, <1>2 DEF IInv, TypeOK, TimerIsCurrent, Held, Started, starts
<1>4. Paired' /\ Followed'
  BY <1>1 DEF IInv, Paired, InProgress, Followed, SlotOK, starts
<1> QED  BY <1>3, <1>4 DEF IInv

LEMMA NextKeeps == IInv /\ [Next]_vars => IInv'
<1> SUFFICES ASSUME IInv, [Next]_vars PROVE IInv'
  OBVIOUS
<1>1. ASSUME NEW r \in Routines, NEW enabled \in BOOLEAN, NEW plan \in Plans,
             Create(r, enabled, plan) \/ Patch(r, enabled, plan)
      PROVE  IInv'
  BY <1>1, RoutesKeep
<1>2. ASSUME NEW r \in Routines, Delete(r) \/ Fire(r) \/ RunNow(r) PROVE IInv'
  BY <1>2, DeleteKeeps, FireKeeps, RunNowKeeps
<1>3. ASSUME NEW s \in Slots, Starting(s) PROVE IInv'
  BY <1>3, PrepareKeeps, LinkKeeps, RefuseKeeps, LaunchKeeps DEF Starting
<1>4. ASSUME NEW s \in Slots, Completing(s) \/ Forget(s) PROVE IInv'
  BY <1>4, CompleteKeeps, ForgetKeeps DEF Completing
<1>5. CASE Shutdown \/ Stop \/ Exit \/ Boot
  BY <1>5, ShutdownKeeps, StopKeeps, ExitKeeps, BootKeeps
<1>6. CASE UNCHANGED vars
  BY <1>6 DEF IInv, TypeOK, TimerIsCurrent, Held, Started, Paired, InProgress, Followed,
              SlotOK, vars, service, starts
<1>7. ASSUME NEW s \in Slots, NEW outcome \in Outcomes, AgentEnds(s, outcome) PROVE IInv'
  BY <1>7, AgentEndsKeeps
<1> QED  BY <1>1, <1>2, <1>3, <1>4, <1>5, <1>6, <1>7 DEF Next

-----------------------------------------------------------------------------
(* The theorems                                                             *)

\* The inductive invariant holds in every reachable state.
THEOREM Invariance == Spec => []IInv
<1> QED  BY InitHolds, NextKeeps, PTL DEF Spec

\* The state of the service is always well typed.
THEOREM TypeCorrect == Spec => []TypeOK
<1>1. IInv => TypeOK
  BY DEF IInv
<1> QED  BY <1>1, Invariance, PTL

\* Every timer that runs is the one in the map, for the routine as it is now:
\* no routine fires by a timer it was left with (rescheduleOne, unschedule).
THEOREM TimersAreCurrent == Spec => []TimerIsCurrent
<1>1. IInv => TimerIsCurrent
  BY DEF IInv
<1> QED  BY <1>1, Invariance, PTL

\* A timer and a button that meet during the awaits of a start get one start
\* (start_ of routines.ts).
THEOREM OneStartAtATime == Spec => []StartsAreShared
<1>1. IInv => StartsAreShared
  <2> SUFFICES ASSUME IInv PROVE StartsAreShared
    OBVIOUS
  <2>1. \A s, t \in Slots :
          InProgress(s) /\ InProgress(t) /\ start[s].routine = start[t].routine => s = t
    BY DEF IInv, Paired
  <2> QED  BY <2>1 DEF IInv, Paired, StartsAreShared
<1> QED  BY <1>1, Invariance, PTL

\* What routine_runs tells of an agent run is so, however its routine is
\* deleted during the start, the daemon shuts down, crashes and boots.
THEOREM RecordsTell == Spec => []RecordsAgree
<1>1. IInv => RecordsAgree
  <2> SUFFICES ASSUME IInv, NEW s \in Slots
               PROVE  /\ agent[s] = "running" =>
                           \/ record[s] = "running"
                           \/ routine[start[s].routine].row = "deleted"
                      /\ record[s] = "running" => start[s].phase \in {"watched", "lost"}
                      /\ record[s] \in {"succeeded", "canceled"} => agent[s] = record[s]
                      /\ record[s] \in Outcomes \cup {"running"} =>
                           routine[start[s].routine].row = "listed"
    BY DEF RecordsAgree
  <2> QED  BY DEF IInv, Followed, SlotOK
<1> QED  BY <1>1, Invariance, PTL

-----------------------------------------------------------------------------
(* Routines implements Cadence                                              *)

Wanted(r) == IF Started THEN Due(routine[r]) ELSE None

\* The steps of Cadence, said of a routine.
CadenceStep(r) ==
    \/ timers'[r] = Wanted(r)' /\ fires'[r] = fires[r]
    \/ timers[r] # None /\ timers'[r] = None /\ fires'[r] /\ Wanted(r)' = Wanted(r)
    \/ fires'[r] /\ Wanted(r)' = Wanted(r) /\ timers'[r] = timers[r]
    \/ /\ fires[r] /\ ~fires'[r]
       /\ Wanted(r)' = Wanted(r) /\ timers'[r] = Wanted(r)
    \/ Wanted(r)' = None /\ timers'[r] = None /\ ~fires'[r]
    \/ Wanted(r)' = Wanted(r) /\ timers'[r] = timers[r] /\ fires'[r] = fires[r]

LEMMA CadenceStepsAreStep ==
  (\A r \in Routines : CadenceStep(r)) => [Scheduled!Next]_(Scheduled!vars)
<1> SUFFICES ASSUME \A r \in Routines : CadenceStep(r) PROVE Scheduled!Next
  OBVIOUS
<1> QED
  BY DEF CadenceStep, Wanted, Scheduled!Next, Scheduled!Change, Scheduled!Fire,
         Scheduled!ByHand, Scheduled!Settle, Scheduled!Halt, Scheduled!Same

LEMMA MapsInit == Init => Scheduled!Init
<1> SUFFICES ASSUME Init PROVE Scheduled!Init
  OBVIOUS
<1>1. \A r \in Routines : (IF Started THEN Due(routine[r]) ELSE None) = None
  BY DEF Init, Due
<1> QED  BY <1>1 DEF Init, Scheduled!Init

LEMMA MapsNext ==
  ASSUME IInv, [Next]_vars, NEW r \in Routines
  PROVE  CadenceStep(r)
<1> USE DEF Wanted
<1>1. ASSUME NEW q \in Routines, NEW enabled \in BOOLEAN, NEW plan \in Plans,
             Create(q, enabled, plan) \/ Patch(q, enabled, plan)
      PROVE  CadenceStep(r)
  <2> DEFINE row == [row |-> "listed", enabled |-> enabled, plan |-> plan]
  <2>1. /\ row \in RowType /\ routine' = [routine EXCEPT ![q] = row] /\ Rescheduled(q, row)
        /\ UNCHANGED <<fires, daemon>>
    BY <1>1 DEF Create, Patch, RowType
  <2>2. routine'[q] = row /\ \A p \in Routines : p # q => routine'[p] = routine[p]
    BY <2>1 DEF IInv, TypeOK
  <2>3. /\ timers'[q] = IF Started THEN Due(row) ELSE None
        /\ \A p \in Routines : p # q => timers'[p] = timers[p]
    BY <2>1, <2>2, RescheduledIsCurrent DEF IInv
  <2> QED  BY <2>1, <2>2, <2>3 DEF CadenceStep, Started, Due
<1>2. ASSUME NEW q \in Routines, Delete(q) PROVE CadenceStep(r)
  <2>1. /\ routine' = [routine EXCEPT ![q] = [row |-> "deleted", enabled |-> FALSE, plan |-> None]]
        /\ timers' = [timers EXCEPT ![q] = None]
        /\ UNCHANGED <<fires, daemon>>
    BY <1>2 DEF Delete, Unscheduled
  <2> QED  BY <2>1 DEF CadenceStep, Started, Due, IInv, TypeOK
<1>3. ASSUME NEW q \in Routines, Fire(q) PROVE CadenceStep(r)
  <2>1. armed[q] > 0 /\ armed[q] = Held(q)
    BY <1>3 DEF Fire, IInv, TimerIsCurrent
  <2>2. timers[q] # None
    BY <2>1 DEF Held
  <2>3. routine[q].row = "listed"
    BY <2>2 DEF IInv, TimerIsCurrent, Due
  <2>4. /\ timers' = [timers EXCEPT ![q] = None] /\ fires' = [fires EXCEPT ![q] = TRUE]
        /\ UNCHANGED <<routine, daemon>>
    BY <1>3, <2>3 DEF Fire
  <2> QED  BY <2>2, <2>4 DEF CadenceStep, Started, IInv, TypeOK
<1>4. ASSUME NEW q \in Routines, RunNow(q) PROVE CadenceStep(r)
  BY <1>4 DEF RunNow, CadenceStep, Started, service
<1>5. ASSUME NEW s \in Slots, Starting(s) PROVE CadenceStep(r)
  <2>1. CASE Prepare(s) \/ Link(s)
    BY <2>1 DEF Prepare, Link, CadenceStep, Started, service
  <2>2. CASE Refuse(s) \/ Launch(s)
    <3> DEFINE q == start[s].routine
    <3>1. q \in Routines
      BY <2>2 DEF Refuse, Launch, IInv, Paired, InProgress
    <3>2. /\ fires' = [fires EXCEPT ![q] = FALSE]
          /\ \/ fires[q] /\ Rescheduled(q, routine[q])
             \/ ~fires[q] /\ UNCHANGED timers
          /\ UNCHANGED <<routine, daemon>>
      BY <2>2, <3>1 DEF Refuse, Launch, Settled
    <3>3. routine[q] \in RowType
      BY <3>1 DEF IInv, TypeOK, RowType
    <3>4. /\ fires[q] => timers'[q] = Wanted(q)
          /\ ~fires[q] => timers'[q] = timers[q]
          /\ \A p \in Routines : p # q => timers'[p] = timers[p]
      BY <3>1, <3>2, <3>3, RescheduledIsCurrent DEF IInv
    <3>5. /\ fires'[q] = FALSE /\ fires[q] \in BOOLEAN
          /\ \A p \in Routines : p # q => fires'[p] = fires[p]
      BY <3>1, <3>2 DEF IInv, TypeOK
    <3>6. Started' = Started /\ Wanted(r)' = Wanted(r)
      BY <3>2 DEF Started
    <3>7. CASE r = q
      <4>1. CASE fires[q] = TRUE
        BY <3>4, <3>5, <3>6, <3>7, <4>1 DEF CadenceStep
      <4>2. CASE fires[q] = FALSE
        BY <3>4, <3>5, <3>6, <3>7, <4>2 DEF CadenceStep
      <4> QED  BY <3>5, <4>1, <4>2
    <3>8. CASE r # q
      BY <3>4, <3>5, <3>6, <3>8 DEF CadenceStep
    <3> QED  BY <3>7, <3>8
  <2> QED  BY <1>5, <2>1, <2>2 DEF Starting
<1>6. ASSUME NEW s \in Slots, Completing(s) \/ Forget(s) PROVE CadenceStep(r)
  BY <1>6 DEF Completing, Complete, Forget, CadenceStep, Started, service
<1>7. CASE Shutdown
  BY <1>7 DEF Shutdown, CadenceStep, Started, service
<1>8. CASE Stop \/ Exit
  BY <1>8 DEF Stop, Exit, CadenceStep, Started
<1>9. CASE Boot
  BY <1>9 DEF Boot, CadenceStep, Started
<1>10. CASE UNCHANGED vars
  BY <1>10 DEF vars, service, CadenceStep, Started
<1>11. ASSUME NEW s \in Slots, NEW outcome \in Outcomes, AgentEnds(s, outcome)
       PROVE  CadenceStep(r)
  BY <1>11 DEF AgentEnds, CadenceStep, Started, service
<1> QED
  BY <1>1, <1>2, <1>3, <1>4, <1>5, <1>6, <1>7, <1>8, <1>9, <1>10, <1>11 DEF Next

\* No fire of a routine is its last: while it is switched on, its timer is set
\* or a callback awaits a start and will set it again; a routine that was
\* paused, changed or deleted drops the old time at once.
THEOREM Implementation == Spec => ImplementsCadence
<1>1. IInv /\ [Next]_vars => [Scheduled!Next]_(Scheduled!vars)
  BY MapsNext, CadenceStepsAreStep
<1> QED  BY <1>1, MapsInit, Invariance, PTL DEF Spec, ImplementsCadence, Scheduled!Spec

=============================================================================
