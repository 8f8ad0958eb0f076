--------------------- MODULE LiveArtifactRefreshProofs ---------------------
(***************************************************************************)
(* Theorems about LiveArtifactRefresh, for any requests and bounds: one    *)
(* refresh at a time, and nothing served or recorded that is not saved.    *)
(***************************************************************************)
EXTENDS LiveArtifactRefresh, TLAPS

\* Only a daemon that is up serves requests.
Alive == \A r \in Requests : ~At(r, "idle") => daemon = "up"

\* A snapshot directory is one refresh's.
OneSnapshotPerOrdinal ==
    \A s, t \in snapshots : s.ordinal = t.ordinal => s = t

SavedOrdinal(n, saved) == \E s \in saved : s.ordinal = n

SavedBy(k, saved) == \E s \in saved : s.by = k

PastSave == {"writing", "commitOpen", "commitFill", "logging"}

\* A request that is past its snapshot is in it, and so is what it has read
\* of the state.
RequestSaved(q, saved) ==
    /\ q.pc \in PastSave => [ordinal |-> q.ordinal, by |-> q.by] \in saved
    /\ q.seen.committed # 0 => SavedOrdinal(q.seen.committed, saved)

RequestsSaved == \A r \in Requests : RequestSaved(request[r], snapshots)

SuccessesSaved ==
    \A e \in log : e.outcome = "succeeded" => [ordinal |-> e.ordinal, by |-> e.by] \in snapshots

LateSaved == \A w \in late : SavedBy(w.by, snapshots)

\* Nothing is written, recorded or remembered as committed that is not saved.
SavedFirst == RequestsSaved /\ SuccessesSaved /\ LateSaved /\ ServedIsSaved

IInv ==
    TypeOK /\ Alive /\ Exclusive /\ OneSnapshotPerOrdinal /\ SavedFirst

-----------------------------------------------------------------------------
(* Types                                                                   *)

RequestType == [pc : Steps, by : Nat, ordinal : Nat, seen : StateType, left : SUBSET CommitFiles]

\* One request changes.
LEMMA BecomesType ==
    ASSUME TypeOK, NEW r \in Requests, NEW q \in RequestType, Becomes(r, q)
    PROVE  request' \in [Requests -> RequestType]
  BY DEF TypeOK, Becomes, RequestType

\* A request may go anywhere in its program.
LEMMA GotoType ==
    ASSUME TypeOK, NEW r \in Requests, NEW pc \in Steps, Goto(r, pc)
    PROVE  request' \in [Requests -> RequestType]
<1>1. request[r] \in RequestType
  BY DEF TypeOK, RequestType
<1>2. [request[r] EXCEPT !.pc = pc] \in RequestType
  BY <1>1 DEF RequestType
<1>3. QED BY <1>2, BecomesType DEF Goto

\* A request may leave.
LEMMA ReturnType ==
    ASSUME TypeOK, NEW r \in Requests, Return(r)
    PROVE  request' \in [Requests -> RequestType]
<1>1. Idle \in RequestType
  BY DEF Idle, RequestType, Steps, StateType, DefaultState, CommitFiles
<1>2. QED BY <1>1, BecomesType DEF Return

\* What is read of the state is a state.
LEMMA ReadType ==
    ASSUME TypeOK
    PROVE  ReadState \in StateType
  BY DEF TypeOK, ReadState, StateType, DefaultState

\* What a request logs is a log entry.
LEMMA EntryType ==
    ASSUME TypeOK, NEW r \in Requests, NEW outcome \in {"succeeded", "failed"}
    PROVE  Entry(r, outcome) \in [by : Nat, ordinal : Nat, outcome : {"succeeded", "failed"}]
  BY DEF TypeOK, Entry, Ordinal

\* Every step keeps the types.
LEMMA TypeKeeps ==
    ASSUME TypeOK, [Next]_vars
    PROVE  TypeOK'
<1>1. ASSUME NEW r \in Requests, ReadOrdinal(r) \/ SourceAnswers(r) PROVE TypeOK'
  <2>0. request[r] \in RequestType
    BY DEF TypeOK, RequestType
  <2>1. CASE ReadOrdinal(r)
    <3> DEFINE q == [request[r] EXCEPT !.pc = "locking", !.seen = ReadState,
                                       !.ordinal = ReadState.next]
    <3>0. q \in RequestType
      BY <2>0, ReadType DEF RequestType, Steps, StateType
    <3>1. request' \in [Requests -> RequestType]
      BY <2>1, <3>0, BecomesType DEF ReadOrdinal
    <3>2. QED BY <2>1, <3>1 DEF TypeOK, ReadOrdinal, RequestType, disk, count
  <2>2. CASE SourceAnswers(r)
    BY <2>2, GotoType DEF TypeOK, SourceAnswers, RequestType, Steps, disk, count
  <2>3. QED BY <1>1, <2>1, <2>2
<1>2. ASSUME NEW r \in Requests, Acquiring(r) PROVE TypeOK'
  <2>0. request[r] \in RequestType
    BY DEF TypeOK, RequestType
  <2>1. CASE Rejected(r)
    BY <2>1, ReturnType DEF TypeOK, Rejected, RequestType, disk, count
  <2>2. CASE CreateLock(r)
    <3>1. Len(issued') \in Nat /\ issued' \in Seq(Nat)
      BY <2>2 DEF TypeOK, CreateLock, Ordinal
    <3> DEFINE q == [request[r] EXCEPT !.pc = "lockFill", !.by = Len(issued')]
    <3>0. q \in RequestType
      BY <2>0, <3>1 DEF RequestType, Steps
    <3>2. request' \in [Requests -> RequestType]
      BY <2>2, <3>0, BecomesType DEF CreateLock
    <3>3. lock' \in [by : Nat, ordinal : Nat, full : BOOLEAN]
      BY <2>2, <3>1 DEF TypeOK, CreateLock, Ordinal
    <3>4. QED BY <2>2, <3>1, <3>2, <3>3 DEF TypeOK, CreateLock, RequestType
  <2>3. CASE FillLock(r)
    BY <2>3, GotoType DEF TypeOK, FillLock, RequestType, Steps, count
  <2>4. CASE OpenState(r)
    BY <2>4, GotoType DEF TypeOK, OpenState, RequestType, Steps, StateType, NoState, count
  <2>5. CASE AdvanceOrdinal(r)
    <3>1. request' \in [Requests -> RequestType]
      BY <2>5, GotoType DEF AdvanceOrdinal, Steps
    <3>2. Ordinal(r) + 1 \in Nat /\ request[r].seen \in StateType
      BY <2>0 DEF RequestType, Ordinal
    <3>3. [request[r].seen EXCEPT !.next = Ordinal(r) + 1] \in StateType
      BY <3>2 DEF StateType
    <3>4. QED BY <2>5, <3>1, <3>3 DEF TypeOK, AdvanceOrdinal, RequestType, count
  <2>6. QED BY <1>2, <2>1, <2>2, <2>3, <2>4, <2>5 DEF Acquiring
<1>3. ASSUME NEW r \in Requests, Refreshing(r) PROVE TypeOK'
  <2>1. CASE Start(r)
    BY <2>1, GotoType DEF TypeOK, Start, RequestType, Steps, disk, count
  <2>2. CASE OpenArtifact(r)
    BY <2>2, GotoType DEF TypeOK, OpenArtifact, RequestType, Steps, count
  <2>3. CASE MarkRunning(r)
    BY <2>3, GotoType DEF TypeOK, MarkRunning, Fill, RequestType, Steps, count
  <2>4. CASE SourceFails(r)
    BY <2>4, GotoType DEF TypeOK, SourceFails, RequestType, Steps, disk, count
  <2>5. CASE LogFailure(r)
    BY <2>5, GotoType, EntryType DEF TypeOK, LogFailure, RequestType, Steps, count
  <2>6. CASE MarkFailed(r)
    BY <2>6, GotoType DEF TypeOK, MarkFailed, Fill, RequestType, Steps, count
  <2>7. CASE Release(r)
    BY <2>7, ReturnType DEF TypeOK, Release, Free, RequestType, count
  <2>8. QED BY <1>3, <2>1, <2>2, <2>3, <2>4, <2>5, <2>6, <2>7 DEF Refreshing
<1>4. ASSUME NEW r \in Requests, Committing(r) PROVE TypeOK'
  <2>0. request[r] \in RequestType
    BY DEF TypeOK, RequestType
  <2>1. CASE BeginCommit(r)
    <3> DEFINE pc == IF artifact # "torn" /\ CanCommit(Ordinal(r), ReadState)
                     THEN "saving" ELSE "failing"
               q == [request[r] EXCEPT !.seen = ReadState, !.pc = pc]
    <3>a. pc \in Steps
      BY DEF Steps
    <3>0. q \in RequestType
      <4> HIDE DEF pc
      <4> QED BY <2>0, <3>a, ReadType DEF RequestType
    <3>1. request' \in [Requests -> RequestType]
      BY <2>1, <3>0, BecomesType DEF BeginCommit
    <3>2. QED BY <2>1, <3>1 DEF TypeOK, BeginCommit, RequestType, disk, count
  <2>2. CASE Save(r)
    <3> DEFINE q == [request[r] EXCEPT !.pc = "writing", !.left = CommitFiles]
    <3>0. q \in RequestType
      BY <2>0 DEF RequestType, Steps
    <3>1. request' \in [Requests -> RequestType]
      <4>1. CASE Goto(r, "failing")
        BY <4>1, GotoType DEF Steps
      <4>2. CASE Becomes(r, q)
        BY <4>2, <3>0, BecomesType
      <4>3. QED BY <2>2, <4>1, <4>2 DEF Save
    <3>2. snapshots' \subseteq [ordinal : Nat, by : Nat]
      BY <2>2 DEF TypeOK, Save, Ordinal
    <3>3. QED BY <2>2, <3>1, <3>2 DEF TypeOK, Save, RequestType, count
  <2>3. ASSUME NEW file \in CommitFiles, LandWrite(r, file) PROVE TypeOK'
    <3> DEFINE q == [request[r] EXCEPT
                       !.left = @ \ {file},
                       !.pc = IF request[r].left = {file} THEN "commitOpen" ELSE @]
    <3>0. q \in RequestType
      BY <2>0 DEF RequestType, Steps
    <3>1. request' \in [Requests -> RequestType]
      BY <2>3, <3>0, BecomesType DEF LandWrite
    <3>2. QED BY <2>3, <3>1 DEF TypeOK, LandWrite, Land, RequestType, count
  <2>4. CASE CommitState(r)
    <3>1. request' \in [Requests -> RequestType]
      BY <2>4, GotoType DEF CommitState, Steps
    <3>2. Ordinal(r) \in Nat /\ request[r].seen.next \in Nat
      BY <2>0 DEF RequestType, StateType, Ordinal
    <3>3. Later(request[r].seen.next, Ordinal(r) + 1) \in Nat
      BY <3>2 DEF Later
    <3>4. state' \in StateType
      BY <2>4, <3>2, <3>3 DEF CommitState, StateType
    <3>5. QED BY <2>4, <3>1, <3>4 DEF TypeOK, CommitState, RequestType, count
  <2>5. CASE LogCommit(r)
    BY <2>5, GotoType, EntryType DEF TypeOK, LogCommit, RequestType, Steps, count
  <2>6. QED BY <1>4, <2>1, <2>2, <2>3, <2>4, <2>5 DEF Committing
<1>5. ASSUME NEW r \in Requests, OperationFails(r) PROVE TypeOK'
  <2> DEFINE q == [request[r] EXCEPT !.pc = AfterFault(@), !.left = {}]
  <2>a. request[r] \in RequestType
    BY DEF TypeOK, RequestType
  <2>b. AfterFault(request[r].pc) \in Steps
    BY DEF AfterFault, Steps
  <2>c. q \in RequestType
    BY <2>a, <2>b DEF RequestType
  <2>1. request' \in [Requests -> RequestType]
    <3>1. CASE Return(r)
      BY <3>1, ReturnType
    <3>2. CASE Becomes(r, q)
      BY <3>2, <2>c, BecomesType
    <3>3. QED BY <1>5, <3>1, <3>2 DEF OperationFails
  <2>2. late' \subseteq [file : CommitFiles, by : Nat]
    BY <1>5 DEF TypeOK, OperationFails
  <2>3. QED BY <1>5, <2>1, <2>2 DEF TypeOK, OperationFails, Free, RequestType
<1>6. ASSUME NEW w \in late, LandLate(w) PROVE TypeOK'
  BY <1>6 DEF TypeOK, LandLate, Land, count
<1>7. CASE Crash
  BY <1>7 DEF TypeOK, Crash, Idle, Steps, StateType, DefaultState, CommitFiles, disk
<1>8. CASE Recovering
  <2>1. CASE Boot
    BY <2>1 DEF TypeOK, Boot, disk, count
  <2>2. CASE RecoverLog
    BY <2>2 DEF TypeOK, RecoverLog, count
  <2>3. CASE RecoverMark
    BY <2>3 DEF TypeOK, RecoverMark, count
  <2>4. CASE RecoverUnlock
    BY <2>4 DEF TypeOK, RecoverUnlock, Free, count
  <2>5. QED BY <1>8, <2>1, <2>2, <2>3, <2>4 DEF Recovering
<1>9. CASE UNCHANGED vars
  BY <1>9 DEF TypeOK, vars, disk, count
<1>10. QED
  BY <1>1, <1>2, <1>3, <1>4, <1>5, <1>6, <1>7, <1>8, <1>9 DEF Next, Serve

-----------------------------------------------------------------------------
(* The lock                                                                *)

\* What every step of a request that keeps the lock does to the lock, the
\* requests and the daemon.
Keeps(r) ==
    /\ Inside(r)
    /\ daemon' = daemon
    /\ lock' = lock \/ lock' = [lock EXCEPT !.full = TRUE]
    /\ request'[r].by = request[r].by
    /\ request'[r].pc \notin {"idle", "locking"}
    /\ \A q \in Requests : q # r => request'[q] = request[q]

\* A request that keeps the lock leaves it its own.
LEMMA KeepsLock ==
    ASSUME IInv, NEW r \in Requests, Keeps(r)
    PROVE  Alive' /\ Exclusive'
  BY DEF IInv, TypeOK, Alive, Exclusive, Inside, Keeps, At, Free

\* A request that leaves, and frees the lock if it held it, leaves nobody
\* behind whose lock it was.
LEMMA LeavesLock ==
    ASSUME IInv, NEW r \in Requests, Return(r), daemon' = daemon,
           lock' = lock \/ (Inside(r) /\ lock' = Free)
    PROVE  Alive' /\ Exclusive'
  BY DEF IInv, TypeOK, Alive, Exclusive, Inside, Return, Becomes, Idle, At, Free

\* Moving on within the program keeps the lock.
LEMMA GotoKeeps ==
    ASSUME TypeOK, NEW r \in Requests, Inside(r), NEW pc \in Steps \ {"idle", "locking"},
           Goto(r, pc), daemon' = daemon, lock' = lock \/ lock' = [lock EXCEPT !.full = TRUE]
    PROVE  Keeps(r)
  BY DEF TypeOK, Inside, Keeps, Goto, Becomes

\* Every step leaves the lock with its one holder, if it has one.
LEMMA LockKeeps ==
    ASSUME IInv, [Next]_vars
    PROVE  Alive' /\ Exclusive'
<1>0. TypeOK
  BY DEF IInv
<1>1. ASSUME NEW r \in Requests, ReadOrdinal(r) PROVE Alive' /\ Exclusive'
  BY <1>1
  DEF IInv, TypeOK, Alive, Exclusive, Inside, ReadOrdinal, Becomes, At, Free, disk
<1>2. ASSUME NEW r \in Requests, Rejected(r) PROVE Alive' /\ Exclusive'
  BY <1>2, LeavesLock DEF Rejected, disk
<1>3. ASSUME NEW r \in Requests, CreateLock(r) PROVE Alive' /\ Exclusive'
  <2> DEFINE k == Len(issued')
  <2>1. k \in Nat /\ k # 0
    BY <1>3, <1>0 DEF TypeOK, CreateLock, Ordinal
  <2>2. lock' # Free /\ lock'.by = k /\ daemon' = daemon /\ daemon = "up"
    BY <1>3, <2>1 DEF IInv, CreateLock, Free, Alive, At
  <2>3. \A q \in Requests : ~Inside(q)
    BY <1>3 DEF IInv, Exclusive, CreateLock
  <2>4. /\ request'[r].by = k
        /\ \A q \in Requests : q # r => request'[q] = request[q]
    BY <1>3, <1>0 DEF TypeOK, CreateLock, Becomes
  <2> HIDE DEF k
  <2>5. QED BY <2>2, <2>3, <2>4 DEF Alive, Exclusive, Inside, At
<1>4. ASSUME NEW r \in Requests,
             FillLock(r) \/ OpenState(r) \/ AdvanceOrdinal(r) \/ Start(r) \/ OpenArtifact(r)
               \/ MarkRunning(r) \/ SourceAnswers(r) \/ SourceFails(r)
      PROVE  Alive' /\ Exclusive'
  <2>1. Keeps(r)
    BY <1>4, <1>0, GotoKeeps
    DEF FillLock, OpenState, AdvanceOrdinal, Start, OpenArtifact, MarkRunning, SourceAnswers,
        SourceFails, At, Inside, Steps, disk
  <2>2. QED BY <2>1, KeepsLock
<1>5. ASSUME NEW r \in Requests,
             CommitState(r) \/ LogCommit(r) \/ LogFailure(r) \/ MarkFailed(r)
      PROVE  Alive' /\ Exclusive'
  <2>1. Keeps(r)
    BY <1>5, <1>0, GotoKeeps
    DEF CommitState, LogCommit, LogFailure, MarkFailed, At, Inside, Steps
  <2>2. QED BY <2>1, KeepsLock
<1>6. ASSUME NEW r \in Requests,
             BeginCommit(r) \/ Save(r) \/ \E file \in CommitFiles : LandWrite(r, file)
      PROVE  Alive' /\ Exclusive'
  <2>1. CASE BeginCommit(r)
    BY <2>1, <1>0, KeepsLock DEF TypeOK, BeginCommit, Becomes, Keeps, Inside, At, disk
  <2>2. CASE Save(r)
    <3>1. request'[r].by = request[r].by /\ request'[r].pc \in {"writing", "failing"}
      <4>1. CASE Goto(r, "failing")
        BY <4>1, <1>0 DEF TypeOK, Goto, Becomes
      <4>2. CASE Becomes(r, [request[r] EXCEPT !.pc = "writing", !.left = CommitFiles])
        BY <4>2, <1>0 DEF TypeOK, Becomes
      <4>3. QED BY <2>2, <4>1, <4>2 DEF Save
    <3>2. Keeps(r)
      BY <2>2, <1>0, <3>1 DEF TypeOK, Save, Goto, Becomes, Keeps, Inside, At
    <3>3. QED BY <3>2, KeepsLock
  <2>3. ASSUME NEW file \in CommitFiles, LandWrite(r, file) PROVE Alive' /\ Exclusive'
    <3>1. request[r] \in [pc : Steps, by : Nat, ordinal : Nat, seen : StateType,
                           left : SUBSET CommitFiles]
      BY <1>0 DEF TypeOK
    <3>2. /\ request'[r].by = request[r].by
          /\ request'[r].pc \in {"writing", "commitOpen"}
      BY <2>3, <1>0, <3>1 DEF TypeOK, LandWrite, Becomes, At
    <3>3. Keeps(r)
      BY <2>3, <1>0, <3>2 DEF TypeOK, LandWrite, Becomes, Keeps, Inside, At
    <3>4. QED BY <3>3, KeepsLock
  <2>4. QED BY <1>6, <2>1, <2>2, <2>3
<1>7. ASSUME NEW r \in Requests, Release(r) PROVE Alive' /\ Exclusive'
  BY <1>7, LeavesLock DEF Release, At, Inside
<1>8. ASSUME NEW r \in Requests, OperationFails(r) PROVE Alive' /\ Exclusive'
  <2>1. Inside(r)
    BY <1>8 DEF OperationFails, Inside
  <2>2. CASE AfterFault(request[r].pc) = "idle"
    BY <1>8, <2>1, <2>2, LeavesLock DEF OperationFails
  <2>3. CASE AfterFault(request[r].pc) # "idle"
    <3>1. lock' = lock
      BY <1>8, <2>3 DEF OperationFails, AfterFault
    <3>2. AfterFault(request[r].pc) \in {"releasing", "failing", "failOpen"}
      BY <2>3 DEF AfterFault
    <3>3. Keeps(r)
      BY <1>8, <1>0, <2>1, <2>3, <3>1, <3>2 DEF TypeOK, OperationFails, Becomes, Keeps
    <3>4. QED BY <3>3, KeepsLock
  <2>4. QED BY <2>2, <2>3
<1>9. ASSUME NEW w \in late, LandLate(w) PROVE Alive' /\ Exclusive'
  BY <1>9 DEF IInv, Alive, Exclusive, LandLate, Inside, At
<1>10. CASE Crash
  BY <1>10 DEF Alive, Exclusive, Crash, Inside, At, Idle
<1>11. CASE Recovering
  <2>1. \A r \in Requests : ~Inside(r) /\ At(r, "idle")
    BY <1>11
    DEF IInv, Alive, Recovering, Boot, RecoverLog, RecoverMark, RecoverUnlock, Inside, At
  <2>2. request' = request
    BY <1>11 DEF Recovering, Boot, RecoverLog, RecoverMark, RecoverUnlock
  <2>3. QED BY <2>1, <2>2 DEF Alive, Exclusive, Inside, At
<1>12. CASE UNCHANGED vars
  BY <1>12 DEF IInv, Alive, Exclusive, Inside, At, vars, disk
<1>13. QED
  BY <1>1, <1>2, <1>3, <1>4, <1>5, <1>6, <1>7, <1>8, <1>9, <1>10, <1>11, <1>12
  DEF Next, Serve, Acquiring, Refreshing, Committing

-----------------------------------------------------------------------------
(* The snapshots                                                           *)

\* Snapshots only become more.
Grows == snapshots \subseteq snapshots'

\* When one request changes, the others stay saved.
LEMMA RequestsStaySaved ==
    ASSUME TypeOK, RequestsSaved, Grows, NEW r \in Requests, NEW q, Becomes(r, q),
           RequestSaved(q, snapshots')
    PROVE  RequestsSaved'
  BY DEF TypeOK, RequestsSaved, RequestSaved, SavedOrdinal, Grows, Becomes

\* Moving on keeps a request saved, unless it moves past its snapshot.
LEMMA GotoSaved ==
    ASSUME TypeOK, RequestsSaved, Grows, NEW r \in Requests, NEW pc \in Steps, Goto(r, pc),
           pc \in PastSave => request[r].pc \in PastSave
    PROVE  RequestsSaved'
<1> DEFINE q == [request[r] EXCEPT !.pc = pc]
<1>1. request[r] \in RequestType
  BY DEF TypeOK, RequestType
<1>2. q.pc = pc /\ q.ordinal = request[r].ordinal /\ q.by = request[r].by
        /\ q.seen = request[r].seen
  BY <1>1 DEF RequestType
<1>3. RequestSaved(request[r], snapshots)
  BY DEF RequestsSaved
<1>4. RequestSaved(q, snapshots')
  <2> HIDE DEF q
  <2> QED BY <1>2, <1>3 DEF RequestSaved, SavedOrdinal, Grows
<1>5. QED BY <1>4, RequestsStaySaved DEF Goto

\* A request that leaves has nothing to be saved.
LEMMA ReturnSaved ==
    ASSUME TypeOK, RequestsSaved, Grows, NEW r \in Requests, Return(r)
    PROVE  RequestsSaved'
<1>1. RequestSaved(Idle, snapshots')
  BY DEF RequestSaved, Idle, PastSave, DefaultState
<1>2. QED BY <1>1, RequestsStaySaved DEF Return

\* What is read of the state was saved.
LEMMA ReadSaved ==
    ASSUME TypeOK, ServedIsSaved, ReadState.committed # 0
    PROVE  SavedOrdinal(ReadState.committed, snapshots)
  BY DEF TypeOK, ServedIsSaved, ReadState, SavedOrdinal, DefaultState, NoState

\* Where no snapshot is added, one per ordinal stays one per ordinal.
LEMMA FrameSnapshots ==
    ASSUME OneSnapshotPerOrdinal, snapshots' = snapshots
    PROVE  OneSnapshotPerOrdinal' /\ Grows
  BY DEF OneSnapshotPerOrdinal, Grows

\* What the log and the late writes say stays saved when they do not change.
LEMMA FrameSaved ==
    ASSUME Grows, SuccessesSaved, LateSaved
    PROVE  /\ log' = log => SuccessesSaved'
           /\ late' = late => LateSaved'
  BY DEF Grows, SuccessesSaved, LateSaved, SavedBy

\* What is served stays saved when data and state do not change.
LEMMA FrameServed ==
    ASSUME Grows, ServedIsSaved, data' = data, state' = state
    PROVE  ServedIsSaved'
  BY DEF Grows, ServedIsSaved

\* Every step saves first.
LEMMA SavedKeeps ==
    ASSUME IInv, [Next]_vars
    PROVE  OneSnapshotPerOrdinal' /\ SavedFirst' /\ Grows
<1>0. /\ TypeOK /\ OneSnapshotPerOrdinal /\ RequestsSaved
      /\ SuccessesSaved /\ LateSaved /\ ServedIsSaved
  BY DEF IInv, SavedFirst
<1> DEFINE Goal == OneSnapshotPerOrdinal' /\ SavedFirst' /\ Grows
<1>1. ASSUME NEW r \in Requests, ReadOrdinal(r) PROVE Goal
  <2> DEFINE q == [request[r] EXCEPT !.pc = "locking", !.seen = ReadState,
                                     !.ordinal = ReadState.next]
  <2>1. q.pc = "locking" /\ q.seen = ReadState
    BY <1>0 DEF TypeOK
  <2>2. Grows /\ OneSnapshotPerOrdinal'
    BY <1>0, <1>1, FrameSnapshots DEF ReadOrdinal, disk
  <2>3. RequestSaved(q, snapshots')
    <3> HIDE DEF q
    <3> QED BY <1>0, <2>1, <2>2, ReadSaved DEF RequestSaved, PastSave, SavedOrdinal, Grows
  <2>4. RequestsSaved'
    BY <1>0, <1>1, <2>2, <2>3, RequestsStaySaved DEF ReadOrdinal
  <2>5. QED BY <1>0, <1>1, <2>2, <2>4, FrameSaved, FrameServed DEF ReadOrdinal, SavedFirst, disk
<1>2. ASSUME NEW r \in Requests, CreateLock(r) PROVE Goal
  <2> DEFINE q == [request[r] EXCEPT !.pc = "lockFill", !.by = Len(issued')]
  <2>1. q.pc = "lockFill" /\ q.seen = request[r].seen
    BY <1>0 DEF TypeOK
  <2>2. Grows /\ OneSnapshotPerOrdinal'
    BY <1>0, <1>2, FrameSnapshots DEF CreateLock
  <2>3. RequestSaved(request[r], snapshots)
    BY <1>0 DEF RequestsSaved
  <2>4. RequestSaved(q, snapshots')
    <3> HIDE DEF q
    <3> QED BY <2>1, <2>2, <2>3 DEF RequestSaved, PastSave, SavedOrdinal, Grows
  <2>5. RequestsSaved'
    BY <1>0, <1>2, <2>2, <2>4, RequestsStaySaved DEF CreateLock
  <2>6. QED BY <1>0, <1>2, <2>2, <2>5, FrameSaved, FrameServed DEF CreateLock, SavedFirst
<1>3. ASSUME NEW r \in Requests,
             FillLock(r) \/ Start(r) \/ OpenArtifact(r) \/ MarkRunning(r) \/ SourceAnswers(r)
               \/ SourceFails(r) \/ MarkFailed(r)
      PROVE  Goal
  <2>1. Grows /\ OneSnapshotPerOrdinal'
    BY <1>0, <1>3, FrameSnapshots
    DEF FillLock, Start, OpenArtifact, MarkRunning, SourceAnswers, SourceFails, MarkFailed, disk
  <2>2. RequestsSaved'
    BY <1>0, <1>3, <2>1, GotoSaved
    DEF FillLock, Start, OpenArtifact, MarkRunning, SourceAnswers, SourceFails, MarkFailed,
        PastSave, Steps
  <2>3. log' = log /\ late' = late /\ data' = data /\ state' = state
    BY <1>3
    DEF FillLock, Start, OpenArtifact, MarkRunning, SourceAnswers, SourceFails, MarkFailed, disk
  <2>4. QED BY <1>0, <2>1, <2>2, <2>3, FrameSaved, FrameServed DEF SavedFirst
<1>4. ASSUME NEW r \in Requests, OpenState(r) PROVE Goal
  <2>1. Grows /\ OneSnapshotPerOrdinal'
    BY <1>0, <1>4, FrameSnapshots DEF OpenState
  <2>2. RequestsSaved'
    BY <1>0, <1>4, <2>1, GotoSaved DEF OpenState, At, PastSave, Steps
  <2>3. ServedIsSaved'
    BY <1>0, <1>4 DEF ServedIsSaved, OpenState, NoState
  <2>4. QED BY <1>0, <1>4, <2>1, <2>2, <2>3, FrameSaved DEF OpenState, SavedFirst
<1>5. ASSUME NEW r \in Requests, AdvanceOrdinal(r) \/ CommitState(r) PROVE Goal
  <2>0. request[r] \in RequestType /\ RequestSaved(request[r], snapshots)
    BY <1>0 DEF TypeOK, RequestType, RequestsSaved
  <2>1. Grows /\ OneSnapshotPerOrdinal'
    BY <1>0, <1>5, FrameSnapshots DEF AdvanceOrdinal, CommitState
  <2>2. RequestsSaved'
    BY <1>0, <1>5, <2>1, GotoSaved DEF AdvanceOrdinal, CommitState, At, PastSave, Steps
  <2>3. state'.committed # 0 => SavedOrdinal(state'.committed, snapshots)
    <3>1. CASE AdvanceOrdinal(r)
      <4>1. state'.committed = request[r].seen.committed
        BY <3>1, <2>0 DEF AdvanceOrdinal, RequestType, StateType
      <4>2. QED BY <4>1, <2>0 DEF RequestSaved
    <3>2. CASE CommitState(r)
      BY <3>2, <2>0 DEF CommitState, RequestSaved, PastSave, SavedOrdinal, At, Ordinal
    <3>3. QED BY <1>5, <3>1, <3>2
  <2>4. snapshots' = snapshots /\ log' = log /\ late' = late /\ data' = data
    BY <1>5 DEF AdvanceOrdinal, CommitState
  <2>5. ServedIsSaved'
    BY <1>0, <2>3, <2>4 DEF ServedIsSaved, SavedOrdinal
  <2>6. QED BY <1>0, <2>1, <2>2, <2>4, <2>5, FrameSaved DEF SavedFirst
<1>6. ASSUME NEW r \in Requests, BeginCommit(r) PROVE Goal
  <2> DEFINE pc == IF artifact # "torn" /\ CanCommit(Ordinal(r), ReadState)
                   THEN "saving" ELSE "failing"
             q == [request[r] EXCEPT !.seen = ReadState, !.pc = pc]
  <2>1. q.pc \notin PastSave /\ q.seen = ReadState
    BY <1>0 DEF TypeOK, PastSave
  <2>2. Grows /\ OneSnapshotPerOrdinal'
    BY <1>0, <1>6, FrameSnapshots DEF BeginCommit, disk
  <2>3. RequestSaved(q, snapshots')
    <3> HIDE DEF q
    <3> QED BY <1>0, <2>1, <2>2, ReadSaved DEF RequestSaved, SavedOrdinal, Grows
  <2>4. RequestsSaved'
    BY <1>0, <1>6, <2>2, <2>3, RequestsStaySaved DEF BeginCommit
  <2>5. QED BY <1>0, <1>6, <2>2, <2>4, FrameSaved, FrameServed DEF BeginCommit, SavedFirst, disk
<1>7. ASSUME NEW r \in Requests, Save(r) PROVE Goal
  <2>1. CASE \E s \in snapshots : s.ordinal = Ordinal(r)
    <3>1. Grows /\ OneSnapshotPerOrdinal'
      BY <1>0, <1>7, <2>1, FrameSnapshots DEF Save
    <3>2. RequestsSaved'
      BY <1>0, <1>7, <2>1, <3>1, GotoSaved DEF Save, PastSave, Steps
    <3>3. QED BY <1>0, <1>7, <3>1, <3>2, FrameSaved, FrameServed DEF Save, SavedFirst
  <2>2. CASE ~ \E s \in snapshots : s.ordinal = Ordinal(r)
    <3> DEFINE new == [ordinal |-> Ordinal(r), by |-> request[r].by]
               q == [request[r] EXCEPT !.pc = "writing", !.left = CommitFiles]
    <3>1. snapshots' = snapshots \cup {new} /\ Grows
      BY <1>7, <2>2 DEF Save, Grows
    <3>2. OneSnapshotPerOrdinal'
      BY <1>0, <2>2, <3>1 DEF OneSnapshotPerOrdinal
    <3>3. /\ q.pc = "writing" /\ q.seen = request[r].seen
          /\ q.ordinal = Ordinal(r) /\ q.by = request[r].by
      BY <1>0 DEF TypeOK, Ordinal
    <3>4. RequestSaved(request[r], snapshots)
      BY <1>0 DEF RequestsSaved
    <3>5. RequestSaved(q, snapshots')
      <4> HIDE DEF q
      <4> QED BY <3>1, <3>3, <3>4 DEF RequestSaved, SavedOrdinal, Grows
    <3>6. RequestsSaved'
      BY <1>0, <1>7, <2>2, <3>1, <3>5, RequestsStaySaved DEF Save
    <3>7. QED
      BY <1>0, <1>7, <3>1, <3>2, <3>6, FrameSaved, FrameServed DEF Save, SavedFirst
  <2>3. QED BY <2>1, <2>2
<1>8. ASSUME NEW r \in Requests, NEW file \in CommitFiles, LandWrite(r, file) PROVE Goal
  <2> DEFINE q == [request[r] EXCEPT
                     !.left = @ \ {file},
                     !.pc = IF request[r].left = {file} THEN "commitOpen" ELSE @]
  <2>1. Grows /\ OneSnapshotPerOrdinal'
    BY <1>0, <1>8, FrameSnapshots DEF LandWrite
  <2>2. RequestSaved(request[r], snapshots) /\ request[r].pc = "writing"
    BY <1>0, <1>8 DEF RequestsSaved, LandWrite, At
  <2>3. q.seen = request[r].seen /\ q.ordinal = request[r].ordinal /\ q.by = request[r].by
    BY <1>0 DEF TypeOK
  <2>4. RequestSaved(q, snapshots')
    <3> HIDE DEF q
    <3> QED BY <2>1, <2>2, <2>3 DEF RequestSaved, PastSave, SavedOrdinal, Grows
  <2>5. RequestsSaved'
    BY <1>0, <1>8, <2>1, <2>4, RequestsStaySaved DEF LandWrite
  <2>6. SavedBy(request[r].by, snapshots)
    BY <2>2 DEF RequestSaved, PastSave, SavedBy
  <2>7. ServedIsSaved'
    BY <1>0, <1>8, <2>6 DEF ServedIsSaved, LandWrite, Land, SavedBy
  <2>8. QED BY <1>0, <1>8, <2>1, <2>5, <2>7, FrameSaved DEF LandWrite, SavedFirst
<1>9. ASSUME NEW r \in Requests, LogCommit(r) \/ LogFailure(r) PROVE Goal
  <2>1. Grows /\ OneSnapshotPerOrdinal'
    BY <1>0, <1>9, FrameSnapshots DEF LogCommit, LogFailure
  <2>2. RequestsSaved'
    BY <1>0, <1>9, <2>1, GotoSaved DEF LogCommit, LogFailure, PastSave, Steps
  <2>3. RequestSaved(request[r], snapshots)
    BY <1>0 DEF RequestsSaved
  <2>4. SuccessesSaved'
    <3>1. CASE LogCommit(r)
      BY <1>0, <3>1, <2>3
      DEF SuccessesSaved, LogCommit, Entry, RequestSaved, PastSave, At, Ordinal
    <3>2. CASE LogFailure(r)
      BY <1>0, <3>2 DEF SuccessesSaved, LogFailure, Entry
    <3>3. QED BY <1>9, <3>1, <3>2
  <2>5. late' = late /\ data' = data /\ state' = state
    BY <1>9 DEF LogCommit, LogFailure
  <2>6. QED BY <1>0, <2>1, <2>2, <2>4, <2>5, FrameSaved, FrameServed DEF SavedFirst
<1>10. ASSUME NEW r \in Requests, Rejected(r) \/ Release(r) PROVE Goal
  <2>1. Grows /\ OneSnapshotPerOrdinal'
    BY <1>0, <1>10, FrameSnapshots DEF Rejected, Release, disk
  <2>2. RequestsSaved'
    BY <1>0, <1>10, <2>1, ReturnSaved DEF Rejected, Release
  <2>3. log' = log /\ late' = late /\ data' = data /\ state' = state
    BY <1>10 DEF Rejected, Release, disk
  <2>4. QED BY <1>0, <2>1, <2>2, <2>3, FrameSaved, FrameServed DEF SavedFirst
<1>11. ASSUME NEW r \in Requests, OperationFails(r) PROVE Goal
  <2> DEFINE q == [request[r] EXCEPT !.pc = AfterFault(@), !.left = {}]
  <2>0. request[r] \in RequestType /\ RequestSaved(request[r], snapshots)
    BY <1>0 DEF TypeOK, RequestType, RequestsSaved
  <2>1. Grows /\ OneSnapshotPerOrdinal'
    BY <1>0, <1>11, FrameSnapshots DEF OperationFails
  <2>2. q.pc \notin PastSave /\ q.seen = request[r].seen
    BY <2>0 DEF RequestType, AfterFault, PastSave
  <2>3. RequestSaved(q, snapshots')
    <3> HIDE DEF q
    <3> QED BY <2>0, <2>1, <2>2 DEF RequestSaved, SavedOrdinal, Grows
  <2>4. RequestsSaved'
    <3>1. CASE Return(r)
      BY <1>0, <2>1, <3>1, ReturnSaved
    <3>2. CASE Becomes(r, q)
      BY <1>0, <2>1, <2>3, <3>2, RequestsStaySaved
    <3>3. QED BY <1>11, <3>1, <3>2 DEF OperationFails
  <2>5. LateSaved'
    <3>1. CASE At(r, "writing")
      <4>1. SavedBy(request[r].by, snapshots)
        BY <2>0, <3>1 DEF RequestSaved, PastSave, SavedBy, At
      <4>2. \A w \in late' : w \in late \/ w.by = request[r].by
        BY <1>11 DEF OperationFails
      <4>3. snapshots' = snapshots
        BY <1>11 DEF OperationFails
      <4>4. QED BY <1>0, <4>1, <4>2, <4>3 DEF LateSaved
    <3>2. CASE ~At(r, "writing")
      BY <1>0, <1>11, <3>2, FrameSaved, <2>1 DEF OperationFails
    <3>3. QED BY <3>1, <3>2
  <2>6. log' = log /\ data' = data /\ state' = state
    BY <1>11 DEF OperationFails
  <2>7. QED BY <1>0, <2>1, <2>4, <2>5, <2>6, FrameSaved, FrameServed DEF SavedFirst
<1>12. ASSUME NEW w \in late, LandLate(w) PROVE Goal
  <2>1. Grows /\ OneSnapshotPerOrdinal'
    BY <1>0, <1>12, FrameSnapshots DEF LandLate
  <2>2. SavedBy(w.by, snapshots)
    BY <1>0 DEF LateSaved
  <2>3. ServedIsSaved'
    BY <1>0, <1>12, <2>2 DEF ServedIsSaved, LandLate, Land, SavedBy
  <2>4. RequestsSaved' /\ LateSaved'
    BY <1>0, <1>12 DEF RequestsSaved, LateSaved, LandLate
  <2>5. QED BY <1>0, <1>12, <2>1, <2>3, <2>4, FrameSaved DEF LandLate, SavedFirst
<1>13. CASE Crash
  <2>1. Grows /\ OneSnapshotPerOrdinal'
    BY <1>0, <1>13, FrameSnapshots DEF Crash, disk
  <2>2. RequestsSaved' /\ LateSaved'
    BY <1>13
    DEF RequestsSaved, RequestSaved, LateSaved, Crash, Idle, PastSave, DefaultState
  <2>3. QED
    BY <1>0, <1>13, <2>1, <2>2, FrameSaved, FrameServed DEF Crash, SavedFirst, disk
<1>14. CASE Recovering
  <2>1. Grows /\ OneSnapshotPerOrdinal'
    BY <1>0, <1>14, FrameSnapshots
    DEF Recovering, Boot, RecoverLog, RecoverMark, RecoverUnlock, disk
  <2>2. /\ request' = request /\ snapshots' = snapshots /\ late' = late
        /\ data' = data /\ state' = state
    BY <1>14 DEF Recovering, Boot, RecoverLog, RecoverMark, RecoverUnlock, disk
  <2>3. RequestsSaved'
    BY <1>0, <2>2 DEF RequestsSaved
  <2>4. \A e \in log' : e \in log \/ e.outcome = "failed"
    BY <1>14 DEF Recovering, Boot, RecoverLog, RecoverMark, RecoverUnlock, disk
  <2>5. SuccessesSaved'
    BY <1>0, <2>2, <2>4 DEF SuccessesSaved
  <2>6. QED BY <1>0, <2>1, <2>2, <2>3, <2>5, FrameSaved, FrameServed DEF SavedFirst
<1>15. CASE UNCHANGED vars
  <2>1. Grows /\ OneSnapshotPerOrdinal'
    BY <1>0, <1>15, FrameSnapshots DEF vars, disk
  <2>2. RequestsSaved'
    BY <1>0, <1>15 DEF RequestsSaved, vars, disk
  <2>3. QED BY <1>0, <1>15, <2>1, <2>2, FrameSaved, FrameServed DEF SavedFirst, vars, disk
<1>16. QED
  BY <1>1, <1>2, <1>3, <1>4, <1>5, <1>6, <1>7, <1>8, <1>9, <1>10, <1>11, <1>12, <1>13, <1>14,
     <1>15
  DEF Next, Serve, Acquiring, Refreshing, Committing

-----------------------------------------------------------------------------
(* Who is shown to be running                                              *)

\* Request r has nothing left to do to the artifact: it has landed its
\* success, marked its failure or left a torn file alone.
Settled(r) ==
    \/ request[r].pc \in {"commitOpen", "commitFill", "logging", "failFill", "releasing"}
    \/ At(r, "writing") /\ "artifact" \notin request[r].left

\* While no file operation has failed, an artifact that shows "running" has a
\* lock, and it stops showing it before the lock can go: by the one who holds
\* it, or by the recovery.
Attended ==
    faults = 0 =>
        /\ late = {}
        /\ artifact = "running" => lock # Free
        /\ daemon = "unlocking" => artifact = "failed"
        /\ \A r \in Requests : Settled(r) => artifact # "running"

\* The one who holds the lock answers for the artifact.
LEMMA HolderAttends ==
    ASSUME Exclusive', NEW r \in Requests, Inside(r)', late' = {},
           Settled(r)' => artifact' # "running"
    PROVE  Attended'
<1>1. daemon' = "up" /\ lock' # Free
  BY DEF Exclusive
<1>2. ASSUME NEW q \in Requests, Settled(q)' PROVE artifact' # "running"
  <2>1. Inside(q)'
    BY <1>2 DEF Settled, Inside, At
  <2>2. q = r
    BY <2>1 DEF Exclusive
  <2>3. QED BY <1>2, <2>2
<1>3. QED BY <1>1, <1>2 DEF Attended

\* Moving on is at the step named.
LEMMA GotoArrives ==
    ASSUME TypeOK, NEW r \in Requests, NEW pc, Goto(r, pc)
    PROVE  request'[r].pc = pc
  BY DEF TypeOK, Goto, Becomes

\* A step that leaves the files alone and lets nobody settle.
LEMMA OthersAttend ==
    ASSUME Attended, faults = 0, late' = {}, artifact' = artifact, lock' = lock,
           daemon' # "unlocking" \/ daemon' = daemon,
           \A r \in Requests : Settled(r)' => Settled(r)
    PROVE  Attended'
  BY DEF Attended

\* Every step keeps a running artifact attended.
LEMMA AttendedKeeps ==
    ASSUME IInv, Attended, [Next]_vars
    PROVE  Attended'
<1> SUFFICES ASSUME faults' = 0 PROVE Attended'
  BY DEF Attended
<1>0. TypeOK /\ TypeOK' /\ Exclusive /\ Exclusive' /\ Alive
  BY TypeKeeps, LockKeeps DEF IInv
<1>1. faults = 0 /\ \A r \in Requests : ~OperationFails(r)
  <2>1. ASSUME NEW r \in Requests, OperationFails(r) PROVE FALSE
    BY <1>0, <2>1 DEF OperationFails, TypeOK
  <2>2. faults' = faults \/ \E r \in Requests : OperationFails(r)
    BY DEF Next, Serve, Acquiring, Refreshing, Committing, Recovering, ReadOrdinal, SourceAnswers,
           Rejected, CreateLock, FillLock, OpenState, AdvanceOrdinal, Start, OpenArtifact,
           MarkRunning, SourceFails, LogFailure, MarkFailed, Release, BeginCommit, Save,
           CommitState, LogCommit, LandWrite, LandLate, Crash, Boot, RecoverLog, RecoverMark,
           RecoverUnlock, vars, count
  <2>3. QED BY <2>1, <2>2
<1>2. /\ late = {}
      /\ artifact = "running" => lock # Free
      /\ daemon = "unlocking" => artifact = "failed"
      /\ \A r \in Requests : Settled(r) => artifact # "running"
  BY <1>1 DEF Attended
<1>3. ASSUME NEW r \in Requests, ReadOrdinal(r) \/ Rejected(r) PROVE Attended'
  <2>1. /\ request'[r].pc \in {"locking", "idle"}
        /\ \A q \in Requests : q # r => request'[q] = request[q]
    <3>1. CASE ReadOrdinal(r)
      BY <1>0, <3>1 DEF ReadOrdinal, Becomes, TypeOK
    <3>2. CASE Rejected(r)
      BY <1>0, <3>2 DEF Rejected, Return, Becomes, Idle, TypeOK
    <3>3. QED BY <1>3, <3>1, <3>2
  <2>a. \A q \in Requests : Settled(q)' => Settled(q)
    BY <2>1 DEF Settled, At
  <2>2. late' = {} /\ artifact' = artifact /\ lock' = lock /\ daemon' = daemon
    BY <1>2, <1>3 DEF ReadOrdinal, Rejected, disk
  <2>3. QED BY <1>1, <2>2, <2>a, OthersAttend
<1>4. ASSUME NEW r \in Requests,
             CreateLock(r) \/ FillLock(r) \/ OpenState(r) \/ AdvanceOrdinal(r) \/ CommitState(r)
      PROVE  Attended'
  <2>0. \/ request'[r].pc \in {"lockFill", "stateOpen", "stateFill", "starting"}
        \/ Settled(r) /\ request'[r].pc \in {"commitFill", "logging"}
    <3>1. CASE CreateLock(r)
      BY <1>0, <3>1 DEF CreateLock, Becomes, TypeOK
    <3>2. CASE ~CreateLock(r)
      BY <1>0, <1>4, <3>2, GotoArrives
      DEF FillLock, OpenState, AdvanceOrdinal, CommitState, Settled, At
    <3>3. QED BY <3>1, <3>2
  <2>1. Inside(r)'
    BY <2>0 DEF Inside
  <2>2. Settled(r)' => Settled(r)
    BY <2>0 DEF Settled, At
  <2>3. late' = {} /\ artifact' = artifact
    BY <1>2, <1>4 DEF CreateLock, FillLock, OpenState, AdvanceOrdinal, CommitState
  <2>4. QED BY <1>0, <1>2, <2>1, <2>2, <2>3, HolderAttends
<1>5. ASSUME NEW r \in Requests,
             Start(r) \/ MarkRunning(r) \/ SourceAnswers(r) \/ SourceFails(r) \/ LogFailure(r)
               \/ BeginCommit(r)
      PROVE  Attended'
  <2>0. /\ artifact' = "torn" \/ request'[r].pc # "releasing"
        /\ request'[r].pc \in {"releasing", "runOpen", "fetching", "committing", "failing",
                               "failOpen", "saving"}
    <3>1. CASE BeginCommit(r)
      BY <1>0, <3>1 DEF BeginCommit, Becomes, TypeOK
    <3>2. CASE ~BeginCommit(r)
      BY <1>0, <1>5, <3>2, GotoArrives
      DEF Start, MarkRunning, SourceAnswers, SourceFails, LogFailure, disk
    <3>3. QED BY <3>1, <3>2
  <2>1. Inside(r)'
    BY <2>0 DEF Inside
  <2>2. Settled(r)' => artifact' # "running"
    BY <2>0 DEF Settled, At
  <2>3. late' = {}
    BY <1>2, <1>5
    DEF Start, MarkRunning, SourceAnswers, SourceFails, LogFailure, BeginCommit
  <2>4. QED BY <1>0, <2>1, <2>2, <2>3, HolderAttends
<1>6. ASSUME NEW r \in Requests, OpenArtifact(r) \/ MarkFailed(r) \/ LogCommit(r) PROVE Attended'
  <2>1. Inside(r)'
    <3>1. request'[r].pc \in {"runFill", "failFill", "releasing"}
      BY <1>0, <1>6, GotoArrives DEF OpenArtifact, MarkFailed, LogCommit
    <3>2. QED BY <3>1 DEF Inside
  <2>2. artifact' # "running"
    BY <1>2, <1>6 DEF OpenArtifact, MarkFailed, LogCommit, Fill, Settled, At
  <2>3. late' = {}
    BY <1>2, <1>6 DEF OpenArtifact, MarkFailed, LogCommit
  <2>4. QED BY <1>0, <2>1, <2>2, <2>3, HolderAttends
<1>7. ASSUME NEW r \in Requests, Save(r) PROVE Attended'
  <2>0. \/ request'[r].pc = "failing"
        \/ At(r, "writing")' /\ request'[r].left = CommitFiles
    <3>1. CASE Goto(r, "failing")
      <4>1. request'[r].pc = "failing"
        BY <1>0, <3>1, GotoArrives
      <4>2. QED BY <4>1
    <3>2. CASE Becomes(r, [request[r] EXCEPT !.pc = "writing", !.left = CommitFiles])
      BY <1>0, <3>2 DEF Becomes, At, TypeOK
    <3>3. QED BY <1>7, <3>1, <3>2 DEF Save
  <2>1. Inside(r)'
    BY <2>0 DEF Inside, At
  <2>2. ~Settled(r)'
    BY <2>0 DEF Settled, At, CommitFiles
  <2>3. late' = {}
    BY <1>2, <1>7 DEF Save
  <2>4. QED BY <1>0, <2>1, <2>2, <2>3, HolderAttends
<1>8. ASSUME NEW r \in Requests, NEW file \in CommitFiles, LandWrite(r, file) PROVE Attended'
  <2>1. /\ request'[r].pc \in {"writing", "commitOpen"}
        /\ request'[r].left = request[r].left \ {file}
        /\ request'[r].pc = "commitOpen" => request[r].left = {file}
    BY <1>0, <1>8 DEF LandWrite, Becomes, At, TypeOK
  <2>2. Inside(r)'
    BY <2>1 DEF Inside
  <2>3. ASSUME Settled(r)', file # "artifact" PROVE artifact' # "running"
    <3>1. "artifact" \notin request[r].left
      BY <2>1, <2>3 DEF Settled, At
    <3>2. Settled(r)
      BY <1>8, <3>1 DEF Settled, LandWrite
    <3>3. QED BY <1>2, <1>8, <2>3, <3>2 DEF LandWrite, Land
  <2>4. Settled(r)' => artifact' # "running"
    BY <1>8, <2>3 DEF LandWrite, Land
  <2>5. late' = {}
    BY <1>2, <1>8 DEF LandWrite
  <2>6. QED BY <1>0, <2>2, <2>4, <2>5, HolderAttends
<1>9. ASSUME NEW r \in Requests, Release(r) PROVE Attended'
  <2>1. daemon' = "up" /\ late' = {}
    BY <1>0, <1>2, <1>9 DEF Release, Alive, At
  <2>2. artifact' # "running"
    BY <1>2, <1>9 DEF Release, Settled, At
  <2>3. QED BY <2>1, <2>2 DEF Attended
<1>10. ASSUME NEW w \in late, LandLate(w) PROVE Attended'
  BY <1>2, <1>10
<1>11. CASE Crash
  <2>1. \A q \in Requests : ~Settled(q)'
    BY <1>11 DEF Crash, Settled, At, Idle
  <2>2. late' = {} /\ artifact' = artifact /\ lock' = lock /\ daemon' = "down"
    BY <1>11 DEF Crash, disk
  <2>3. QED BY <1>1, <2>1, <2>2, OthersAttend
<1>12. CASE Boot \/ RecoverLog \/ UNCHANGED vars
  <2>1. /\ late' = {} /\ artifact' = artifact /\ lock' = lock /\ request' = request
        /\ daemon' # "unlocking" \/ daemon' = daemon
    BY <1>2, <1>12 DEF Boot, RecoverLog, vars, disk
  <2>2. \A q \in Requests : Settled(q)' => Settled(q)
    BY <2>1 DEF Settled, At
  <2>3. QED BY <1>1, <2>1, <2>2, OthersAttend
<1>13. CASE RecoverMark \/ RecoverUnlock
  <2>1. /\ late' = {} /\ artifact' # "running"
        /\ daemon' = "unlocking" => artifact' = "failed"
    BY <1>2, <1>13 DEF RecoverMark, RecoverUnlock
  <2>2. QED BY <2>1 DEF Attended
<1>14. QED
  BY <1>1, <1>3, <1>4, <1>5, <1>6, <1>7, <1>8, <1>9, <1>10, <1>11, <1>12, <1>13
  DEF Next, Serve, Acquiring, Refreshing, Committing, Recovering

-----------------------------------------------------------------------------
(* The theorems                                                            *)

\* At first nobody is served and nothing is saved, and nothing says so.
LEMMA InitHolds ==
    ASSUME Init
    PROVE  IInv
<1>1. TypeOK
  BY DEF Init, TypeOK, Free, DefaultState, Idle, Steps, StateType, CommitFiles
<1>2. Alive /\ Exclusive
  BY DEF Init, Alive, Exclusive, Inside, At, Idle
<1>3. OneSnapshotPerOrdinal /\ RequestsSaved /\ SuccessesSaved /\ LateSaved /\ ServedIsSaved
  BY DEF Init, OneSnapshotPerOrdinal, RequestsSaved, RequestSaved, SuccessesSaved, LateSaved,
         ServedIsSaved, Idle, DefaultState, PastSave
<1>4. QED BY <1>1, <1>2, <1>3 DEF IInv, SavedFirst

\* The inductive invariant: types, the lock with its one holder, and
\* everything saved before it is used.
THEOREM Invariance == Spec => []IInv
<1>1. IInv /\ [Next]_vars => IInv'
  <2> SUFFICES ASSUME IInv, [Next]_vars PROVE IInv'
    OBVIOUS
  <2>1. TypeOK'
    BY TypeKeeps DEF IInv
  <2>2. QED BY <2>1, LockKeeps, SavedKeeps DEF IInv
<1>2. QED BY InitHolds, <1>1, PTL DEF Spec

\* The files and the requests are well typed, whatever crashes and fails.
THEOREM TypeCorrect == Spec => []TypeOK
<1>1. IInv => TypeOK
  BY DEF IInv
<1>2. QED BY Invariance, <1>1, PTL

\* At most one refresh runs at a time, and under its own lock.
THEOREM MutualExclusion == Spec => []Exclusive
<1>1. IInv => Exclusive
  BY DEF IInv
<1>2. QED BY Invariance, <1>1, PTL

\* No refreshId is recorded as successful for two refreshes, though it may be
\* given to two.
THEOREM SuccessIsUnique == Spec => []OneSuccessPerOrdinal
<1>1. IInv => OneSuccessPerOrdinal
  <2> SUFFICES ASSUME IInv, NEW e \in log, NEW f \in log, e.outcome = "succeeded",
                      f.outcome = "succeeded", e.ordinal = f.ordinal
               PROVE  e.by = f.by
    BY DEF OneSuccessPerOrdinal
  <2>1. /\ [ordinal |-> e.ordinal, by |-> e.by] \in snapshots
        /\ [ordinal |-> f.ordinal, by |-> f.by] \in snapshots
    BY DEF IInv, SavedFirst, SuccessesSaved
  <2>2. [ordinal |-> e.ordinal, by |-> e.by] = [ordinal |-> f.ordinal, by |-> f.by]
    BY <2>1 DEF IInv, OneSnapshotPerOrdinal
  <2>3. QED BY <2>2
<1>2. QED BY Invariance, <1>1, PTL

\* What is served, and what is remembered as committed, is in the history.
THEOREM NothingUnsaved == Spec => []ServedIsSaved
<1>1. IInv => ServedIsSaved
  BY DEF IInv, SavedFirst
<1>2. QED BY Invariance, <1>1, PTL

\* The history is only added to.
THEOREM HistoryStands == Spec => SnapshotsStand
<1>1. IInv /\ [Next]_vars =>
        [/\ snapshots \subseteq snapshots'
         /\ \A s \in snapshots', t \in snapshots : s.ordinal = t.ordinal => s = t]_vars
  <2> SUFFICES ASSUME IInv, [Next]_vars
               PROVE  /\ snapshots \subseteq snapshots'
                      /\ \A s \in snapshots', t \in snapshots : s.ordinal = t.ordinal => s = t
    OBVIOUS
  <2>1. OneSnapshotPerOrdinal' /\ Grows
    BY SavedKeeps
  <2>2. QED BY <2>1 DEF OneSnapshotPerOrdinal, Grows
<1>2. QED BY Invariance, <1>1, PTL DEF Spec, SnapshotsStand

\* Unless a file operation has failed, an artifact that shows "running" while
\* requests are served has a lock: its refresh holds it, or a crash left it,
\* and the boot that followed skipped it.
THEOREM RunningIsLocked == Spec => []RunningMeansLocked
<1>1. Init => Attended
  BY DEF Init, Attended, Settled, At, Idle
<1>2. IInv /\ Attended /\ [Next]_vars => Attended'
  BY AttendedKeeps
<1>3. Attended => RunningMeansLocked
  BY DEF Attended, RunningMeansLocked
<1>4. QED BY Invariance, <1>1, <1>2, <1>3, PTL DEF Spec

-----------------------------------------------------------------------------
(* The turns                                                               *)

BeforeSave == {"lockFill", "stateOpen", "stateFill", "starting", "runOpen", "runFill",
               "fetching", "committing", "saving"}

\* Whose turn it is has the last lock that was taken, and has saved nothing
\* yet while it is before its snapshot: the snapshots are of earlier turns.
Turned ==
    /\ \A r \in Requests : Inside(r) => request[r].by = Len(issued) /\ Len(issued) # 0
    /\ \A r \in Requests : request[r].pc \in BeforeSave =>
           \A s \in snapshots : s.by < Len(issued)
    /\ \A s \in snapshots : s.by <= Len(issued)

\* A request goes on with its turn, or is out of it.
Follows(r) ==
    request'[r].pc \notin {"idle", "locking"} =>
        /\ Inside(r)
        /\ request'[r].by = request[r].by
        /\ request'[r].pc \in BeforeSave => request[r].pc \in BeforeSave

Moves == \A r \in Requests : Follows(r)

\* A step that readers do not see, but for the end of a turn.
Unseen == Moves /\ UNCHANGED <<issued, snapshots, data, Recorded>>

\* One request changes.
LEMMA BecomesMoves ==
    ASSUME TypeOK, NEW r \in Requests, NEW q, Becomes(r, q),
           q.pc \notin {"idle", "locking"} =>
               /\ Inside(r) /\ q.by = request[r].by
               /\ q.pc \in BeforeSave => request[r].pc \in BeforeSave
    PROVE  Moves
<1>1. request'[r] = q /\ \A p \in Requests \ {r} : request'[p] = request[p]
  BY DEF TypeOK, Becomes
<1>2. QED
  BY <1>1 DEF Moves, Follows, Inside

\* One request goes on within its turn.
LEMMA GotoMoves ==
    ASSUME TypeOK, NEW r \in Requests, Inside(r), NEW pc, Goto(r, pc),
           pc \in BeforeSave => request[r].pc \in BeforeSave
    PROVE  Moves
<1>1. /\ [request[r] EXCEPT !.pc = pc].pc = pc
      /\ [request[r] EXCEPT !.pc = pc].by = request[r].by
  BY DEF TypeOK
<1>2. QED
  BY <1>1, BecomesMoves DEF Goto

\* One request answers, which ends its turn if it has one.
LEMMA ReturnMoves ==
    ASSUME TypeOK, NEW r \in Requests, Return(r)
    PROVE  Moves
  BY BecomesMoves DEF Return, Idle

\* What an entry of the log records.
LEMMA FailureUnrecorded ==
    ASSUME NEW e, e.outcome = "failed", log' = log \cup {e}
    PROVE  Recorded' = Recorded
  BY DEF Recorded

LEMMA SuccessRecorded ==
    ASSUME NEW e, e.outcome = "succeeded", log' = log \cup {e}
    PROVE  Recorded' = Recorded \cup {[ordinal |-> e.ordinal, by |-> e.by]}
  BY DEF Recorded

\* Most steps of a request.
LEMMA MostUnseen ==
    ASSUME TypeOK, NEW r \in Requests,
           \/ ReadOrdinal(r) \/ Rejected(r) \/ FillLock(r) \/ OpenState(r)
           \/ AdvanceOrdinal(r) \/ Start(r) \/ OpenArtifact(r) \/ MarkRunning(r)
           \/ SourceAnswers(r) \/ SourceFails(r) \/ BeginCommit(r) \/ CommitState(r)
           \/ LogFailure(r) \/ MarkFailed(r) \/ Release(r) \/ OperationFails(r)
    PROVE  Unseen
<1>1. CASE ReadOrdinal(r)
  <2> DEFINE q == [request[r] EXCEPT !.pc = "locking", !.seen = ReadState,
                                     !.ordinal = ReadState.next]
  <2>1. q.pc = "locking"
    BY DEF TypeOK
  <2> HIDE DEF q
  <2>2. Becomes(r, q) /\ UNCHANGED <<issued, snapshots, data, log>>
    BY <1>1 DEF ReadOrdinal, disk, count, q
  <2>3. QED
    BY <2>1, <2>2, BecomesMoves DEF Unseen, Recorded
<1>2. CASE Rejected(r) \/ Release(r)
  <2>1. Return(r) /\ UNCHANGED <<issued, snapshots, data, log>>
    BY <1>2 DEF Rejected, Release, disk, count
  <2>2. QED
    BY <2>1, ReturnMoves DEF Unseen, Recorded
<1>3. CASE \/ FillLock(r) \/ OpenState(r) \/ AdvanceOrdinal(r) \/ Start(r)
           \/ OpenArtifact(r) \/ MarkRunning(r) \/ SourceAnswers(r) \/ SourceFails(r) \/ CommitState(r)
           \/ MarkFailed(r)
  <2>1. UNCHANGED <<issued, snapshots, data, log>>
    BY <1>3 DEF FillLock, OpenState, AdvanceOrdinal, Start, OpenArtifact, MarkRunning,
                SourceAnswers, SourceFails, CommitState, MarkFailed, disk, count
  <2>2. Moves
    BY <1>3, GotoMoves
    DEF FillLock, OpenState, AdvanceOrdinal, Start, OpenArtifact, MarkRunning,
        SourceAnswers, SourceFails, CommitState, MarkFailed, At, Inside, BeforeSave
  <2>3. QED
    BY <2>1, <2>2 DEF Unseen, Recorded
<1>4. CASE LogFailure(r)
  <2>1. Moves
    BY <1>4, GotoMoves DEF LogFailure, At, Inside, BeforeSave
  <2>2. Recorded' = Recorded
    BY <1>4, FailureUnrecorded DEF LogFailure, Entry
  <2>3. QED
    BY <1>4, <2>1, <2>2 DEF LogFailure, Unseen, count
<1>5. CASE BeginCommit(r)
  <2> DEFINE pc == IF artifact # "torn" /\ CanCommit(Ordinal(r), ReadState)
                   THEN "saving" ELSE "failing"
             q == [request[r] EXCEPT !.seen = ReadState, !.pc = pc]
  <2>1. q.pc = pc /\ q.by = request[r].by
    BY DEF TypeOK
  <2>2. Inside(r) /\ request[r].pc \in BeforeSave
    BY <1>5 DEF BeginCommit, At, Inside, BeforeSave
  <2>3. Becomes(r, q) /\ UNCHANGED <<issued, snapshots, data, log>>
    BY <1>5 DEF BeginCommit, disk, count
  <2> HIDE DEF q
  <2>4. QED
    BY <2>1, <2>2, <2>3, BecomesMoves DEF Unseen, Recorded
<1>6. CASE OperationFails(r)
  <2> DEFINE q == [request[r] EXCEPT !.pc = AfterFault(@), !.left = {}]
  <2>1. q.pc = AfterFault(request[r].pc) /\ q.by = request[r].by
    BY DEF TypeOK
  <2>2. Inside(r) /\ AfterFault(request[r].pc) \notin BeforeSave
    BY <1>6 DEF OperationFails, Inside, AfterFault, BeforeSave
  <2>3. Return(r) \/ Becomes(r, q)
    BY <1>6 DEF OperationFails
  <2> HIDE DEF q
  <2>4. Moves
    BY <2>1, <2>2, <2>3, BecomesMoves, ReturnMoves
  <2>5. QED
    BY <1>6, <2>4 DEF OperationFails, Unseen, Recorded
<1>7. QED
  BY <1>1, <1>2, <1>3, <1>4, <1>5, <1>6

\* The daemon's own.
LEMMA DaemonUnseen ==
    ASSUME TypeOK, Crash \/ Recovering \/ UNCHANGED vars
    PROVE  Unseen
<1>1. CASE Crash
  BY <1>1 DEF Crash, Unseen, Moves, Follows, Idle, disk, Recorded
<1>2. CASE Recovering
  <2>1. request' = request /\ UNCHANGED <<issued, snapshots, data>>
    BY <1>2 DEF Recovering, Boot, RecoverLog, RecoverMark, RecoverUnlock, disk, count
  <2>2. Recorded' = Recorded
    <3>1. CASE RecoverLog
      BY <3>1, FailureUnrecorded DEF RecoverLog
    <3>2. CASE log' = log
      BY <3>2 DEF Recorded
    <3>3. QED
      BY <1>2, <3>1, <3>2 DEF Recovering, Boot, RecoverMark, RecoverUnlock, disk
  <2>3. QED
    BY <2>1, <2>2 DEF Unseen, Moves, Follows, Inside
<1>3. CASE UNCHANGED vars
  BY <1>3 DEF vars, disk, count, Unseen, Moves, Follows, Inside, Recorded
<1>4. QED
  BY <1>1, <1>2, <1>3

\* The steps that readers see leave the turn on: a file of the commit lands, the
\* success is logged, the snapshot is saved.
LEMMA LandMoves ==
    ASSUME TypeOK, NEW r \in Requests, NEW file \in CommitFiles, LandWrite(r, file)
    PROVE  Moves /\ request'[r].by = request[r].by /\ Inside(r) /\ Inside(r)'
<1> DEFINE pc == IF request[r].left = {file} THEN "commitOpen" ELSE "writing"
           q == [request[r] EXCEPT
                    !.left = @ \ {file},
                    !.pc = IF request[r].left = {file} THEN "commitOpen" ELSE @]
<1>1. request[r].pc = "writing" /\ Becomes(r, q)
  BY DEF LandWrite, At
<1>2. q.pc = pc /\ q.by = request[r].by
  BY <1>1 DEF TypeOK
<1>3. request'[r] = q
  BY <1>1 DEF TypeOK, Becomes
<1> HIDE DEF q
<1>4. Inside(r) /\ Inside(r)' /\ q.pc \notin BeforeSave
  BY <1>1, <1>2, <1>3 DEF Inside, BeforeSave
<1>5. QED
  BY <1>1, <1>2, <1>3, <1>4, BecomesMoves

\* The second of them.
LEMMA CommitMoves ==
    ASSUME TypeOK, NEW r \in Requests, LogCommit(r)
    PROVE  Moves /\ request'[r].by = request[r].by /\ Inside(r) /\ Inside(r)'
<1>1. Inside(r)
  BY DEF LogCommit, At, Inside
<1>2. Moves
  BY <1>1, GotoMoves DEF LogCommit, BeforeSave
<1>3. request'[r] = [request[r] EXCEPT !.pc = "releasing"]
  BY DEF TypeOK, LogCommit, Goto, Becomes
<1>4. QED
  BY <1>1, <1>2, <1>3 DEF TypeOK, Inside

\* The third: s is the snapshot that request r saves.
Saves(r, s) ==
    /\ s = [ordinal |-> Ordinal(r), by |-> request[r].by]
    /\ At(r, "saving") /\ ~ \E t \in snapshots : t.ordinal = s.ordinal
    /\ snapshots' = snapshots \cup {s}
    /\ request'[r].pc = "writing" /\ request'[r].by = request[r].by
    /\ UNCHANGED <<issued, data, Recorded>>

\* An attempt to save saves it, unless its ordinal is used.
LEMMA SaveSaves ==
    ASSUME TypeOK, NEW r \in Requests, Save(r)
    PROVE  Moves /\ (Unseen \/ \E s : Saves(r, s))
<1>1. At(r, "saving") /\ Inside(r)
  BY DEF Save, At, Inside
<1>2. CASE \E s \in snapshots : s.ordinal = Ordinal(r)
  <2>1. Moves
    BY <1>1, <1>2, GotoMoves DEF Save, BeforeSave
  <2>2. QED
    BY <1>2, <2>1 DEF Save, Unseen, Recorded, count
<1>3. CASE ~ \E s \in snapshots : s.ordinal = Ordinal(r)
  <2> DEFINE q == [request[r] EXCEPT !.pc = "writing", !.left = CommitFiles]
             s == [ordinal |-> Ordinal(r), by |-> request[r].by]
  <2>1. q.pc = "writing" /\ q.by = request[r].by
    BY DEF TypeOK
  <2>2. /\ Becomes(r, q) /\ snapshots' = snapshots \cup {s}
        /\ UNCHANGED <<issued, data, log>>
    BY <1>3 DEF Save, count
  <2>3. request'[r] = q
    BY <2>2 DEF TypeOK, Becomes
  <2> HIDE DEF q
  <2>4. Moves
    BY <1>1, <2>1, <2>2, BecomesMoves DEF BeforeSave
  <2>5. Saves(r, s)
    BY <1>1, <1>3, <2>1, <2>2, <2>3 DEF Saves, Recorded
  <2>6. QED
    BY <2>4, <2>5
<1>4. QED
  BY <1>2, <1>3

\* The kinds of steps, as readers see them.
LEMMA StepKinds ==
    ASSUME TypeOK, [Next]_vars
    PROVE  \/ Unseen
           \/ \E r \in Requests : CreateLock(r)
           \/ Moves /\ \E r \in Requests, s \in [ordinal : Nat, by : Nat] : Saves(r, s)
           \/ Moves /\ \E r \in Requests : (\E file \in CommitFiles : LandWrite(r, file))
           \/ Moves /\ \E w \in late : LandLate(w)
           \/ Moves /\ \E r \in Requests : LogCommit(r)
<1>1. ASSUME NEW w \in late, LandLate(w) PROVE Moves
  BY <1>1 DEF LandLate, Moves, Follows, Inside
<1>2. ASSUME NEW r \in Requests, NEW s, Saves(r, s) PROVE s \in [ordinal : Nat, by : Nat]
  BY <1>2 DEF Saves, TypeOK, Ordinal
<1>3. QED
  BY <1>1, <1>2, MostUnseen, DaemonUnseen, LandMoves, CommitMoves, SaveSaves
     DEF Next, Serve, Acquiring, Refreshing, Committing

\* The turn is that of the one who holds the lock.
LEMMA TurnIs ==
    ASSUME Exclusive
    PROVE  /\ \A r \in Requests : Inside(r) => Turn = request[r].by
           /\ (\A r \in Requests : ~Inside(r)) => Turn = 0
  BY DEF Turn, Exclusive

\* A turn stays the same or ends.
LEMMA TurnGoesOn ==
    ASSUME Exclusive, Exclusive', Moves
    PROVE  /\ Turn' = Turn \/ Turn' = 0
           /\ \A r \in Requests : Inside(r)' => Turn' = Turn
<1>1. /\ \A r \in Requests : Inside(r)' => Turn' = request'[r].by
      /\ (\A r \in Requests : ~Inside(r)') => Turn' = 0
  BY DEF Turn, Exclusive
<1>2. \A r \in Requests : Inside(r)' => Inside(r) /\ request'[r].by = request[r].by
  BY DEF Moves, Follows, Inside
<1>3. QED
  BY <1>1, <1>2, TurnIs

\* Turned is inductive beside the invariant of the refresh.
LEMMA TurnedKeeps ==
    ASSUME IInv, Turned, [Next]_vars
    PROVE  Turned'
<1>1. TypeOK /\ Exclusive /\ Len(issued) \in Nat /\ \A s \in snapshots : s.by \in Nat
  BY DEF IInv, TypeOK
<1>2. CASE Moves /\ UNCHANGED <<issued, snapshots>>
  <2>1. \A r \in Requests : request'[r].pc \in BeforeSave => request[r].pc \in BeforeSave
    BY <1>2 DEF Moves, Follows, BeforeSave
  <2>2. \A r \in Requests : Inside(r)' => Inside(r) /\ request'[r].by = request[r].by
    BY <1>2 DEF Moves, Follows, Inside
  <2>3. QED
    BY <1>2, <2>1, <2>2 DEF Turned
<1>3. ASSUME NEW r \in Requests, CreateLock(r) PROVE Turned'
  <2>1. Len(issued') = Len(issued) + 1 /\ snapshots' = snapshots
    BY <1>3, <1>1 DEF CreateLock, TypeOK, Ordinal
  <2>2. /\ request'[r].by = Len(issued')
        /\ \A q \in Requests \ {r} : request'[q] = request[q]
    BY <1>3, <1>1 DEF TypeOK, CreateLock, Becomes
  <2>3. \A q \in Requests : ~Inside(q)
    BY <1>3 DEF IInv, Exclusive, CreateLock
  <2>4. \A q \in Requests \ {r} : ~Inside(q)'
    BY <2>2, <2>3 DEF Inside
  <2>5. \A s \in snapshots' : s.by < Len(issued')
    BY <1>1, <2>1 DEF Turned
  <2>6. QED
    BY <1>1, <2>1, <2>2, <2>4, <2>5 DEF Turned, Inside, BeforeSave
<1>4. ASSUME Moves, NEW r \in Requests, NEW s \in [ordinal : Nat, by : Nat], Saves(r, s)
      PROVE  Turned'
  <2>1. Inside(r) /\ s.by = Len(issued)
    BY <1>4 DEF Saves, At, Inside, Turned
  <2>2. \A q \in Requests \ {r} : ~Inside(q)'
    BY <1>1, <1>4, <2>1 DEF Exclusive, Moves, Follows, Inside
  <2>3. \A q \in Requests : request'[q].pc \notin BeforeSave
    BY <1>4, <2>2 DEF Saves, Inside, BeforeSave
  <2>4. \A t \in snapshots' : t.by <= Len(issued)
    BY <1>1, <1>4, <2>1 DEF Saves, Turned
  <2>5. QED
    BY <1>4, <2>1, <2>2, <2>3, <2>4 DEF Saves, Turned, Inside
<1>5. QED
  BY <1>1, <1>2, <1>3, <1>4, StepKinds DEF Unseen, LandWrite, LandLate, LogCommit, count

\* Refreshes take turns, and what is saved, served and recorded comes of them:
\* every step of the routes, of the file operations that fail or land late, of a
\* crash and of the recovery is a step of RefreshTurns or none that readers see
\* (store.ts 785 to 1029, refresh-service.ts 75 to 239).
THEOREM Refinement == Spec => ImplementsTurns
<1>1. Init => Turned /\ Turns!Init
  BY DEF Init, Turned, Turns!Init, Turn, Recorded, Inside, Idle, BeforeSave
<1>2. IInv /\ IInv' /\ Turned /\ [Next]_vars => [Turns!Next]_(Turns!vars)
  <2> SUFFICES ASSUME IInv, IInv', Turned, [Next]_vars
               PROVE  Turns!Next \/ UNCHANGED Turns!vars
    OBVIOUS
  <2>1. TypeOK /\ Exclusive /\ Exclusive' /\ SuccessesSaved /\ RequestsSaved /\ LateSaved
    BY DEF IInv, SavedFirst
  <2>2. Moves => Turn' = Turn \/ Turn' = 0
    BY <2>1, TurnGoesOn
  <2>3. CASE Unseen
    BY <2>2, <2>3 DEF Unseen, Turns!Next, Turns!End, Turns!vars
  <2>4. ASSUME NEW r \in Requests, CreateLock(r) PROVE Turns!Next
    <3>1. Len(issued') = Len(issued) + 1 /\ UNCHANGED <<snapshots, data, Recorded>>
      BY <2>1, <2>4 DEF CreateLock, TypeOK, Ordinal, Recorded
    <3>2. Turn = 0
      BY <2>1, <2>4, TurnIs DEF CreateLock, Exclusive
    <3>3. request'[r].by = Len(issued') /\ request'[r].pc = "lockFill"
      BY <2>1, <2>4 DEF TypeOK, CreateLock, Becomes
    <3>4. Turn' = Len(issued')
      BY <2>1, <3>3 DEF Turn, Exclusive, Inside
    <3>5. QED
      BY <3>1, <3>2, <3>4 DEF Turns!Next, Turns!Begin
  <2>5. ASSUME Moves, NEW r \in Requests, NEW s \in [ordinal : Nat, by : Nat], Saves(r, s)
        PROVE  Turns!Next
    <3>1. Inside(r) /\ Inside(r)' /\ s.by = request[r].by
      BY <2>5 DEF Saves, At, Inside
    <3>2. Turn = s.by /\ Turn' = Turn
      BY <2>1, <2>5, <3>1, TurnIs, TurnGoesOn
    <3>3. Turn # 0 /\ \A t \in snapshots : t.by < Turn /\ t.ordinal # s.ordinal
      BY <2>5, <3>1, <3>2 DEF Turned, Saves, At, BeforeSave
    <3>4. s \in snapshots' /\ Turns!Save(s)
      BY <2>5, <3>2, <3>3 DEF Turns!Save, Saves
    <3>5. QED
      BY <3>4 DEF Turns!Next
  <2>6. ASSUME NEW r \in Requests, NEW file \in CommitFiles, LandWrite(r, file)
        PROVE  Turns!Next \/ UNCHANGED Turns!vars
    <3>1. Turn' = Turn
      BY <2>1, <2>6, LandMoves, TurnGoesOn
    <3>2. UNCHANGED <<issued, snapshots, Recorded>>
      BY <2>6 DEF LandWrite, Recorded, count
    <3>3. [ordinal |-> Ordinal(r), by |-> request[r].by] \in snapshots
      BY <2>1, <2>6 DEF RequestsSaved, RequestSaved, PastSave, LandWrite, At, Ordinal
    <3>4. data' = data \/ data' = request[r].by
      BY <2>6 DEF LandWrite, Land
    <3>5. QED
      BY <3>1, <3>2, <3>3, <3>4 DEF Turns!Next, Turns!Serve, Turns!vars
  <2>7. ASSUME Moves, NEW w \in late, LandLate(w)
        PROVE  Turns!Next \/ UNCHANGED Turns!vars
    <3>1. Turn' = Turn
      BY <2>7 DEF LandLate, Turn, Inside
    <3>2. UNCHANGED <<issued, snapshots, Recorded>>
      BY <2>7 DEF LandLate, Recorded, count
    <3>3. PICK s \in snapshots : s.by = w.by
      BY <2>1 DEF LateSaved, SavedBy
    <3>4. data' = data \/ data' = s.by
      BY <2>7, <3>3 DEF LandLate, Land
    <3>5. QED
      BY <3>1, <3>2, <3>3, <3>4 DEF Turns!Next, Turns!Serve, Turns!vars
  <2>8. ASSUME NEW r \in Requests, LogCommit(r) PROVE Turns!Next
    <3> DEFINE s == [ordinal |-> Ordinal(r), by |-> request[r].by]
    <3>1. Turn' = Turn /\ Turn = s.by
      BY <2>1, <2>8, CommitMoves, TurnGoesOn, TurnIs
    <3>2. UNCHANGED <<issued, snapshots, data>>
      BY <2>8 DEF LogCommit, count
    <3>3. s \in snapshots
      BY <2>1, <2>8 DEF RequestsSaved, RequestSaved, PastSave, LogCommit, At, Ordinal
    <3>4. Recorded' = Recorded \cup {s}
      <4> DEFINE e == Entry(r, "succeeded")
      <4>1. e.outcome = "succeeded" /\ s = [ordinal |-> e.ordinal, by |-> e.by]
        BY DEF Entry
      <4>2. log' = log \cup {e}
        BY <2>8 DEF LogCommit
      <4> HIDE DEF e, s
      <4>3. QED
        BY <4>1, <4>2, SuccessRecorded
    <3>5. QED
      BY <3>1, <3>2, <3>3, <3>4 DEF Turns!Next, Turns!Record
  <2>9. QED
    BY <2>1, <2>3, <2>4, <2>5, <2>6, <2>7, <2>8, StepKinds
<1>3. QED
  BY Invariance, <1>1, <1>2, TurnedKeeps, PTL DEF Spec, ImplementsTurns, Turns!Spec

=============================================================================
