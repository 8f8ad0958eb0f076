------------------------ MODULE LiveArtifactRefresh ------------------------
(***************************************************************************)
(* The refresh of one live artifact (apps/daemon/src/live-artifacts/       *)
(* store.ts, refresh-service.ts): requests that race for a lock file, take *)
(* an ordinal, fetch, commit file by file and release; a daemon that may   *)
(* crash between any two file operations and recovers the lock when it     *)
(* boots.  A step is what happens between two awaits.  writeFile() is two  *)
(* steps, for it truncates before it writes; writeFileAtomic() and the     *)
(* rename of a snapshot directory are one.                                 *)
(*                                                                         *)
(* The artifact is never deleted or edited here, and the generated preview *)
(* and the provenance, written like data.json, are not told apart from it. *)
(***************************************************************************)
EXTENDS Integers, Sequences, FiniteSets

CONSTANTS
    Requests,     \* slots for refresh requests being served at a time
    MaxAttempts,  \* bound: locks taken or being taken
    MaxCrashes,   \* bound: crashes of the daemon
    MaxFaults     \* bound: file operations that fail

ASSUME RefreshAssumption ==
    /\ MaxAttempts \in Nat /\ MaxCrashes \in Nat /\ MaxFaults \in Nat

VARIABLES
    daemon,     \* "up", "down", or where the recovery at boot is
    lock,       \* refresh.lock.json: its lockId, ordinal, and whether it was written
    state,      \* refresh-state.json
    artifact,   \* artifact.json: its refreshStatus, or "torn"
    data,       \* data.json: the lockId of the refresh that wrote it, 0 at first
    snapshots,  \* the directories under snapshots/
    log,        \* refreshes.jsonl: the outcomes in it
    request,    \* request[r]: where a request is and what it has read
    late,       \* renames of a commit that was given up, still on their way
    issued,     \* the ordinals of the locks taken, in order; lockIds index it
    crashes, faults

disk  == <<lock, state, artifact, data, snapshots, log>>
count == <<issued, crashes, faults>>
vars  == <<daemon, disk, request, late, count>>

Free == [by |-> 0, ordinal |-> 0, full |-> FALSE]

NoState      == [next |-> 0, committed |-> 0]   \* truncated, not yet written
DefaultState == [next |-> 1, committed |-> 0]

\* Blank text reads as the default state.
ReadState == IF state = NoState THEN DefaultState ELSE state

CommitFiles == {"artifact", "data"}

Idle == [pc |-> "idle", by |-> 0, ordinal |-> 0, seen |-> DefaultState, left |-> {}]

Ordinal(r) == request[r].ordinal

\* refreshId and lockId of request r, as its log entries carry them.
Entry(r, outcome) == [by |-> request[r].by, ordinal |-> Ordinal(r), outcome |-> outcome]

Init ==
    /\ daemon = "up"
    /\ lock = Free
    /\ state = DefaultState
    /\ artifact = "idle"
    /\ data = 0
    /\ snapshots = {}
    /\ log = {}
    /\ request = [r \in Requests |-> Idle]
    /\ late = {}
    /\ issued = <<>>
    /\ crashes = 0
    /\ faults = 0

At(r, pc) == request[r].pc = pc

Becomes(r, q) == request' = [request EXCEPT ![r] = q]

Goto(r, pc) == Becomes(r, [request[r] EXCEPT !.pc = pc])

Return(r) == Becomes(r, Idle)

\* A plain write truncates the file and then fills it; what was renamed over
\* the file in between stays.
Fill(status) == artifact' = IF artifact = "torn" THEN status ELSE artifact

-----------------------------------------------------------------------------
(* Acquiring: the state is read before the lock is taken                   *)

ReadOrdinal(r) ==
    /\ daemon = "up" /\ At(r, "idle") /\ artifact # "torn"
    /\ Len(issued) + Cardinality({q \in Requests : At(q, "locking")}) < MaxAttempts
    /\ Becomes(r, [request[r] EXCEPT !.pc = "locking", !.seen = ReadState,
                                     !.ordinal = ReadState.next])
    /\ UNCHANGED <<daemon, disk, late, count>>

\* writeFile with flag "wx": EEXIST rejects the request.
Rejected(r) ==
    /\ At(r, "locking") /\ lock # Free
    /\ Return(r)
    /\ UNCHANGED <<daemon, disk, late, count>>

\* mutant: the lock is written with flag "w"
CreateLockOverwriting(r) ==
    /\ At(r, "locking")
    /\ issued' = Append(issued, Ordinal(r))
    /\ lock' = [by |-> Len(issued'), ordinal |-> Ordinal(r), full |-> FALSE]
    /\ Becomes(r, [request[r] EXCEPT !.pc = "lockFill", !.by = Len(issued')])
    /\ UNCHANGED <<daemon, state, artifact, data, snapshots, log, late, crashes, faults>>

CreateLock(r) ==
    /\ At(r, "locking") /\ lock = Free
    /\ issued' = Append(issued, Ordinal(r))
    /\ lock' = [by |-> Len(issued'), ordinal |-> Ordinal(r), full |-> FALSE]
    /\ Becomes(r, [request[r] EXCEPT !.pc = "lockFill", !.by = Len(issued')])
    /\ UNCHANGED <<daemon, state, artifact, data, snapshots, log, late, crashes, faults>>

FillLock(r) ==
    /\ At(r, "lockFill")
    /\ lock' = [lock EXCEPT !.full = TRUE]
    /\ Goto(r, "stateOpen")
    /\ UNCHANGED <<daemon, state, artifact, data, snapshots, log, late, count>>

\* Both writes of refresh-state.json: at acquire, and at the end of a commit.
OpenState(r) ==
    /\ request[r].pc \in {"stateOpen", "commitOpen"}
    /\ state' = NoState
    /\ Goto(r, IF At(r, "stateOpen") THEN "stateFill" ELSE "commitFill")
    /\ UNCHANGED <<daemon, lock, artifact, data, snapshots, log, late, count>>

AdvanceOrdinal(r) ==
    /\ At(r, "stateFill")
    /\ state' = [request[r].seen EXCEPT !.next = Ordinal(r) + 1]
    /\ Goto(r, "starting")
    /\ UNCHANGED <<daemon, lock, artifact, data, snapshots, log, late, count>>

-----------------------------------------------------------------------------
(* refreshLiveArtifact under the lock                                      *)

\* The two steps before the try: what fails here is not marked failed.
Start(r) ==
    /\ At(r, "starting")
    /\ Goto(r, IF artifact = "torn" THEN "releasing" ELSE "runOpen")
    /\ UNCHANGED <<daemon, disk, late, count>>

OpenArtifact(r) ==
    /\ request[r].pc \in {"runOpen", "failOpen"}
    /\ artifact' = "torn"
    /\ Goto(r, IF At(r, "runOpen") THEN "runFill" ELSE "failFill")
    /\ UNCHANGED <<daemon, lock, state, data, snapshots, log, late, count>>

MarkRunning(r) ==
    /\ At(r, "runFill")
    /\ Fill("running")
    /\ Goto(r, "fetching")
    /\ UNCHANGED <<daemon, lock, state, data, snapshots, log, late, count>>

SourceAnswers(r) ==
    /\ At(r, "fetching") /\ artifact # "torn"
    /\ Goto(r, "committing")
    /\ UNCHANGED <<daemon, disk, late, count>>

\* mutant: nothing bounds the wait for the source
SourceFailsUntimed(r) ==
    /\ At(r, "fetching") /\ artifact = "torn"
    /\ Goto(r, "failing")
    /\ UNCHANGED <<daemon, disk, late, count>>

\* No source, no permission, an error of the source, or either timeout.
SourceFails(r) ==
    /\ At(r, "fetching")
    /\ Goto(r, "failing")
    /\ UNCHANGED <<daemon, disk, late, count>>

Later(m, n) == IF m > n THEN m ELSE n

CanCommit(ordinal, st) == ordinal < st.next /\ st.committed < ordinal

BeginCommit(r) ==
    /\ At(r, "committing")
    /\ Becomes(r, [request[r] EXCEPT
           !.seen = ReadState,
           !.pc = IF artifact # "torn" /\ CanCommit(Ordinal(r), ReadState)
                  THEN "saving" ELSE "failing"])
    /\ UNCHANGED <<daemon, disk, late, count>>

\* mutant: a directory that is there is removed first
SaveReplacing(r) ==
    /\ At(r, "saving")
    /\ Becomes(r, [request[r] EXCEPT !.pc = "writing", !.left = CommitFiles])
    /\ snapshots' = {s \in snapshots : s.ordinal # Ordinal(r)}
                        \cup {[ordinal |-> Ordinal(r), by |-> request[r].by]}
    /\ UNCHANGED <<daemon, lock, state, artifact, data, log, late, count>>

\* mutant: a directory that is there is taken for the snapshot
SaveTrusting(r) ==
    /\ At(r, "saving")
    /\ Becomes(r, [request[r] EXCEPT !.pc = "writing", !.left = CommitFiles])
    /\ snapshots' = IF \E s \in snapshots : s.ordinal = Ordinal(r) THEN snapshots
                    ELSE snapshots \cup {[ordinal |-> Ordinal(r), by |-> request[r].by]}
    /\ UNCHANGED <<daemon, lock, state, artifact, data, log, late, count>>

\* The rename of the temporary directory fails on a directory that is there.
Save(r) ==
    /\ At(r, "saving")
    /\ IF \E s \in snapshots : s.ordinal = Ordinal(r)
       THEN /\ Goto(r, "failing")
            /\ UNCHANGED snapshots
       ELSE /\ Becomes(r, [request[r] EXCEPT !.pc = "writing", !.left = CommitFiles])
            /\ snapshots' = snapshots \cup {[ordinal |-> Ordinal(r), by |-> request[r].by]}
    /\ UNCHANGED <<daemon, lock, state, artifact, data, log, late, count>>

\* One of the atomic writes of a commit lands.
Land(file, by) ==
    /\ artifact' = IF file = "artifact" THEN "succeeded" ELSE artifact
    /\ data' = IF file = "data" THEN by ELSE data

LandWrite(r, file) ==
    /\ At(r, "writing") /\ file \in request[r].left
    /\ Land(file, request[r].by)
    /\ Becomes(r, [request[r] EXCEPT
           !.left = @ \ {file},
           !.pc = IF request[r].left = {file} THEN "commitOpen" ELSE @])
    /\ UNCHANGED <<daemon, lock, state, snapshots, log, late, count>>

CommitState(r) ==
    /\ At(r, "commitFill")
    /\ state' = [next |-> Later(request[r].seen.next, Ordinal(r) + 1), committed |-> Ordinal(r)]
    /\ Goto(r, "logging")
    /\ UNCHANGED <<daemon, lock, artifact, data, snapshots, log, late, count>>

LogCommit(r) ==
    /\ At(r, "logging")
    /\ log' = log \cup {Entry(r, "succeeded")}
    /\ Goto(r, "releasing")
    /\ UNCHANGED <<daemon, lock, state, artifact, data, snapshots, late, count>>

\* mutant: the failure is logged and not marked
LogFailureOnly(r) ==
    /\ At(r, "failing")
    /\ log' = log \cup {Entry(r, "failed")}
    /\ Goto(r, "releasing")
    /\ UNCHANGED <<daemon, lock, state, artifact, data, snapshots, late, count>>

\* The catch: log, then mark failed; what fails here is ignored.
LogFailure(r) ==
    /\ At(r, "failing")
    /\ log' = log \cup {Entry(r, "failed")}
    /\ Goto(r, IF artifact = "torn" THEN "releasing" ELSE "failOpen")
    /\ UNCHANGED <<daemon, lock, state, artifact, data, snapshots, late, count>>

MarkFailed(r) ==
    /\ At(r, "failFill")
    /\ Fill("failed")
    /\ Goto(r, "releasing")
    /\ UNCHANGED <<daemon, lock, state, data, snapshots, log, late, count>>

\* The lock is removed only by the one whose lockId is in it.
Release(r) ==
    /\ At(r, "releasing")
    /\ lock' = IF lock.by = request[r].by THEN Free ELSE lock
    /\ Return(r)
    /\ UNCHANGED <<daemon, state, artifact, data, snapshots, log, late, count>>

-----------------------------------------------------------------------------
(* What goes wrong: file operations, the daemon                            *)

AfterFault(pc) ==
    CASE pc \in {"lockFill", "stateOpen", "stateFill", "releasing"} -> "idle"
      [] pc \in {"starting", "runOpen", "runFill", "failOpen", "failFill"} -> "releasing"
      [] pc = "failing" -> IF artifact = "torn" THEN "releasing" ELSE "failOpen"
      [] OTHER -> "failing"

\* A file operation of r fails.  Only a failed write of the state takes the
\* lock back; a commit gives up at its first failed write, the others go on.
\* One that fails during recovery leaves what a crash there leaves.
OperationFails(r) ==
    /\ faults < MaxFaults /\ faults' = faults + 1
    /\ request[r].pc \notin {"idle", "locking", "fetching"}
    /\ lock' = IF request[r].pc \in {"stateOpen", "stateFill"} THEN Free ELSE lock
    /\ IF AfterFault(request[r].pc) = "idle"
       THEN Return(r)
       ELSE Becomes(r, [request[r] EXCEPT !.pc = AfterFault(@), !.left = {}])
    /\ IF At(r, "writing")
       THEN \E failed \in request[r].left :
               late' = late \cup [file : request[r].left \ {failed}, by : {request[r].by}]
       ELSE UNCHANGED late
    /\ UNCHANGED <<daemon, state, artifact, data, snapshots, log, issued, crashes>>

LandLate(w) ==
    /\ w \in late
    /\ Land(w.file, w.by)
    /\ late' = late \ {w}
    /\ UNCHANGED <<daemon, lock, state, snapshots, log, request, count>>

Crash ==
    /\ daemon # "down" /\ crashes < MaxCrashes
    /\ daemon' = "down"
    /\ crashes' = crashes + 1
    /\ request' = [r \in Requests |-> Idle]
    /\ late' = {}
    /\ UNCHANGED <<disk, issued, faults>>

\* A lock that is not old enough, or is torn, or whose artifact is torn, is
\* skipped: requests are served with the lock still there.
Boot ==
    /\ daemon = "down"
    /\ daemon' \in IF lock.full /\ artifact # "torn" THEN {"up", "recovering"} ELSE {"up"}
    /\ UNCHANGED <<disk, request, late, count>>

RecoverLog ==
    /\ daemon = "recovering"
    /\ log' = log \cup {[by |-> lock.by, ordinal |-> lock.ordinal, outcome |-> "failed"]}
    /\ daemon' = "markOpen"
    /\ UNCHANGED <<lock, state, artifact, data, snapshots, request, late, count>>

RecoverMark ==
    /\ daemon \in {"markOpen", "markFill"}
    /\ artifact' = IF daemon = "markOpen" THEN "torn" ELSE "failed"
    /\ daemon' = IF daemon = "markOpen" THEN "markFill" ELSE "unlocking"
    /\ UNCHANGED <<lock, state, data, snapshots, log, request, late, count>>

RecoverUnlock ==
    /\ daemon = "unlocking"
    /\ lock' = Free
    /\ daemon' = "up"
    /\ UNCHANGED <<state, artifact, data, snapshots, log, request, late, count>>

-----------------------------------------------------------------------------

Acquiring(r) ==
    Rejected(r) \/ CreateLock(r) \/ FillLock(r) \/ OpenState(r) \/ AdvanceOrdinal(r)

Refreshing(r) ==
    \/ Start(r) \/ OpenArtifact(r) \/ MarkRunning(r) \/ SourceFails(r)
    \/ LogFailure(r) \/ MarkFailed(r) \/ Release(r)

Committing(r) ==
    \/ BeginCommit(r) \/ Save(r) \/ CommitState(r) \/ LogCommit(r)
    \/ \E file \in CommitFiles : LandWrite(r, file)

Recovering == Boot \/ RecoverLog \/ RecoverMark \/ RecoverUnlock

\* What a request does by itself; new requests and sources that answer are
\* left to the world.
Serve(r) == Acquiring(r) \/ Refreshing(r) \/ Committing(r)

Next ==
    \/ \E r \in Requests : ReadOrdinal(r) \/ SourceAnswers(r) \/ Serve(r) \/ OperationFails(r)
    \/ \E w \in late : LandLate(w)
    \/ Crash
    \/ Recovering

Spec == Init /\ [][Next]_vars

\* File operations return, and the timeouts of refresh.ts end every fetch.
FairSpec == Spec /\ \A r \in Requests : WF_vars(Serve(r))

-----------------------------------------------------------------------------
(* Properties                                                              *)

Steps == {"idle", "locking", "lockFill", "stateOpen", "stateFill", "starting", "runOpen",
          "runFill", "fetching", "committing", "saving", "writing", "commitOpen",
          "commitFill", "logging", "failing", "failOpen", "failFill", "releasing"}

StateType == [next : Nat, committed : Nat]

\* Every variable has its type.
TypeOK ==
    /\ daemon \in {"up", "down", "recovering", "markOpen", "markFill", "unlocking"}
    /\ lock \in [by : Nat, ordinal : Nat, full : BOOLEAN]
    /\ state \in StateType
    /\ artifact \in {"torn", "idle", "running", "succeeded", "failed"}
    /\ data \in Nat
    /\ snapshots \subseteq [ordinal : Nat, by : Nat]
    /\ log \subseteq [by : Nat, ordinal : Nat, outcome : {"succeeded", "failed"}]
    /\ request \in [Requests -> [pc : Steps, by : Nat, ordinal : Nat, seen : StateType,
                                 left : SUBSET CommitFiles]]
    /\ late \subseteq [file : CommitFiles, by : Nat]
    /\ issued \in Seq(Nat)
    /\ crashes \in Nat /\ faults \in Nat

\* Request r is between taking the lock and giving it back.
Inside(r) == request[r].pc \notin {"idle", "locking"}

\* One refresh of an artifact at a time, and while it runs the lock file is
\* its own: no crash, failed write or recovery lets a second one in.
Exclusive ==
    \A r \in Requests : Inside(r) =>
        /\ daemon = "up"
        /\ lock # Free /\ lock.by = request[r].by
        /\ \A q \in Requests : Inside(q) => q = r

\* Although an ordinal may be given out twice, no two refreshes are recorded
\* as successful under one refreshId: the snapshot directory of the first
\* makes the second fail (store.ts, writeLiveArtifactSuccessfulSnapshot).
OneSuccessPerOrdinal ==
    \A e, f \in log :
        e.outcome = "succeeded" /\ f.outcome = "succeeded" /\ e.ordinal = f.ordinal
            => e.by = f.by

\* A snapshot is history: it is neither removed nor replaced by a later
\* refresh of the same ordinal.
SnapshotsStand ==
    [][/\ snapshots \subseteq snapshots'
       /\ \A s \in snapshots', t \in snapshots : s.ordinal = t.ordinal => s = t]_vars

\* Whatever data.json holds, and whatever refresh-state.json says was
\* committed, was saved as a snapshot before: a crash between any two writes
\* never leaves data that is in no history.
ServedIsSaved ==
    /\ data # 0 => \E s \in snapshots : s.by = data
    /\ state.committed # 0 => \E s \in snapshots : s.ordinal = state.committed

\* While no file operation has failed, an artifact that shows "running" to a
\* daemon that serves requests has a lock: that of its refresh or, after a
\* crash, the one a later boot can recover it by.  It may show "running" with
\* nobody refreshing it, for a boot skips a lock that is young or torn
\* (recoverStaleLiveArtifactRefreshes).
RunningMeansLocked ==
    daemon = "up" /\ artifact = "running" /\ faults = 0 => lock # Free

\* Refreshes take turns, and what is saved, served and recorded comes of them
\* as RefreshTurns says, whatever is torn, late, lost in a crash or given out
\* twice.
Turn == IF \E r \in Requests : Inside(r)
        THEN request[CHOOSE r \in Requests : Inside(r)].by ELSE 0
Recorded == {[ordinal |-> e.ordinal, by |-> e.by] :
                 e \in {f \in log : f.outcome = "succeeded"}}
Turns == INSTANCE RefreshTurns WITH
    taken <- Len(issued), turn <- Turn,
    saved <- snapshots, served <- data, recorded <- Recorded
ImplementsTurns == Turns!Spec

\* Every request is answered: a source that never answers is timed out.
RefreshEnds == \A r \in Requests : ~At(r, "idle") ~> At(r, "idle")

\* Said of the code by spec.md, section 8.2: "Assign a monotonic refreshId".
\* The ordinal is read before the lock is taken, and may be given out twice.
OrdinalsGrow ==
    \A j, k \in 1 .. Len(issued) : j < k => issued[j] < issued[k]

=============================================================================
