---------------------------- MODULE RefreshTurns ----------------------------
(***************************************************************************)
(* What the refresh of a live artifact promises to those who read it:      *)
(* refreshes take turns; each saves at most one snapshot, in its own turn  *)
(* and under an ordinal nobody has used; what is served is a snapshot, and *)
(* what is recorded as a success is the snapshot of the turn.  Which of    *)
(* the snapshots is served is left open, for the writes of a commit that   *)
(* was given up may land in a later turn.  LiveArtifactRefresh implements  *)
(* it, with a lock file, a crashing daemon and file operations that fail.  *)
(***************************************************************************)
EXTENDS Naturals

VARIABLES
    taken,    \* turns taken so far
    turn,     \* the turn that is on, 0 between turns
    saved,    \* snapshots: [ordinal, by: the turn that saved it]
    served,   \* the turn whose data is served, 0 for the artifact as created
    recorded  \* the snapshots recorded as successful refreshes

vars == <<taken, turn, saved, served, recorded>>

Init == taken = 0 /\ turn = 0 /\ saved = {} /\ served = 0 /\ recorded = {}

Begin ==
    /\ turn = 0
    /\ taken' = taken + 1 /\ turn' = taken'
    /\ UNCHANGED <<saved, served, recorded>>

Save(s) ==
    /\ turn # 0 /\ s.by = turn
    /\ \A t \in saved : t.by < turn /\ t.ordinal # s.ordinal
    /\ saved' = saved \cup {s}
    /\ UNCHANGED <<taken, turn, served, recorded>>

Serve(s) ==
    /\ s \in saved
    /\ served' = s.by
    /\ UNCHANGED <<taken, turn, saved, recorded>>

Record(s) ==
    /\ s \in saved /\ s.by = turn
    /\ recorded' = recorded \cup {s}
    /\ UNCHANGED <<taken, turn, saved, served>>

\* By the refresh itself, or by a crash.
End ==
    /\ turn # 0 /\ turn' = 0
    /\ UNCHANGED <<taken, saved, served, recorded>>

Next == Begin \/ End \/ \E s \in saved' : Save(s) \/ Serve(s) \/ Record(s)

Spec == Init /\ [][Next]_vars

=============================================================================
