------------------------------ MODULE Cadence -------------------------------
(***************************************************************************)
(* What a scheduler of the daemon promises about recurring jobs, to the     *)
(* user who switches them on and off: a job that is wanted is either        *)
(* waiting for its time or at work on a fire, so that no fire is its last;  *)
(* and one that is not wanted waits for no time, so that it does not fire.  *)
(***************************************************************************)

CONSTANTS
    Jobs,   \* what recurs
    Plans,  \* the schedules a user may choose
    None    \* no schedule

VARIABLES
    wanted,   \* the plan the user chose for a job, or None
    waiting,  \* the plan whose next time is waited for, or None
    busy      \* a fire of the job is being worked on

vars == <<wanted, waiting, busy>>

Init ==
    /\ wanted \in [Jobs -> Plans \cup {None}]
    /\ waiting = wanted
    /\ busy = [j \in Jobs |-> FALSE]

\* The user, or the start or end of the daemon, changes what is wanted: what
\* was waited for is dropped at once.
Change(j) ==
    /\ waiting'[j] = wanted'[j]
    /\ busy'[j] = busy[j]

\* The time has come, maybe while the last fire is still at work.
Fire(j) ==
    /\ waiting[j] # None
    /\ waiting'[j] = None
    /\ busy'[j]
    /\ wanted'[j] = wanted[j]

\* The user has the work done at once, whether or not it is waited for.
ByHand(j) ==
    /\ busy'[j]
    /\ wanted'[j] = wanted[j]
    /\ waiting'[j] = waiting[j]

\* The fire has been seen to, whatever came of it: the next one is set.
Settle(j) ==
    /\ busy[j]
    /\ ~busy'[j]
    /\ wanted'[j] = wanted[j]
    /\ waiting'[j] = wanted[j]

\* The daemon is gone, and its fires with it.
Halt(j) ==
    /\ wanted'[j] = None
    /\ waiting'[j] = None
    /\ ~busy'[j]

Same(j) ==
    /\ wanted'[j] = wanted[j]
    /\ waiting'[j] = waiting[j]
    /\ busy'[j] = busy[j]

\* The jobs do not know of each other.
Next ==
    \A j \in Jobs : Change(j) \/ Fire(j) \/ ByHand(j) \/ Settle(j) \/ Halt(j) \/ Same(j)

Spec == Init /\ [][Next]_vars

=============================================================================
