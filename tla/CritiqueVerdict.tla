--------------------------- MODULE CritiqueVerdict ---------------------------
(***************************************************************************)
(* What the critique branch of a chat run promises to its users, who read   *)
(* the row of critique_runs and the status of the chat run: a verdict is    *)
(* given once and stands until the project is deleted, and the chat run     *)
(* never claims a success the verdict does not support.                     *)
(***************************************************************************)

VARIABLES
    verdict,  \* "none", "running", a verdict, or "deleted" with the project
    outcome   \* what became of the chat run

\* The verdicts of a run that came to a ship decision, and the others.
Good == {"shipped", "below_threshold"}
Bad  == {"timed_out", "interrupted", "degraded", "failed"}

Init == verdict = "none" /\ outcome = "running"

Open ==
    /\ verdict = "none"
    /\ verdict' = "running"
    /\ UNCHANGED outcome

\* The verdict is given, and the chat run ends with it if it has not before.
Give(v) ==
    /\ verdict = "running"
    /\ verdict' = v
    /\ \/ UNCHANGED outcome
       \/ /\ outcome = "running"
          /\ outcome' \in {"canceled", IF v \in Good THEN "succeeded" ELSE "failed"}

Erase ==
    /\ verdict' = "deleted"
    /\ UNCHANGED outcome

\* The chat run ends by itself: only a run whose row is gone may succeed.
End(o) ==
    /\ outcome = "running"
    /\ o = "succeeded" => verdict = "deleted"
    /\ outcome' = o
    /\ UNCHANGED verdict

Next ==
    \/ Open
    \/ \E v \in Good \cup Bad : Give(v)
    \/ Erase
    \/ \E o \in {"canceled", "failed", "lost", "succeeded"} : End(o)

Spec == Init /\ [][Next]_<<verdict, outcome>>

=============================================================================
