---------------------------- MODULE RunLifecycle ----------------------------
(***************************************************************************)
(* What a chat run promises to whoever waits for it, with no events, no    *)
(* process and no clients: a run is a future.  It is queued, it may begin, *)
(* it settles once, and whoever asked for the outcome is told that outcome *)
(* and nothing else.  RunService implements this specification.            *)
(***************************************************************************)

CONSTANT Observers

VARIABLES
    phase,   \* where the run is
    told     \* told[o]: "idle", "asking", or the outcome observer o was given

vars == <<phase, told>>

TerminalStatus == {"succeeded", "failed", "canceled"}
ActiveStatus   == {"queued", "running"}
Status         == ActiveStatus \cup TerminalStatus

Init ==
    /\ phase = "queued"
    /\ told = [o \in Observers |-> "idle"]

Begin ==
    /\ phase = "queued"
    /\ phase' = "running"
    /\ UNCHANGED told

\* The run reaches its outcome: everyone who is asking is told, at once.
Settle(outcome) ==
    /\ phase \in ActiveStatus
    /\ phase' = outcome
    /\ told' = [o \in Observers |-> IF told[o] = "asking" THEN outcome ELSE told[o]]

\* Asking about a settled run is answered at once.
Ask(o) ==
    /\ told[o] = "idle"
    /\ told' = [told EXCEPT ![o] = IF phase \in TerminalStatus THEN phase ELSE "asking"]
    /\ UNCHANGED phase

Next ==
    \/ Begin
    \/ \E outcome \in TerminalStatus : Settle(outcome)
    \/ \E o \in Observers : Ask(o)

Spec == Init /\ [][Next]_vars

-----------------------------------------------------------------------------

\* Nobody is told anything but the outcome the run has, and nobody is left
\* asking about a run that has settled.
OneOutcome ==
    \A o \in Observers :
        /\ told[o] \in TerminalStatus => told[o] = phase
        /\ told[o] = "asking" => phase \in ActiveStatus

=============================================================================
