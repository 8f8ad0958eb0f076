----------------------------- MODULE RpcSession -----------------------------
(***************************************************************************)
(* What an RPC session promises to the chat run that owns it, which asks    *)
(* hasFatalError() and completedSuccessfully() when the agent's process has *)
(* closed: the session ends once, in one way, and it is complete only if    *)
(* the prompt was put to the agent.  AcpSession implements it.              *)
(***************************************************************************)

VARIABLES
    state,  \* "open", and then "completed", "failed" or "aborted"
    asked   \* the prompt was sent

Init == state = "open" /\ asked = FALSE

\* A session that has failed may still send its prompt; one that the run has
\* given up may not.
Ask ==
    /\ ~asked /\ state # "aborted"
    /\ asked' = TRUE
    /\ UNCHANGED state

End(how) ==
    /\ state = "open"
    /\ how = "completed" => asked
    /\ state' = how
    /\ UNCHANGED asked

Next == Ask \/ \E how \in {"completed", "failed", "aborted"} : End(how)

Spec == Init /\ [][Next]_<<state, asked>>

=============================================================================
