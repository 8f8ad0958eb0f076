---------------------------- MODULE MCRunService ----------------------------
(* Instances of RunService for TLC. *)
EXTENDS RunService

CONSTANT c1

\* Every kind of agent process, with and without an RPC session.
AllAgents == [stubborn : BOOLEAN, session : {"none", "open"}]

=============================================================================
