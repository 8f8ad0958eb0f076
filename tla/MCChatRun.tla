----------------------------- MODULE MCChatRun ------------------------------
(* Instances of ChatRun for TLC. *)
EXTENDS ChatRun

CONSTANT c1

Kinds(formats, stubborn) == [format : formats, stubborn : stubborn]

\* Every kind of agent.
AllAgents == Kinds(Formats, BOOLEAN)

PlainAgent      == Kinds({"plain"}, {FALSE})
StubbornPlain   == Kinds({"plain"}, {TRUE})
StubbornSession == Kinds({"acp"}, {TRUE})

=============================================================================
