--------------------------- MODULE MCToolApproval ---------------------------
(* The instance of ToolApproval that is checked: a root session with one   *)
(* call and the session of a sub-agent below it with another.              *)
EXTENDS ToolApproval

TreeSessions == {"main", "sub"}
TreeRoot == [s \in TreeSessions |-> "main"]
TreeAgentOf == [s \in TreeSessions |-> s]
TreeCalls == {"c1", "c2"}
TreeSessionOf == [c \in TreeCalls |-> IF c = "c1" THEN "main" ELSE "sub"]
=============================================================================
