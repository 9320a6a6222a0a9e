------------------------------ MODULE MCPop3 ------------------------------
(* A small instance of Pop3: two messages, of one piece and of two.        *)
EXTENDS Pop3
OneAndTwo == [m \in Msg |-> m]
=============================================================================
