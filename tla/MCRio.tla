------------------------------- MODULE MCRio -------------------------------
(* A small instance of Rio: a stream longer than either buffer, so that    *)
(* lines are cut by a refill and by the end of the user's buffer.          *)
EXTENDS Rio
=============================================================================
