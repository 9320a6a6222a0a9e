------------------------------ MODULE MCProxy ------------------------------
(* Small instances of Proxy: three connections, a site that is always      *)
(* there, one that DNS may not know and one that may refuse.               *)
EXTENDS Proxy
CONSTANTS fine, unknown, refusing
=============================================================================
