------------------------------- MODULE MCWeb -------------------------------
(* A small instance of Web: two files, of which one is not plain text, the *)
(* served directory itself, a directory in it and a name that is nowhere.  *)
EXTENDS Web

CONSTANTS a, b

Site ==
    [name \in {<<a>>, <<a, b>>, <<>>} |->
        CASE name = <<a>>    -> <<65>>
          [] name = <<a, b>> -> <<66, 255, 66>>
          [] OTHER           -> Dir]

Asked == {<<a, b>>, <<>>, <<b>>}
=============================================================================
