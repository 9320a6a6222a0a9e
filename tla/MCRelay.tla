------------------------------ MODULE MCRelay ------------------------------
(* Small instances of Relay: each kind of response, with bodies around the *)
(* size of one read.                                                       *)
EXTENDS Relay

Bytes(n) == [i \in 1 .. n |-> "byte"]

Sized   == {[head |-> <<"status", "length", "blank">>, body |-> Bytes(n), keep |-> k] :
              n \in 0 .. 5, k \in BOOLEAN}
Chunked == {[head |-> <<"coding", "blank">>, body |-> b \o <<"last", "blank">>, keep |-> k] :
              b \in {<<>>, <<"size", "data">>, <<"size", "data", "size", "data">>},
              k \in BOOLEAN}
\* The server closes its connection at the end of the body, or there is none.
Unframed == {[head |-> <<"status", "blank">>, body |-> b, keep |-> FALSE] :
              b \in {<<>>, <<"data", "data">>, <<"data", "tail">>}}

AllResponses == Sized \cup Chunked \cup Unframed

Get == <<"status", "blank">>
OnlyGet == {Get}
=============================================================================
