------------------------------ MODULE MCSensor ------------------------------
(* A small instance of Sensor with eleven readings.  The queries are one   *)
(* that every program has, one that only those have that count from 1, and *)
(* the zero; digits of two of them make up one that none has.              *)
EXTENDS Sensor

Typed == {<<2>>, <<1, 1>>, <<0>>}

\* One user may type twice.
Twice == [c \in Client |-> IF c = 1 THEN 2 ELSE 1]
=============================================================================
