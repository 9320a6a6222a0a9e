------------------------------- MODULE Stream -------------------------------
(***************************************************************************)
(* What the Rio package of LabExercise1/project7/c/csapp.c promises to the *)
(* one who reads a connection with it: every call takes the next line, or  *)
(* the next bytes, of one stream, whatever the pieces are that read()      *)
(* brings it in.  Nothing here is about buffers.                           *)
(*                                                                         *)
(* A byte is its position in the stream; newlines are the positions of the *)
(* newline characters.                                                     *)
(***************************************************************************)
EXTENDS Integers

CONSTANTS
    Length,      \* how long the stream is
    MaxLine      \* MAXLINE, the maxlen of every rio_readlineb

VARIABLES
    newlines,    \* where the newlines are
    call,        \* the call in progress: a kind and the number of bytes wanted
    taken,       \* how much of the stream the calls so far have taken
    ret          \* what the last call returned

vars == <<newlines, call, taken, ret>>

NoCall == <<"none", 0>>

Init ==
    /\ newlines \in SUBSET (1 .. Length)
    /\ call = NoCall /\ taken = 0 /\ ret = 0

\* A line that starts after "from" ends at "to": with its newline, where the
\* user's buffer is full, or where the stream ends.
EndsAt(from, to) ==
    /\ to \in from + 1 .. Length
    /\ \A i \in from + 1 .. to - 1 : i \notin newlines
    /\ to \in newlines \/ to = from + MaxLine - 1 \/ to = Length
    /\ to <= from + MaxLine - 1

Ask ==
    /\ call = NoCall
    /\ call' \in {<<"line", MaxLine>>} \cup ({"bytes"} \X (1 .. MaxLine))
    /\ UNCHANGED <<newlines, taken, ret>>

\* rio_readlineb: 0 at the end of the stream; otherwise the length of the line,
\* and one more if the line does not end in a newline.
AnswerLine ==
    /\ call[1] = "line"
    /\ \/ taken = Length /\ taken' = taken /\ ret' = 0
       \/ /\ taken' \in taken + 1 .. Length /\ EndsAt(taken, taken')
          /\ ret' = taken' - taken + (IF taken' \in newlines THEN 0 ELSE 1)
    /\ call' = NoCall
    /\ UNCHANGED newlines

\* rio_readnb: as many bytes as were asked for, or as there are.
AnswerBytes ==
    /\ call[1] = "bytes"
    /\ taken' = IF taken + call[2] < Length THEN taken + call[2] ELSE Length
    /\ ret' = taken' - taken
    /\ call' = NoCall
    /\ UNCHANGED newlines

\* A call fails; what it had collected is lost.
Fail ==
    /\ call # NoCall
    /\ taken' \in taken .. Length
    /\ ret' = -1 /\ call' = NoCall
    /\ UNCHANGED newlines

Next == Ask \/ AnswerLine \/ AnswerBytes \/ Fail

Spec == Init /\ [][Next]_vars
=============================================================================
