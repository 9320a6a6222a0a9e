-------------------------------- MODULE Rio --------------------------------
(***************************************************************************)
(* The Rio package of LabExercise1/project7/c/csapp.c, byte by byte, as    *)
(* the copying loops of doit (proxy.c) use it: rio_read refills a buffer   *)
(* from read() and hands its bytes out, rio_readlineb and rio_readnb       *)
(* collect them in the buffer of doit, and rio_writen sends that on.       *)
(*                                                                         *)
(* The peer's bytes are their positions in its stream, 1 .. Length, and    *)
(* 0 is a NUL byte that the code puts into the user's buffer.  A line of   *)
(* nothing but its newline stands for "\r\n".                              *)
(***************************************************************************)
EXTENDS Integers, Sequences

CONSTANTS
    Length,      \* how much the peer sends before it closes its end
    BufSize,     \* RIO_BUFSIZE
    MaxLine,     \* MAXLINE, the size of the user's buffer
    MayFail      \* read() and write() may fail

ASSUME RioAssumption ==
    /\ Length \in Nat /\ BufSize \in Nat \ {0} /\ MaxLine \in Nat \ {0, 1}
    /\ MayFail \in BOOLEAN

VARIABLES
    newlines,    \* which of the peer's bytes are newlines
    fetched,     \* how many of them read() has brought
    rio_buf,     \* what is in the buffer of rio
    rio_bufptr,  \* the index of the next unread byte there
    rio_cnt,     \* how many unread bytes there are; -1 after a failed read()
    usrbuf,      \* buf of doit
    n,           \* how many bytes the call in progress has put there
    want,        \* how many it was asked for
    ret,         \* what the last call returned
    loop,        \* the loop of doit that runs
    pc,          \* where it is: at its head, in a call, or back from one
    written,     \* how much of usrbuf rio_writen has written
    gone,        \* the other side has gone, and every write() to it fails
    out,         \* what the other side has got
    skipped      \* doit has gone on to a body though a read of the head failed

vars == <<newlines, fetched, rio_buf, rio_bufptr, rio_cnt, usrbuf, n, want, ret, loop, pc,
          written, gone, out, skipped>>

rio == <<newlines, fetched, rio_buf, rio_bufptr, rio_cnt>>
sink == <<written, gone, out, skipped>>

Byte == 0 .. Length
InCall == pc \in {"line", "bytes"}

TypeOK ==
    /\ newlines \in SUBSET (1 .. Length) /\ fetched \in Byte
    /\ rio_buf \in [0 .. BufSize - 1 -> Byte]
    /\ rio_bufptr \in 0 .. BufSize /\ rio_cnt \in -1 .. BufSize
    /\ usrbuf \in [0 .. MaxLine - 1 -> Byte]
    /\ n \in 0 .. MaxLine /\ want \in 0 .. MaxLine /\ ret \in -1 .. MaxLine
    /\ loop \in {"request", "head", "lines", "bytes", "asked", "done"}
    /\ pc \in {"turn", "line", "bytes", "back", "write"}
    /\ written \in 0 .. MaxLine /\ gone \in BOOLEAN /\ out \in Seq(Byte)
    /\ skipped \in BOOLEAN

Init ==
    /\ newlines \in SUBSET (1 .. Length)
    /\ fetched = 0 /\ rio_cnt = 0 /\ rio_bufptr = 0
    /\ rio_buf = [i \in 0 .. BufSize - 1 |-> 0]
    /\ usrbuf = [i \in 0 .. MaxLine - 1 |-> 0]
    /\ n = 0 /\ want = 0 /\ ret = 0
    /\ loop \in {"request", "head"} /\ pc = "turn"
    /\ written = 0 /\ gone = FALSE /\ out = <<>> /\ skipped = FALSE

-----------------------------------------------------------------------------
(* rio_read: the refill.                                                   *)

\* read() brings the next k bytes, and the pointer is reset.
Refill(k) ==
    /\ fetched' = fetched + k
    /\ rio_buf' = [i \in 0 .. BufSize - 1 |-> IF i < k THEN fetched + 1 + i ELSE rio_buf[i]]
    /\ rio_cnt' = k /\ rio_bufptr' = 0

Fill ==
    /\ InCall /\ rio_cnt <= 0
    /\ \E k \in 1 .. BufSize : fetched + k <= Length /\ Refill(k)
    /\ UNCHANGED <<newlines, usrbuf, n, want, ret, loop, pc, sink>>

\* EINTR: the loop reads again.
Interrupted ==
    /\ MayFail /\ InCall /\ rio_cnt = 0
    /\ rio_cnt' = -1
    /\ UNCHANGED <<newlines, fetched, rio_buf, rio_bufptr, usrbuf, n, want, ret, loop, pc, sink>>

Return(r) == ret' = r /\ pc' = "back"

\* MUTANT of LineRet: the byte more is not counted.
LineRetPlain(k, newline) == k

\* The value of rio_readlineb that has put k bytes into the buffer: it counts one
\* more when none of them is a newline.
LineRet(k, newline) == IF newline THEN k ELSE k + 1

\* MUTANT of EndOfStream: rio_readnb does not break off its loop, and reads for ever.
EndOfStreamSpins ==
    /\ InCall /\ rio_cnt <= 0 /\ fetched = Length
    /\ rio_cnt' = 0
    /\ \/ pc = "line" /\ n = 0 /\ Return(0) /\ UNCHANGED usrbuf
       \/ pc = "line" /\ n > 0 /\ Return(LineRet(n, FALSE)) /\ usrbuf' = [usrbuf EXCEPT ![n] = 0]
       \/ pc = "bytes" /\ UNCHANGED <<ret, pc, usrbuf>>
    /\ UNCHANGED <<newlines, fetched, rio_buf, rio_bufptr, n, want, loop, sink>>

\* read() finds the end of the stream: rio_readlineb returns 0, or what it has
\* with a NUL byte after it; rio_readnb returns what it has.
EndOfStream ==
    /\ InCall /\ rio_cnt <= 0 /\ fetched = Length
    /\ rio_cnt' = 0
    /\ \/ pc = "line" /\ n = 0 /\ Return(0) /\ UNCHANGED usrbuf
       \/ pc = "line" /\ n > 0 /\ Return(LineRet(n, FALSE)) /\ usrbuf' = [usrbuf EXCEPT ![n] = 0]
       \/ pc = "bytes" /\ Return(n) /\ UNCHANGED usrbuf
    /\ UNCHANGED <<newlines, fetched, rio_buf, rio_bufptr, n, want, loop, sink>>

\* read() fails with another error: the call returns -1, and the wrappers of
\* proxy.c make 0 of it; what was collected is lost.
ReadFails ==
    /\ MayFail /\ InCall /\ rio_cnt <= 0
    /\ rio_cnt' = -1 /\ Return(-1)
    /\ UNCHANGED <<newlines, fetched, rio_buf, rio_bufptr, usrbuf, n, want, loop, sink>>

-----------------------------------------------------------------------------
(* rio_read: the copy, and the loops around it.                            *)

\* MUTANT of Copied: bufp is not moved on after a piece.
CopiedOver(k) ==
    [i \in 0 .. MaxLine - 1 |-> IF i < k THEN rio_buf[rio_bufptr + i] ELSE usrbuf[i]]

\* memcpy of k bytes to the place where the last copy ended.
Copied(k) ==
    [i \in 0 .. MaxLine - 1 |-> IF i \in n .. n + k - 1 THEN rio_buf[rio_bufptr + i - n]
                                ELSE usrbuf[i]]

Advance(k) == rio_bufptr' = rio_bufptr + k /\ rio_cnt' = rio_cnt - k /\ n' = n + k

\* MUTANT of TakeByte: no room is kept for the NUL byte.
TakeByteFull ==
    LET newline == rio_buf[rio_bufptr] \in newlines IN
    /\ pc = "line" /\ rio_cnt > 0
    /\ Advance(1)
    /\ IF newline \/ n + 1 = want
       THEN usrbuf' = [Copied(1) EXCEPT ![n + 1] = 0] /\ Return(LineRet(n + 1, newline))
       ELSE usrbuf' = Copied(1) /\ UNCHANGED <<ret, pc>>
    /\ UNCHANGED <<newlines, fetched, rio_buf, want, loop, sink>>

\* rio_readlineb takes one byte, and returns after a newline or when only the
\* room for the NUL byte is left.
TakeByte ==
    LET newline == rio_buf[rio_bufptr] \in newlines IN
    /\ pc = "line" /\ rio_cnt > 0
    /\ Advance(1)
    /\ IF newline \/ n + 1 = want - 1
       THEN usrbuf' = [Copied(1) EXCEPT ![n + 1] = 0] /\ Return(LineRet(n + 1, newline))
       ELSE usrbuf' = Copied(1) /\ UNCHANGED <<ret, pc>>
    /\ UNCHANGED <<newlines, fetched, rio_buf, want, loop, sink>>

Least(a, b) == IF a < b THEN a ELSE b

\* rio_readnb takes what there is, up to what is still wanted.
TakeBytes ==
    LET k == Least(rio_cnt, want - n) IN
    /\ pc = "bytes" /\ rio_cnt > 0
    /\ Advance(k)
    /\ usrbuf' = Copied(k)
    /\ IF n + k = want THEN Return(want) ELSE UNCHANGED <<ret, pc>>
    /\ UNCHANGED <<newlines, fetched, rio_buf, want, loop, sink>>

-----------------------------------------------------------------------------
(* The loops of doit, and rio_writen.                                      *)

Call(kind, size) ==
    /\ pc = "turn"
    /\ pc' = kind /\ want' = size /\ n' = 0
    /\ UNCHANGED <<rio, usrbuf, ret, loop, sink>>

AskLine == loop \in {"request", "head", "lines"} /\ Call("line", MaxLine)

\* read_size: what is left of the body, or MAXLINE.
AskBytes == loop = "bytes" /\ \E size \in 1 .. MaxLine : Call("bytes", size)

\* The loop of the request has ended ("asked"), or all of the response has ("done").
Ended == loop \in {"asked", "done"}
End == IF loop = "request" THEN "asked" ELSE "done"

\* The call returned 0 or failed: the loop ends.  The head's goes on to a body, after the
\* end of the stream and also after a failure, unless that was a reset (serveron).
LoopEnds ==
    /\ pc = "back" /\ ret <= 0
    /\ \/ loop' = End /\ UNCHANGED skipped
       \/ /\ loop = "head" /\ loop' \in {"lines", "bytes"}
          /\ skipped' = (skipped \/ ret # 0)
    /\ pc' = "turn"
    /\ UNCHANGED <<rio, usrbuf, n, want, ret, written, gone, out>>

\* MUTANT of Fixed: the count is not put right.
LenRaw(r) == r

\* proxy.c:188 and 213: the count of a line that filled the buffer is put right;
\* the loop of the request does not do it.
Fixed(r) ==
    IF loop \in {"head", "lines"} /\ r = MaxLine /\ usrbuf[MaxLine - 2] \notin newlines
    THEN r - 1 ELSE r

StartWrite ==
    /\ pc = "back" /\ ret > 0
    /\ pc' = "write" /\ want' = Fixed(ret) /\ written' = 0
    /\ UNCHANGED <<rio, usrbuf, n, ret, loop, gone, out, skipped>>

\* write() takes some of what is left of the buffer; rio_writen goes on until it
\* has taken all.
Write ==
    /\ pc = "write" /\ written < want /\ ~ gone
    /\ \E k \in 1 .. want - written :
          /\ out' = out \o [i \in 1 .. k |-> usrbuf[written + i - 1]]
          /\ written' = written + k
    /\ UNCHANGED <<rio, usrbuf, n, want, ret, loop, pc, gone, skipped>>

\* The line is the blank one, which ends the request and the head.
Blank == usrbuf[0] \in newlines

\* Where the loop is after a turn.  What a line or a length says is a choice here, and
\* that the last chunk is written twice (219) is left to Relay, which knows what they say.
GoesOn ==
    CASE loop = "request" /\ Blank -> loop' = "asked"
      [] loop = "head" /\ Blank    -> loop' \in {"lines", "bytes"}
      [] loop = "lines"            -> loop' \in {"lines", "done"}
      [] loop = "bytes"            -> loop' \in {"bytes", "done"}
      [] OTHER                     -> loop' = loop

WriteEnds ==
    /\ pc = "write" /\ written = want
    /\ pc' = "turn" /\ GoesOn
    /\ UNCHANGED <<rio, usrbuf, n, want, ret, sink>>

\* write() fails: with EPIPE the browser has gone and doit stops; another error, and any
\* error towards the server, is not noticed, and the loop goes on.
WriteFails ==
    /\ pc = "write" /\ written < want
    /\ gone \/ MayFail
    /\ gone' = TRUE /\ pc' = "turn"
    /\ (loop # "request" /\ loop' = End) \/ GoesOn
    /\ UNCHANGED <<rio, usrbuf, n, want, ret, written, out, skipped>>

-----------------------------------------------------------------------------
Reading == Fill \/ EndOfStream \/ TakeByte \/ TakeBytes
Turn == ~ Ended /\ (AskLine \/ AskBytes)
Doit == Turn \/ LoopEnds \/ StartWrite \/ Write \/ WriteEnds \/ WriteFails

Next == Reading \/ Interrupted \/ ReadFails \/ Doit

Spec == Init /\ [][Next]_vars

\* A read() is not interrupted for ever, and a thread that can go on does.
FairSpec == Spec /\ WF_vars(Reading) /\ WF_vars(Doit)

-----------------------------------------------------------------------------
(* Properties.                                                             *)

Unread == IF rio_cnt > 0 THEN rio_cnt ELSE 0

\* How much of the stream rio_read has handed out.
HandedOut == fetched - Unread

\* Whatever the pieces read() brings, and however calls for lines and for bytes are
\* mixed: what is unread in the buffer of rio, and what the call in progress has
\* collected, are the neighbouring stretches of the peer's stream, with no byte
\* lost, doubled or moved (rio_read, and the loops of rio_readlineb and rio_readnb).
InOrder ==
    /\ rio_bufptr + Unread <= BufSize
    /\ \A i \in 0 .. Unread - 1 : rio_buf[rio_bufptr + i] = HandedOut + 1 + i
    /\ InCall => \A i \in 0 .. n - 1 : usrbuf[i] = HandedOut - n + 1 + i

\* The call in progress, and how much of the stream the calls before it have taken.
Calling == IF InCall THEN <<pc, want>> ELSE <<"none", 0>>
Taken == HandedOut - (IF InCall THEN n ELSE 0)

Reads == INSTANCE Stream WITH call <- Calling, taken <- Taken

\* The calls of rio_readlineb and rio_readnb implement those of Stream: each takes
\* the next line, or the next bytes, at one stroke, and returns what Stream says.
ReadsStream == Reads!Spec

Request == loop \in {"request", "asked"}

\* The last of the peer's bytes among the first m that were sent on is s; 0 stands for none.
Reached(m, s) ==
    IF s = 0 THEN \A i \in 1 .. m : out[i] = 0
    ELSE \E i \in 1 .. m : out[i] = s /\ \A j \in i + 1 .. m : out[j] = 0

\* What was sent on is the peer's stream from its first byte on; NUL bytes apart, of
\* which a response has one only, after a last line that no newline ends.
Straight ==
    \A j \in 1 .. Len(out) :
        /\ out[j] # 0 => Reached(j - 1, out[j] - 1)
        /\ ~ Request /\ out[j] = 0 =>
              j > 1 /\ j = Len(out) /\ out[j - 1] = Length /\ Length \notin newlines

\* What doit sends on has no gap and nothing twice, and NUL bytes only where a response
\* ends (proxy.c:188 and 213 put the other case right).  One thing breaks it: a read of
\* the head that fails, but not by a reset, loses what it had collected, and the body is
\* relayed all the same (412-415, 186, 209).  The second "0" line of a chunked body is
\* Relay's (Forwarded).
SentOn == ~ skipped => Straight

\* The peer sends to the end and closes, so doit gets to the end of its loops, though
\* reads are interrupted and writes are short; and a loop that ends because its read
\* returned 0 has then handed on everything, unless a part of the head was skipped.
Drains == <>(Ended /\ (ret = 0 /\ ~ gone /\ ~ skipped => Reached(Len(out), Length)))
=============================================================================
