------------------------------- MODULE Relay -------------------------------
(***************************************************************************)
(* What doit of LabExercise1/project7/c/proxy.c relays once it has its two *)
(* sockets: the lines of the request up to the blank one, the head of the  *)
(* response, and the body, which doit takes to be chunked unless a         *)
(* Content-Length says otherwise.  The client and the server are the       *)
(* environment: they may leave or break off whenever they like.            *)
(*                                                                         *)
(* A stream is a sequence of items: what one Rio_readlineb_w returns, or   *)
(* one byte of a body that Rio_readnb_w reads.  The kind of an item is all *)
(* that doit looks at.                                                     *)
(***************************************************************************)
EXTENDS Integers, Sequences, SequencesExt, FiniteSets

CONSTANTS
    Requests,    \* what clients send: lines up to the blank one
    Responses,   \* what servers answer: [head, body, keep]; keep: the server
                 \* leaves its connection open after the response
    MaxLine,     \* MAXLINE, the most bytes one Rio_readnb_w asks for
    Uint,        \* how many values an unsigned int has
    MayLeave,    \* the client may close its end at any time
    MayBreak     \* the server may close or reset its end at any time

\* status: any other line of a head; length: the Content-Length line; coding: the
\* Transfer-Encoding line; blank: "\r\n"; size and data: lines of a chunked or
\* unframed body; last: "0\r\n"; tail: a last line that no newline ends, and
\* tailnul: the same with a NUL byte more; byte: a byte.
Size == [status |-> 9, length |-> 19, coding |-> 28, blank |-> 2, size |-> 3, data |-> 4,
         last |-> 3, tail |-> 1, tailnul |-> 2, byte |-> 1]

Item == DOMAIN Size

\* The servers of this model tell the truth.  A head ends with its one blank line; a
\* body of bytes has a length, and one with a length has nothing else; the last chunk
\* is followed by the blank line that ends the response; only the last line of a
\* response can be without a newline.
HasLength(r) == \E i \in DOMAIN r.head : r.head[i] = "length"

Truthful(r) ==
    LET h == Len(r.head)  n == Len(r.body) IN
    /\ h > 0 /\ \A i \in 1 .. h : /\ r.head[i] \in {"status", "length", "coding", "blank"}
                                  /\ r.head[i] = "blank" <=> i = h
    /\ HasLength(r) => n < Uint
    /\ \A i \in 1 .. n :
          /\ r.body[i] \in {"size", "data", "blank", "last", "tail", "byte"}
          /\ r.body[i] = "byte" <=> HasLength(r)
          /\ r.body[i] = "last" => i + 1 = n /\ r.body[n] = "blank"
          /\ r.body[i] = "tail" => i = n

ASSUME RelayAssumption ==
    /\ \A q \in Requests : q \in Seq(Item)
    /\ \A r \in Responses : /\ r \in [head : Seq(Item), body : Seq(Item), keep : BOOLEAN]
                            /\ Truthful(r)
    /\ MaxLine \in Nat \ {0} /\ Uint \in Nat \ {0}
    /\ MayLeave \in BOOLEAN /\ MayBreak \in BOOLEAN

\* The bytes of the first n items, for each n.
Sizes(items) ==
    LET sum[n \in 0 .. Len(items)] == IF n = 0 THEN 0 ELSE sum[n - 1] + Size[items[n]]
    IN  sum

SizeOf(items) == Sizes(items)[Len(items)]

VARIABLES
    req,         \* what the client has yet to send
    res,         \* the response of the server
    cli,         \* the client's end: open or closed
    srv,         \* the server's end: open, closed or reset
    sent,        \* how much of the response the server has sent
    toSrv,       \* what the server got
    got,         \* what the client got
    pc,          \* the loop of doit that runs
    read,        \* how much of what the server sent has been read
    chunked,
    clienton,
    serveron,
    content_length,
    read_size,
    recv_len

vars == <<req, res, cli, srv, sent, toSrv, got, pc, read, chunked, clienton, serveron,
          content_length, read_size, recv_len>>

environment == <<req, res, cli, srv, sent>>
flags == <<chunked, clienton, serveron>>

Response == res.head \o res.body

\* "%u" of the Content-Length line.
Announced == Cardinality({i \in DOMAIN res.body : res.body[i] = "byte"})

TypeOK ==
    /\ req \in Seq(Item) /\ res \in Responses
    /\ cli \in {"open", "closed"} /\ srv \in {"open", "closed", "reset"}
    /\ toSrv \in Seq(Item) /\ got \in Seq(Item)
    /\ pc \in {"request", "head", "lines", "bytes", "log"}
    /\ sent \in 0 .. Len(Response) /\ read \in 0 .. sent
    /\ chunked \in BOOLEAN /\ clienton \in BOOLEAN /\ serveron \in BOOLEAN
    /\ content_length \in 0 .. Uint - 1 /\ read_size \in 0 .. MaxLine
    /\ recv_len \in Nat

Init ==
    /\ req \in Requests /\ res \in Responses
    /\ cli = "open" /\ srv = "open" /\ sent = 0
    /\ toSrv = <<>> /\ got = <<>>
    /\ pc = "request" /\ read = 0
    /\ chunked = TRUE /\ clienton = TRUE /\ serveron = TRUE
    /\ content_length = 0 /\ read_size = 0 /\ recv_len = 0

-----------------------------------------------------------------------------
(* The environment.                                                        *)

ClientLeaves ==
    /\ MayLeave /\ cli = "open"
    /\ cli' = "closed"
    /\ UNCHANGED <<req, res, srv, sent, toSrv, got, pc, read, flags, content_length, read_size,
                   recv_len>>

\* The server has the whole request, and owes an answer.
Asked == toSrv \in Requests

\* It may also answer one that does not go on.
ServerSends ==
    /\ srv = "open" /\ toSrv # <<>> /\ sent < Len(Response)
    /\ sent' = sent + 1
    /\ UNCHANGED <<req, res, cli, srv, toSrv, got, pc, read, flags, content_length, read_size,
                   recv_len>>

ServerEnds ==
    /\ srv = "open"
    /\ \/ sent = Len(Response) /\ ~ res.keep /\ srv' = "closed"
       \/ MayBreak /\ srv' \in {"closed", "reset"}
    /\ UNCHANGED <<req, res, cli, sent, toSrv, got, pc, read, flags, content_length, read_size,
                   recv_len>>

-----------------------------------------------------------------------------
(* The request.                                                            *)

\* Rio_readlineb_w reads a line of the client, Rio_writen_w sends it on (its
\* result is ignored), and the blank line ends the loop.  What the client sends
\* after it stays in the buffer of rio, which Rio_readinitb then empties.
ForwardLine ==
    /\ pc = "request" /\ req # <<>>
    /\ toSrv' = IF srv = "open" THEN Append(toSrv, Head(req)) ELSE toSrv
    /\ req' = Tail(req)
    /\ pc' = IF Head(req) = "blank" THEN "head" ELSE "request"
    /\ UNCHANGED <<res, cli, srv, sent, got, read, flags, content_length, read_size, recv_len>>

\* The client is gone before its request is complete: an orderly close, or an
\* error, which is taken to be the client's going away when it is ECONNRESET.
RequestEnds ==
    /\ pc = "request" /\ cli = "closed"
    /\ pc' = "head"
    /\ clienton' \in BOOLEAN
    /\ UNCHANGED <<environment, toSrv, got, read, chunked, serveron, content_length, read_size,
                   recv_len>>

-----------------------------------------------------------------------------
(* The response.                                                           *)

Available == read < sent
Line == Response[read + 1]

\* Rio_writen_w to the client: what is written to a client that has gone is lost.
Write(items) == got' = IF cli = "open" THEN got \o items ELSE got

\* Where doit goes after the head.
Body(c, on) == IF ~ on THEN "log" ELSE IF c THEN "lines" ELSE "bytes"

\* MUTANT of Smaller: the comparison the wrong way round.
Larger(n) == IF MaxLine > n THEN MaxLine ELSE n

\* read_size: MAXLINE or what is left of the body.
Smaller(n) == IF MaxLine > n THEN n ELSE MaxLine

\* What doit learns from a line of the head.
Noted ==
    /\ content_length' = IF Line = "length" THEN Announced ELSE content_length
    /\ chunked' = IF Line = "length" THEN FALSE ELSE chunked

\* A line of the head: it is noted and relayed.
HeadLine ==
    /\ pc = "head" /\ Available /\ clienton /\ Line # "blank"
    /\ Noted
    /\ Write(<<Line>>)
    /\ recv_len' = recv_len + Size[Line]
    /\ read' = read + 1
    /\ UNCHANGED <<environment, toSrv, pc, clienton, serveron, read_size>>

\* MUTANT of HeadEnd: the blank line ends the loop before it is relayed.
HeadEndDrops ==
    /\ pc = "head" /\ Available /\ clienton /\ Line = "blank"
    /\ pc' = Body(chunked, serveron)
    /\ read_size' = Smaller(content_length)
    /\ read' = read + 1
    /\ UNCHANGED <<environment, toSrv, got, flags, content_length, recv_len>>

\* The blank line is relayed, and not counted.
HeadEnd ==
    /\ pc = "head" /\ Available /\ clienton /\ Line = "blank"
    /\ Write(<<Line>>)
    /\ pc' = Body(chunked, serveron)
    /\ read_size' = Smaller(content_length)
    /\ read' = read + 1
    /\ UNCHANGED <<environment, toSrv, flags, content_length, recv_len>>

\* The loop condition finds that the client went away during the request.
HeadStops ==
    /\ pc = "head" /\ Available /\ ~ clienton
    /\ pc' = "log" /\ read' = read + 1
    /\ UNCHANGED <<environment, toSrv, got, flags, content_length, read_size, recv_len>>

\* MUTANT of BodyLine: what is written twice is counted twice.
BodyLineTwice ==
    /\ pc = "lines" /\ Available /\ Line # "tail"
    /\ IF Line = "last"
       THEN Write(<<Line, Line>>) /\ recv_len' = recv_len + 2 * Size[Line] /\ pc' = "log"
       ELSE Write(<<Line>>) /\ recv_len' = recv_len + Size[Line] /\ pc' = pc
    /\ read' = read + 1
    /\ UNCHANGED <<environment, toSrv, flags, content_length, read_size>>

\* A line of a body that is taken to be chunked.  "0\r\n" is written a second
\* time, counted as 2, and ends the loop.
BodyLine ==
    /\ pc = "lines" /\ Available /\ Line # "tail"
    /\ IF Line = "last"
       THEN Write(<<Line, Line>>) /\ recv_len' = recv_len + Size[Line] + 2 /\ pc' = "log"
       ELSE Write(<<Line>>) /\ recv_len' = recv_len + Size[Line] /\ pc' = pc
    /\ read' = read + 1
    /\ UNCHANGED <<environment, toSrv, flags, content_length, read_size>>

\* The last line has no newline: rio_readlineb returns only at the end of the
\* stream, with one byte more than it read.
BodyTail ==
    /\ pc = "lines" /\ Available /\ Line = "tail" /\ srv = "closed"
    /\ Write(<<"tailnul">>) /\ recv_len' = recv_len + Size["tailnul"]
    /\ read' = read + 1
    /\ UNCHANGED <<environment, toSrv, pc, flags, content_length, read_size>>

\* Rio_readnb_w brings read_size bytes, or fewer when the stream ends.
Fetched == IF sent - read < read_size THEN sent - read ELSE read_size
Fetches == /\ pc = "bytes" /\ read_size > 0
           /\ Fetched = read_size \/ (Fetched > 0 /\ srv = "closed")

\* MUTANT of BodyBytes: read_size is not made smaller for the last turn.
BodyBytesMax ==
    LET n == Fetched IN
    /\ Fetches
    /\ content_length' = (content_length - n) % Uint
    /\ recv_len' = recv_len + n
    /\ Write(SubSeq(Response, read + 1, read + n))
    /\ read' = read + n
    /\ pc' = IF content_length' = 0 THEN "log" ELSE pc
    /\ UNCHANGED <<environment, toSrv, flags, read_size>>

\* MUTANT of BodyBytes: what was asked for is subtracted, not what came.
BodyBytesAsked ==
    LET n == Fetched IN
    /\ Fetches
    /\ content_length' = (content_length - read_size) % Uint
    /\ recv_len' = recv_len + n
    /\ Write(SubSeq(Response, read + 1, read + n))
    /\ read' = read + n
    /\ pc' = IF content_length' = 0 THEN "log" ELSE pc
    /\ read_size' = Smaller(content_length')
    /\ UNCHANGED <<environment, toSrv, flags>>

\* One turn of the Content-Length loop.
BodyBytes ==
    LET n == Fetched IN
    /\ Fetches
    /\ content_length' = (content_length - n) % Uint
    /\ recv_len' = recv_len + n
    /\ Write(SubSeq(Response, read + 1, read + n))
    /\ read' = read + n
    /\ pc' = IF content_length' = 0 THEN "log" ELSE pc
    /\ read_size' = Smaller(content_length')
    /\ UNCHANGED <<environment, toSrv, flags>>

\* A read returns 0: nothing was asked for, or the stream has ended, which in the
\* head leads on to the body.
ReadsNothing ==
    /\ \/ pc = "bytes" /\ read_size = 0
       \/ pc \in {"head", "lines", "bytes"} /\ srv = "closed" /\ ~ Available
    /\ pc' = IF pc = "head" THEN Body(chunked, clienton) ELSE "log"
    /\ read_size' = IF pc = "head" THEN Smaller(content_length) ELSE read_size
    /\ UNCHANGED <<environment, toSrv, got, read, flags, content_length, recv_len>>

\* A read fails with ECONNRESET, whether or not the buffer had more; what it had
\* collected is lost.
ReadFails ==
    /\ pc \in {"head", "lines", "bytes"} /\ srv = "reset"
    /\ serveron' = FALSE /\ pc' = "log"
    /\ UNCHANGED <<environment, toSrv, got, read, chunked, clienton, content_length, read_size,
                   recv_len>>

\* What doit has done when a write to the client fails: a line of the head is noted and
\* not counted; nor is one of the body, unless it was the second "0\r\n" that failed; but
\* bytes are subtracted and counted before they are written.
GoneInHead ==
    /\ pc = "head" /\ Available /\ Noted
    /\ read' = read + 1
    /\ UNCHANGED recv_len

GoneInLines ==
    /\ pc = "lines" /\ Available /\ (Line = "tail" => srv = "closed")
    /\ recv_len' = recv_len \/ (Line = "last" /\ recv_len' = recv_len + Size[Line])
    /\ read' = read + 1
    /\ UNCHANGED <<chunked, content_length>>

GoneInBytes ==
    /\ Fetches
    /\ content_length' = (content_length - Fetched) % Uint
    /\ recv_len' = recv_len + Fetched
    /\ read' = read + Fetched
    /\ UNCHANGED chunked

\* Rio_writen_w returns CLIENT_CLOSED, and every loop is left.
ClientGone ==
    /\ cli = "closed" /\ clienton
    /\ GoneInHead \/ GoneInLines \/ GoneInBytes
    /\ clienton' = FALSE /\ pc' = "log"
    /\ UNCHANGED <<environment, toSrv, got, serveron, read_size>>

-----------------------------------------------------------------------------
Doit == \/ ForwardLine \/ RequestEnds
        \/ HeadLine \/ HeadEnd \/ HeadStops \/ BodyLine \/ BodyTail \/ BodyBytes
        \/ ReadsNothing \/ ReadFails \/ ClientGone

Server == (Asked /\ ServerSends) \/ (sent = Len(Response) /\ ~ res.keep /\ ServerEnds)

Next == Doit \/ ClientLeaves \/ ServerSends \/ ServerEnds

Spec == Init /\ [][Next]_vars

\* doit runs, and a server that was asked answers to the end.
FairSpec == Spec /\ WF_vars(Doit) /\ WF_vars(Server)

-----------------------------------------------------------------------------
(* Properties.                                                             *)

\* proxy.c:183, in doit: "receive response from target server and forward to
\* client".  So what the client got is a beginning of what the server sent.
Forwarded == IsPrefix(got, Response)

\* What does hold, for as long as the client stays: everything that was read
\* was forwarded, in order, except that the last chunk is there twice and that
\* an unfinished last line has a NUL byte more.
ForwardedButEnd ==
    cli = "open" =>
        LET n == Len(got)
            twice == n > 1 /\ got[n] = "last" /\ got[n - 1] = "last"
            plain == IF twice THEN Front(got)
                     ELSE [i \in 1 .. n |-> IF got[i] = "tailnul" THEN "tail" ELSE got[i]]
        IN  IsPrefix(plain, Response) /\ (pc # "log" => Len(plain) = read)

\* content_length, an unsigned int, never wraps below 0, and doit never reads
\* beyond the body that was announced.
NoUnderflow ==
    pc = "bytes" /\ read >= Len(res.head) => content_length = Len(Response) - read

\* The size that goes to the log claims no byte that was not read from the server,
\* whatever is written twice or with a NUL byte more, and whoever leaves (doit, recv_len).
\* It is not the "size in bytes of the response" of proxy.c:300-302 either: the blank
\* line of the head is never counted.
NeverOvercounts == recv_len <= Sizes(Response)[read]

\* The response says where it ends.
Framed == HasLength(res) \/ "last" \in ToSet(res.body)

\* The relay of a response that says where it ends or whose server closes, comes
\* to an end, though the server keep its connection open (doit, both body loops).
RelayEnds == (Asked /\ (Framed \/ ~ res.keep)) ~> pc = "log"
=============================================================================
