-------------------------------- MODULE Web --------------------------------
(***************************************************************************)
(* The three web servers of LabExercise1/project2: cpp/Webserver.cpp,      *)
(* which serves one connection after the other from one request buffer,    *)
(* and java/ and python/, which start a thread for each.  Every one of     *)
(* them reads once, so TCP decides how much of the request it sees.        *)
(*                                                                         *)
(* A request is "GET /", a name, a space and the rest.  The rest has one   *)
(* space more; after "GET /" the buffer of Webserver.cpp is modelled       *)
(* character by character, because what a client did not send is there     *)
(* from the client before.                                                 *)
(***************************************************************************)
EXTENDS Integers, Sequences, SequencesExt, FiniteSetsExt

CONSTANTS
    Conn,        \* the connections
    Backlog,     \* of listen and ServerSocket
    Letter,      \* what names are made of
    Files,       \* what there is under the served directory: name -> content or Dir
    Dir,
    Requests,    \* the names browsers ask for
    Size,        \* sizeof(request) - strlen("GET /") of Webserver.cpp
    Kinds,       \* the servers looked at
    None

SP  == "space"
NUL == "nul"
Other == "other"

Text(name) == name \o <<SP, Other, SP>>

Byte == 0 .. 255

ASSUME WebAssumption ==
    /\ Kinds \subseteq {"cpp", "java", "python"} /\ Backlog \in Nat \ {0}
    /\ {SP, NUL, Other} \cap Letter = {}
    /\ Requests \subseteq Seq(Letter) /\ DOMAIN Files \subseteq Seq(Letter)
    /\ \A name \in DOMAIN Files : Files[name] = Dir \/ Files[name] \in Seq(Byte)
    /\ Size \in Nat \ {0} /\ \A name \in Requests : Len(Text(name)) < Size

VARIABLES
    kind,        \* which server runs
    up,          \* it has not crashed
    queue,       \* connections that were not accepted yet
    stage,       \* where the server is with a connection
    ask,         \* the name the browser asks for
    cli,         \* the browser: not there, connected, has asked, has left
    heard,       \* how much after "GET /" the one read brought; -1: nothing at all
    url,         \* the name the server took from it
    got,         \* what the browser got
    request,     \* the buffer of Webserver.cpp after "GET /"
    used,        \* something was received into it
    replybuf     \* its other buffer

vars == <<kind, up, queue, stage, ask, cli, heard, url, got, request, used, replybuf>>

buffers == <<request, used, replybuf>>

Response == [code : {200, 404}, body : Seq(Byte)]
NotFound == [code |-> 404, body |-> <<>>]

Served == {c \in Conn : stage[c] \in {"read", "reply"}}

TypeOK ==
    /\ kind \in Kinds /\ up \in BOOLEAN
    /\ queue \in Seq(Conn) /\ Len(queue) <= Backlog
    /\ stage \in [Conn -> {"none", "read", "reply", "closed", "stuck"}]
    /\ ask \in [Conn -> Requests \cup {None}]
    /\ cli \in [Conn -> {"off", "connected", "asked", "left"}]
    /\ heard \in [Conn -> -1 .. Size - 1]
    /\ url \in [Conn -> Seq(Letter \cup {Other}) \cup {None}]
    /\ got \in [Conn -> Response \cup {None}]
    /\ request \in [1 .. Size -> Letter \cup {SP, NUL, Other}] /\ request[Size] = NUL
    /\ kind = "cpp" => \A c, d \in Served : c = d
    /\ used \in BOOLEAN /\ replybuf \in Response \cup {None}

Init ==
    /\ kind \in Kinds /\ up = TRUE /\ queue = <<>>
    /\ stage = [c \in Conn |-> "none"] /\ ask = [c \in Conn |-> None]
    /\ cli = [c \in Conn |-> "off"] /\ heard = [c \in Conn |-> -1]
    /\ url = [c \in Conn |-> None] /\ got = [c \in Conn |-> None]
    /\ request = [i \in 1 .. Size |-> NUL] /\ used = FALSE /\ replybuf = None

-----------------------------------------------------------------------------
(* The browsers.                                                           *)

Connect(c) ==
    /\ up /\ cli[c] = "off" /\ Len(queue) < Backlog
    /\ cli' = [cli EXCEPT ![c] = "connected"] /\ queue' = Append(queue, c)
    /\ \E name \in Requests : ask' = [ask EXCEPT ![c] = name]
    /\ UNCHANGED <<kind, up, stage, heard, url, got, buffers>>

Ask(c) ==
    /\ cli[c] = "connected"
    /\ cli' = [cli EXCEPT ![c] = "asked"]
    /\ UNCHANGED <<kind, up, queue, stage, ask, heard, url, got, buffers>>

Leave(c) ==
    /\ cli[c] \in {"connected", "asked"}
    /\ cli' = [cli EXCEPT ![c] = "left"]
    /\ UNCHANGED <<kind, up, queue, stage, ask, heard, url, got, buffers>>

-----------------------------------------------------------------------------
(* The servers.                                                            *)

\* Webserver.cpp accepts the next connection when it has closed the one before.
Accept ==
    /\ up /\ queue # <<>>
    /\ kind = "cpp" => Served = {}
    /\ stage' = [stage EXCEPT ![Head(queue)] = "read"] /\ queue' = Tail(queue)
    /\ UNCHANGED <<kind, up, ask, cli, heard, url, got, buffers>>

\* What the one read of a connection may bring: any beginning of the request, or
\* nothing when the browser has left.
Arrives(c) ==
    (IF cli[c] = "asked" THEN 0 .. Len(Text(ask[c])) ELSE {})
        \cup (IF cli[c] = "left" THEN {-1} ELSE {})

Reading(c, k) ==
    /\ up /\ stage[c] = "read" /\ k \in Arrives(c)
    /\ heard' = [heard EXCEPT ![c] = k]
    /\ UNCHANGED <<kind, queue, ask, cli>>

\* The name of which k characters came, as far as it came.
Part(c, k) == SubSeq(ask[c], 1, IF k < Len(ask[c]) THEN k ELSE Len(ask[c]))

\* recv writes over the beginning of what the buffer holds.
Received(c, k) ==
    [i \in 1 .. Size |-> IF i <= k THEN Text(ask[c])[i] ELSE request[i]]

\* geturl makes a NUL of the first space after "GET /".
Cut(buf) ==
    LET spaces == {i \in 1 .. Size : buf[i] = SP} IN
    IF spaces = {} THEN buf ELSE [buf EXCEPT ![Min(spaces)] = NUL]

\* strcpy takes what is before the first NUL.
UrlOf(buf) == [i \in 1 .. Min({j \in 1 .. Size : buf[j] = NUL}) - 1 |-> buf[i]]

\* recv and geturl of Webserver.cpp.  Without a space left in the buffer geturl runs
\* past its end: the program may crash, or find one there; and if nothing was ever
\* received, the name is none that a file has.
ReadCpp(c, k) ==
    LET buf == Received(c, k)
        past == ~ (used \/ k >= 0) \/ \A i \in 1 .. Size : buf[i] # SP
    IN
    /\ kind = "cpp" /\ Reading(c, k)
    /\ used' = (used \/ k >= 0) /\ request' = Cut(buf)
    /\ \/ /\ up' = up
          /\ stage' = [stage EXCEPT ![c] = "reply"]
          /\ url' = [url EXCEPT ![c] = IF used' THEN UrlOf(Cut(buf)) ELSE None]
       \/ /\ past /\ up' = FALSE
          /\ UNCHANGED <<stage, url>>
    /\ UNCHANGED <<got, replybuf>>

\* Request.parseUri: the name is between two spaces, or there is none; then, as after an
\* exception, run returns and the socket stays open.
ReadJava(c, k) ==
    /\ kind = "java" /\ Reading(c, k)
    /\ IF k > Len(ask[c])
       THEN /\ stage' = [stage EXCEPT ![c] = "reply"]
            /\ url' = [url EXCEPT ![c] = ask[c]]
       ELSE /\ stage' = [stage EXCEPT ![c] = "stuck"]
            /\ UNCHANGED url
    /\ UNCHANGED <<up, got, buffers>>

\* data.split()[1], which is whatever came of the name; if nothing came the exception
\* ends the thread, and with its last reference the socket is closed.
ReadPython(c, k) ==
    /\ kind = "python" /\ Reading(c, k)
    /\ IF k >= 0
       THEN /\ stage' = [stage EXCEPT ![c] = "reply"]
            /\ url' = [url EXCEPT ![c] = Part(c, k)]
       ELSE /\ stage' = [stage EXCEPT ![c] = "closed"]
            /\ UNCHANGED url
    /\ UNCHANGED <<up, got, buffers>>

IsThere(name) == name \in DOMAIN Files
IsFile(name) == IsThere(name) /\ Files[name] # Dir

\* The response goes out and the connection is closed.  If a part of the request was not
\* read, closing resets the connection, and the response may be lost.
Answers(c, response) ==
    /\ stage' = [stage EXCEPT ![c] = "closed"]
    /\ \/ cli[c] = "asked" /\ got' = [got EXCEPT ![c] = response]
       \/ (cli[c] = "left" \/ heard[c] < Len(Text(ask[c]))) /\ UNCHANGED got

Closes(c) == stage' = [stage EXCEPT ![c] = "closed"] /\ UNCHANGED got

Replying(c) ==
    /\ up /\ stage[c] = "reply"
    /\ UNCHANGED <<kind, up, queue, ask, cli, heard, url, request, used>>

\* char ch = fgetc(fp): the byte 255 is taken for EOF, and "%s" stops at a 0.
TextBody(content) ==
    LET stops == {i \in DOMAIN content : content[i] \in {0, 255}} IN
    IF stops = {} THEN content ELSE SubSeq(content, 1, Min(stops) - 1)

\* MUTANT of Written: what the client before got is not written over.
WrittenKept(name) ==
    IF IsFile(name) THEN [code |-> 200, body |-> TextBody(Files[name])]
    ELSE IF replybuf # None THEN replybuf ELSE NotFound

\* What reply writes into replybuf.
Written(name) ==
    IF IsFile(name) THEN [code |-> 200, body |-> TextBody(Files[name])] ELSE NotFound

ReplyCpp(c) ==
    /\ kind = "cpp" /\ Replying(c)
    /\ replybuf' = Written(url[c])
    /\ Answers(c, Written(url[c]))

\* MUTANT of ReplyJava: the stream is closed on the path of a file only.
ReplyJavaOpen(c) ==
    /\ kind = "java" /\ Replying(c)
    /\ IF IsFile(url[c]) THEN Answers(c, [code |-> 200, body |-> Files[url[c]]])
       ELSE stage' = [stage EXCEPT ![c] = "stuck"] /\ UNCHANGED got
    /\ UNCHANGED replybuf

\* Response.responseResource: a directory exists, cannot be opened, and the exception
\* leaves the connection as it is.
ReplyJava(c) ==
    /\ kind = "java" /\ Replying(c)
    /\ IF IsFile(url[c]) THEN Answers(c, [code |-> 200, body |-> Files[url[c]]])
       ELSE IF ~ IsThere(url[c]) THEN Answers(c, NotFound)
       ELSE stage' = [stage EXCEPT ![c] = "stuck"] /\ UNCHANGED got
    /\ UNCHANGED replybuf

\* An empty name closes the connection first; a directory, and a file that is not utf-8,
\* raise an exception, which closes it.
ReplyPython(c) ==
    /\ kind = "python" /\ Replying(c)
    /\ IF ~ IsThere(url[c]) THEN Answers(c, NotFound)
       ELSE IF IsFile(url[c]) /\ 255 \notin ToSet(Files[url[c]])
       THEN Answers(c, [code |-> 200, body |-> Files[url[c]]])
       ELSE Closes(c)
    /\ UNCHANGED replybuf

-----------------------------------------------------------------------------
\* A browser that has connected asks, or goes.
Speaks(c) == cli[c] = "connected" /\ (Ask(c) \/ Leave(c))

Browser(c) == Connect(c) \/ Ask(c) \/ Leave(c)
Serve(c) ==
    \/ \E k \in -1 .. Size - 1 : ReadCpp(c, k) \/ ReadJava(c, k) \/ ReadPython(c, k)
    \/ ReplyCpp(c) \/ ReplyJava(c) \/ ReplyPython(c)

Next == Accept \/ \E c \in Conn : Browser(c) \/ Serve(c)

Spec == Init /\ [][Next]_vars

\* The servers run, and a browser does not stay connected without asking; once it has
\* asked it may wait for ever.
FairSpec ==
    /\ Spec /\ WF_vars(Accept)
    /\ \A c \in Conn : WF_vars(Serve(c)) /\ WF_vars(Speaks(c))

-----------------------------------------------------------------------------
(* Properties.                                                             *)

\* The name was read as a whole, with the space after it.
Whole(c) == ask[c] # None /\ heard[c] > Len(ask[c])

\* response is what the file of this name deserves; Webserver.cpp may end it early.
IsPage(response, name) ==
    /\ response.code = IF IsFile(name) THEN 200 ELSE 404
    /\ IsFile(name) => IF kind = "cpp" THEN IsPrefix(response.body, Files[name])
                       ELSE response.body = Files[name]

\* Nobody gets another one's page, however connections and their pieces interleave: what
\* a browser gets belongs to the name it asked for; the Python server may take a part
\* for the whole, but only a part of that name.  Of the clients of Webserver.cpp it holds
\* for those whose name was read as a whole (request, replybuf).
OwnPage ==
    \A c \in Conn : got[c] # None =>
        \/ IsPage(got[c], ask[c])
        \/ kind = "cpp" /\ ~ Whole(c)
        \/ kind = "python" /\ ~ Whole(c) /\ IsPage(got[c], Part(c, heard[c]))

\* Everyone who asks and stays sees the end of the connection, also behind clients that
\* say nothing: with the C++ server unless geturl crashed it, with the Java server unless
\* the name was cut off or is a directory's.
SeesEnd ==
    \A c \in Conn : cli[c] = "asked" ~>
        \/ stage[c] = "closed" \/ cli[c] = "left"
        \/ kind = "cpp" /\ ~ up
        \/ kind = "java" /\ (~ Whole(c) \/ (IsThere(ask[c]) /\ ~ IsFile(ask[c])))
=============================================================================
