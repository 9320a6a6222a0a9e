------------------------------- MODULE Sensor -------------------------------
(***************************************************************************)
(* The sensor readings of LabExercise1/project1: cpp/ (Server.cpp,         *)
(* Client.cpp), python/ and java/.  A client types the number of a time    *)
(* and gets what the sensors showed then.  Each server is one loop that    *)
(* serves one client at a time; the C++ and Python programs take what one  *)
(* recv brings for a message, the Java ones frame theirs (writeUTF).       *)
(*                                                                         *)
(* A query is the sequence of its digits and travels as such.  An answer,  *)
(* and the greeting of Server.cpp, is two parts, which is enough for TCP   *)
(* to deliver it in pieces.                                                *)
(***************************************************************************)
EXTENDS Integers, Sequences, SequencesExt

CONSTANTS
    Client,
    Query,       \* what users type
    Rows,        \* the readings there are
    MaxAsk,      \* bound: the queries of each client
    Kinds,       \* the programs looked at
    Nobody, Junk, Greeting

ASSUME SensorAssumption ==
    /\ Kinds \subseteq {"cpp", "python", "java"} /\ Rows \in Nat \ {0} /\ MaxAsk \in [Client -> Nat]
    /\ Query \subseteq Seq(0 .. 9) /\ <<>> \notin Query
    /\ Nobody \notin Client /\ {Junk, Greeting} \cap Int = {}

VARIABLES
    kind,        \* which pair of programs runs
    pc,          \* where the server is
    client,      \* whom it serves
    revData,     \* what it read last; <<>> before it read anything
    backlog,     \* clients that were not accepted yet
    cli,         \* where each client is: off, greet, type, wait, closed, reset
    srv,         \* the server's end of each connection is open
    toSrv, toCli, \* what is under way
    asked,       \* what each user has typed
    recData,     \* what the client took for its answer
    pieces       \* clients whose connection delivered a part of a message

vars == <<kind, pc, client, revData, backlog, cli, srv, toSrv, toCli, asked, recData, pieces>>
server == <<kind, pc, client, revData, backlog, srv>>

Gone(c) == cli[c] \in {"closed", "reset"}

Number(q) == FoldLeft(LAMBDA n, digit : 10 * n + digit, 0, q)

Index(q) == IF kind = "cpp" THEN Number(q) ELSE Number(q) - 1

\* The row of the tables for a query, Junk when there is none: Server.cpp counts from 0
\* and reads whatever lies there, the others count from 1, and in Python T[-1], the
\* last of each table, is one more row.
RowOf(q) ==
    IF Index(q) \in (IF kind = "python" THEN -1 ELSE 0) .. Rows - 1 THEN Index(q) ELSE Junk

Row == -1 .. Rows - 1

Text(x) == <<x, x>>

TypeOK ==
    /\ kind \in Kinds /\ pc \in {"accept", "recv", "answer", "down"}
    /\ client \in Client \cup {Nobody} /\ (pc = "accept" <=> client = Nobody)
    /\ revData \in Seq(0 .. 9)
    /\ backlog \in Seq(Client)
    /\ cli \in [Client -> {"off", "greet", "type", "wait", "closed", "reset"}]
    /\ srv \in [Client -> BOOLEAN]
    /\ toSrv \in [Client -> Seq(0 .. 9)]
    /\ toCli \in [Client -> Seq(Row \cup {Junk, Greeting})]
    /\ asked \in [Client -> Seq(Query)] /\ \A c \in Client : Len(asked[c]) <= MaxAsk[c]
    /\ recData \in [Client -> Seq(Row \cup {Junk, Greeting})]
    /\ pieces \subseteq Client

Init ==
    /\ kind \in Kinds /\ pc = "accept" /\ client = Nobody /\ revData = <<>>
    /\ backlog = <<>> /\ pieces = {}
    /\ cli = [c \in Client |-> "off"] /\ srv = [c \in Client |-> FALSE]
    /\ toSrv = [c \in Client |-> <<>>] /\ toCli = [c \in Client |-> <<>>]
    /\ asked = [c \in Client |-> <<>>] /\ recData = [c \in Client |-> <<>>]

-----------------------------------------------------------------------------
(* The clients.                                                            *)

\* The system completes the connection; only Client.cpp then waits for a greeting.
Connect(c) ==
    /\ cli[c] = "off" /\ pc # "down"
    /\ cli' = [cli EXCEPT ![c] = IF kind = "cpp" THEN "greet" ELSE "type"]
    /\ backlog' = Append(backlog, c) /\ srv' = [srv EXCEPT ![c] = TRUE]
    /\ UNCHANGED <<kind, pc, client, revData, toSrv, toCli, asked, recData, pieces>>

\* One recv of the client takes the first n items of what has come.
Takes(c, n) ==
    /\ n \in 1 .. Len(toCli[c])
    /\ toCli' = [toCli EXCEPT ![c] = SubSeq(@, n + 1, Len(@))]
    /\ pieces' = IF n = Len(Text(Junk)) THEN pieces ELSE pieces \cup {c}

\* Whatever the recv brings, or if it brings nothing, it was the greeting.
ReadGreeting(c) ==
    /\ cli[c] = "greet"
    /\ \/ \E n \in 1 .. 4 : Takes(c, n)
       \/ toCli[c] = <<>> /\ ~ srv[c] /\ UNCHANGED <<toCli, pieces>>
    /\ cli' = [cli EXCEPT ![c] = "type"]
    /\ UNCHANGED <<server, toSrv, asked, recData>>

Type(c, q) ==
    /\ cli[c] = "type" /\ Len(asked[c]) < MaxAsk[c]
    /\ asked' = [asked EXCEPT ![c] = Append(@, q)]
    /\ toSrv' = IF srv[c] THEN [toSrv EXCEPT ![c] = @ \o q] ELSE toSrv
    /\ cli' = [cli EXCEPT ![c] = "wait"]
    /\ UNCHANGED <<server, toCli, recData, pieces>>

\* readUTF waits for the whole text, recv does not.
ReadAnswer(c, n) ==
    /\ cli[c] = "wait" /\ Takes(c, n) /\ (kind = "java" => n = Len(Text(Junk)))
    /\ recData' = [recData EXCEPT ![c] = SubSeq(toCli[c], 1, n)]
    /\ cli' = [cli EXCEPT ![c] = "type"]
    /\ UNCHANGED <<server, toSrv, asked>>

\* Client.cpp goes on when the connection has ended, the others do not.
NoAnswer(c) ==
    /\ cli[c] = "wait" /\ toCli[c] = <<>> /\ ~ srv[c]
    /\ cli' = [cli EXCEPT ![c] = IF kind = "cpp" THEN "type" ELSE "closed"]
    /\ recData' = [recData EXCEPT ![c] = <<>>]
    /\ UNCHANGED <<server, toSrv, toCli, asked, pieces>>

\* The user ends the program: the system closes the connection, or resets it.
Leave(c, how) ==
    /\ cli[c] \in {"greet", "type", "wait"}
    /\ cli' = [cli EXCEPT ![c] = how]
    /\ UNCHANGED <<server, toSrv, toCli, asked, recData, pieces>>

-----------------------------------------------------------------------------
(* The servers.                                                            *)

\* What is sent to a client that has gone comes back as a reset.
SendsTo(c, text) ==
    /\ toCli' = IF Gone(c) THEN toCli ELSE [toCli EXCEPT ![c] = @ \o text]
    /\ cli' = IF Gone(c) THEN [cli EXCEPT ![c] = "reset"] ELSE cli

Accept ==
    /\ pc = "accept" /\ backlog # <<>>
    /\ client' = Head(backlog) /\ backlog' = Tail(backlog) /\ pc' = "recv"
    /\ IF kind = "cpp" THEN SendsTo(Head(backlog), Text(Greeting))
       ELSE UNCHANGED <<toCli, cli>>
    /\ UNCHANGED <<kind, revData, srv, toSrv, asked, recData, pieces>>

\* The socket is closed and the next client accepted.
Hangs == pc' = "accept" /\ client' = Nobody /\ srv' = [srv EXCEPT ![client] = FALSE]

\* The program ends and the system closes its connections.
Ends == pc' = "down" /\ srv' = [c \in Client |-> FALSE] /\ UNCHANGED client

\* recv brings n of the digits that have come, readUTF the query.
Reads(n) ==
    /\ pc = "recv" /\ cli[client] # "reset" /\ n \in 1 .. Len(toSrv[client])
    /\ toSrv' = [toSrv EXCEPT ![client] = SubSeq(@, n + 1, Len(@))]
    /\ (kind = "java" => toSrv'[client] = <<>>)
    /\ pieces' = IF toSrv'[client] = <<>> THEN pieces ELSE pieces \cup {client}
    /\ pc' = "answer"
    /\ UNCHANGED <<kind, client, backlog, cli, srv, toCli, asked, recData>>

\* MUTANT of RecvQuery: revData is not terminated behind what came.
RecvQueryOpen(n) ==
    /\ Reads(n)
    /\ revData' = SubSeq(toSrv[client], 1, n) \o SubSeq(revData, n + 1, Len(revData))

RecvQuery(n) == Reads(n) /\ revData' = SubSeq(toSrv[client], 1, n)

AtEnd == pc = "recv" /\ cli[client] = "closed" /\ toSrv[client] = <<>>

Lost == pc = "recv" /\ cli[client] = "reset"

\* MUTANT of RecvNothingCpp: nothing is not answered.
RecvNothingSkipped ==
    /\ kind = "cpp" /\ AtEnd
    /\ UNCHANGED <<server, cli, toSrv, toCli, asked, recData, pieces>>

\* recv returned 0: neither branch is taken, and revData is answered once more.
RecvNothingCpp ==
    /\ kind = "cpp" /\ AtEnd /\ pc' = "answer"
    /\ UNCHANGED <<kind, client, revData, backlog, srv,
                   cli, toSrv, toCli, asked, recData, pieces>>

RecvErrorCpp ==
    /\ kind = "cpp" /\ Lost /\ Hangs
    /\ UNCHANGED <<kind, revData, backlog, cli, toSrv, toCli, asked, recData, pieces>>

\* MUTANT of RecvNothingPython: the end of the connection ends the outer loop as well.
RecvNothingEnds ==
    /\ kind = "python" /\ AtEnd /\ Ends
    /\ UNCHANGED <<kind, revData, backlog, cli, toSrv, toCli, asked, recData, pieces>>

RecvNothingPython ==
    /\ kind = "python" /\ AtEnd /\ Hangs
    /\ UNCHANGED <<kind, revData, backlog, cli, toSrv, toCli, asked, recData, pieces>>

\* Nothing catches the exception of recv.
RecvErrorPython ==
    /\ kind = "python" /\ Lost /\ Ends
    /\ UNCHANGED <<kind, revData, backlog, cli, toSrv, toCli, asked, recData, pieces>>

\* The try statement is around the loop: the first client that goes ends the server.
RecvNothingJava ==
    /\ kind = "java" /\ (AtEnd \/ Lost) /\ Ends
    /\ UNCHANGED <<kind, revData, backlog, cli, toSrv, toCli, asked, recData, pieces>>

\* atoi of a buffer that nothing was received into is any number.  Outside the arrays
\* the process reads what lies there, or it is ended.
AnswerCpp ==
    /\ kind = "cpp" /\ pc = "answer"
    /\ \E row \in IF revData = <<>> THEN (0 .. Rows - 1) \cup {Junk} ELSE {RowOf(revData)} :
          \/ SendsTo(client, Text(row)) /\ pc' = "recv" /\ UNCHANGED <<client, srv>>
          \/ row = Junk /\ Ends /\ UNCHANGED <<cli, toCli>>
    /\ UNCHANGED <<kind, revData, backlog, toSrv, asked, recData, pieces>>

\* No row raises an exception, and so does a client that was seen to reset.
AnswerChecked ==
    /\ kind \in {"python", "java"} /\ pc = "answer"
    /\ IF RowOf(revData) = Junk \/ cli[client] = "reset"
       THEN Ends /\ UNCHANGED <<cli, toCli>>
       ELSE SendsTo(client, Text(RowOf(revData))) /\ pc' = "recv" /\ UNCHANGED <<client, srv>>
    /\ UNCHANGED <<kind, revData, backlog, toSrv, asked, recData, pieces>>

-----------------------------------------------------------------------------
User(c) ==
    \/ Connect(c) \/ ReadGreeting(c) \/ NoAnswer(c)
    \/ \E q \in Query : Type(c, q)
    \/ \E n \in 1 .. 4 : ReadAnswer(c, n)
    \/ \E how \in {"closed", "reset"} : Leave(c, how)

Serve ==
    \/ Accept
    \/ \E n \in 1 .. 4 : RecvQuery(n)
    \/ RecvNothingCpp \/ RecvErrorCpp \/ AnswerCpp
    \/ RecvNothingPython \/ RecvErrorPython \/ RecvNothingJava \/ AnswerChecked

Next == Serve \/ \E c \in Client : User(c)

Spec == Init /\ [][Next]_vars

\* The server runs, and nobody stays for ever.
FairSpec ==
    /\ Spec /\ WF_vars(Serve)
    /\ \A c \in Client : WF_vars(\E how \in {"closed", "reset"} : Leave(c, how))

-----------------------------------------------------------------------------
(* Properties.                                                             *)

\* What a client shows as the answer is the reading its user asked for last, whatever
\* other clients left in revData, as long as TCP delivered the messages of this
\* connection one by one; with Java there is no such condition (recv of Server.cpp,
\* server.py and their clients, readUTF).
OwnReading ==
    \A c \in Client :
        /\ cli[c] = "type" /\ recData[c] # <<>> /\ c \notin pieces
        /\ RowOf(Last(asked[c])) # Junk
        => recData[c] = Text(RowOf(Last(asked[c])))

\* A query that is in no table, or was cut in two.
Odd(c) == c \in pieces \/ \E q \in ToSet(asked[c]) : RowOf(q) = Junk

\* What may end a server that was not told to end: an odd query of somebody; in C++ also
\* a client that leaves before anybody has asked, for atoi then reads what was never
\* written; in Python a connection that was reset; in Java any client that leaves.
\* Otherwise it survives every order of queries, answers and ends, of all clients.
EndsForCause ==
    pc = "down" =>
        \/ \E c \in Client : Odd(c)
        \/ kind = "cpp" /\ revData = <<>>
        \/ kind = "python" /\ cli[client] = "reset"
        \/ kind = "java" /\ Gone(client)

\* Whoever is in the backlog is accepted some day, also behind a client that has gone
\* without a word: Server.cpp does not notice the end of a connection, only the reset
\* that its answer to nothing provokes.  The Java server accepts once.
NextServed ==
    \A c \in Client : c \in ToSet(backlog) ~>
        c \notin ToSet(backlog) \/ pc = "down" \/ kind = "java"
=============================================================================
