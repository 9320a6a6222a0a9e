-------------------------------- MODULE Pop3 --------------------------------
(***************************************************************************)
(* The POP3 client of LabExercise1/project4/c/popFunc.cpp: each operation  *)
(* sends one command and takes what the next recv returns to be the answer *)
(* to it.  TCP keeps no borders between answers and may cut them anywhere, *)
(* recv gives up after three seconds, and the client never asks for the    *)
(* greeting of the server: it counts on its USER to read that.             *)
(*                                                                         *)
(* The server is external.  It works off its commands in order; what it    *)
(* sends arrives in pieces, and recv returns all pieces that are there, up *)
(* to the size of its buffer.  A status line is LineParts pieces, so a     *)
(* recv may find a part of it; what the code makes of a part, or of text   *)
(* whose beginning it has missed, is left open (IsOk, Digit, Octets and    *)
(* Parsed give the set of the outcomes).                                   *)
(***************************************************************************)
EXTENDS Naturals, Sequences, FiniteSets

CONSTANTS
    Msg,         \* the messages in the mailbox
    Pieces,      \* in how many pieces each of them comes
    LineParts,   \* in how many pieces a status line comes
    Room,        \* how many pieces the buffer of a first recv holds
    MaxSize,     \* bound: the sizes the server announces, and atoi may find in other text
    MaxCalls,    \* bound: how often the caller calls an operation
    MayBeSlow,   \* an answer may take longer than the three seconds
    None

ASSUME Pop3Assumption ==
    /\ IsFiniteSet(Msg) /\ Pieces \in [Msg -> Nat \ {0}]
    /\ LineParts \in Nat \ {0} /\ Room \in Nat \ {0}
    /\ MaxSize \in Nat /\ MaxCalls \in Nat
    /\ MayBeSlow \in BOOLEAN
    /\ None \notin Msg /\ None \notin Nat

Login   == {"USER", "PASS"}
OnMsg   == {"LIST", "UIDL", "RETR", "TOP", "DELE"}
OnNone  == {"STAT", "RSET", "QUIT"}
Command == [id : OnMsg, of : Msg] \cup [id : OnNone \cup Login, of : {None}]

\* A piece of the server's stream: part at of a status line, with the number that stands
\* after its "+OK " if one does; or of a message, which counts in octets like these.
Piece == [to : OnMsg \cup OnNone \cup Login \cup {"greeting"}, of : Msg \cup {None},
          kind : {"+OK", "-ERR", "data"}, n : Nat \cup {None}, at : Nat]

\* What a session may have met with that this client is not made for: an answer later
\* than the three seconds, TOP, a status line that a recv found in parts, a message of
\* another size than was announced (RFC 1939 stuffs its dots), and a greeting or an
\* answer to USER whose text starts with a digit.
Oddity == {"late", "top", "cut", "octets", "digit"}

VARIABLES
    pc,          \* the operation that runs, idle, off (no connection), or crashed
    call,        \* the command it sent
    need,        \* RETR: how many pieces are missing
    have,        \* RETR: what it has got
    ret,         \* what the last operation returned
    calls,
    odd,         \* what this session has met with
    srv,         \* the server's session: auth, trans, closed
    maildrop,    \* the messages it holds, and those marked in this session
    marked,
    inbox,       \* the commands on their way to it
    out,         \* what it has yet to send
    net          \* what has arrived

vars == <<pc, call, need, have, ret, calls, odd, srv, maildrop, marked, inbox, out, net>>

clientVars == <<pc, call, need, have, ret, calls>>
serverVars == <<srv, maildrop, marked>>
wire == <<inbox, out, net>>

NoCall == [id |-> "STAT", of |-> None]
NoRet  == [of |-> NoCall, ok |-> FALSE, mail |-> <<>>]

TypeOK ==
    /\ pc \in {"off", "crashed", "user", "pass", "pass_again", "idle", "answer", "retr", "more"}
    /\ call \in Command
    /\ need \in Nat /\ have \in Seq(Piece)
    /\ ret \in [of : Command, ok : BOOLEAN, mail : Seq(Piece)]
    /\ calls \in 0 .. MaxCalls
    /\ odd \subseteq Oddity
    /\ srv \in {"auth", "trans", "closed"}
    /\ maildrop \subseteq Msg /\ marked \subseteq maildrop
    /\ inbox \in Seq(Command) /\ out \in Seq(Piece) /\ net \in Seq(Piece)

Init ==
    /\ pc = "off" /\ call = NoCall /\ need = 0 /\ have = <<>> /\ ret = NoRet
    /\ calls = 0 /\ odd = {}
    /\ srv = "closed" /\ maildrop = Msg /\ marked = {}
    /\ inbox = <<>> /\ out = <<>> /\ net = <<>>

-----------------------------------------------------------------------------
(* The server and the network.                                             *)

Line(c, kind, n) ==
    [i \in 1 .. LineParts |-> [to |-> c.id, of |-> c.of, kind |-> kind, n |-> n, at |-> i]]

\* The message, and the line with a dot that ends it.
Data(c, count) ==
    [i \in 1 .. count + 1 |-> [to |-> c.id, of |-> c.of, kind |-> "data", n |-> None, at |-> i]]

There(m) == m \in maildrop \ marked

\* The server must refuse what a user who has not logged in asks for, QUIT apart, and a
\* message that is not there.
Refused(c) ==
    \/ srv = "auth" /\ c.id \notin Login \cup {"QUIT"}
    \/ c.id \in OnMsg /\ ~ There(c.of)

\* The number after "+OK ", which a space follows if there is one (for LIST and UIDL:
\* that of the message, with its size or name behind it).
Numbers(c) ==
    CASE c.id = "USER"             -> {None, 0}
      [] c.id = "PASS"             -> {None, Cardinality(maildrop)}
      [] c.id = "STAT"             -> {Cardinality(maildrop \ marked)}
      [] c.id \in {"LIST", "UIDL"} -> {Pieces[c.of]}
      [] c.id \in {"RETR", "TOP"}  -> {None} \cup 0 .. MaxSize
      [] OTHER                     -> {None}

\* RETR sends the message, TOP the beginning of it.
Rest(c) ==
    CASE c.id = "RETR" -> Data(c, Pieces[c.of])
      [] c.id = "TOP"  -> Data(c, 1)
      [] OTHER         -> <<>>

Strange(c, n) ==
    CASE c.id = "USER" /\ n # None         -> {"digit"}
      [] c.id = "RETR" /\ n # Pieces[c.of] -> {"octets"}
      [] OTHER                             -> {}

Accept(c) ==
    /\ \E n \in Numbers(c) :
          /\ out' = Line(c, "+OK", n) \o Rest(c)
          /\ odd' = odd \cup Strange(c, n)
    /\ srv' = CASE c.id = "PASS" -> "trans" [] c.id = "QUIT" -> "closed" [] OTHER -> srv
    /\ marked' = CASE c.id = "DELE"             -> marked \cup {c.of}
                   [] c.id \in {"RSET", "QUIT"} -> {}
                   [] OTHER                     -> marked
    /\ maildrop' = IF c.id = "QUIT" THEN maildrop \ marked ELSE maildrop

\* The server takes the next command; it may always refuse.
Serve ==
    LET c == Head(inbox) IN
    /\ srv # "closed" /\ inbox # <<>> /\ out = <<>>
    /\ inbox' = Tail(inbox)
    /\ \/ ~ Refused(c) /\ Accept(c)
       \/ out' = Line(c, "-ERR", None) /\ UNCHANGED <<serverVars, odd>>
    /\ UNCHANGED <<clientVars, net>>

Arrive ==
    /\ out # <<>>
    /\ net' = Append(net, Head(out)) /\ out' = Tail(out)
    /\ UNCHANGED <<clientVars, odd, serverVars, inbox>>

\* The connection breaks, with a status line or a message half sent perhaps; a session
\* that ends without QUIT deletes nothing.
Break ==
    /\ srv # "closed"
    /\ srv' = "closed" /\ marked' = {}
    /\ inbox' = <<>> /\ out' = <<>>
    /\ UNCHANGED <<clientVars, odd, maildrop, net>>

-----------------------------------------------------------------------------
(* recv, and what the code finds in its buffer.                            *)

Smaller(m, n) == IF m < n THEN m ELSE n
Taken(n) == SubSeq(net, 1, Smaller(n, Len(net)))

\* The buffer ends within a status line.
Cut(b) == b[Len(b)].kind # "data" /\ b[Len(b)].at < LineParts

\* A recv with room for n pieces returns what has arrived.
Reads(n) ==
    /\ net # <<>>
    /\ net' = SubSeq(net, Len(Taken(n)) + 1, Len(net))
    /\ odd' = odd \cup {o \in {"cut"} : Cut(Taken(n))}

Receives(n) == Reads(n) /\ UNCHANGED <<inbox, out>>

\* What a first recv finds.
Buffer == Taken(Room)

\* recv returns 0 or an error: the connection is over, or SO_RCVTIMEO ran out.
\* An answer that is on its way will still come.
Due == (srv # "closed" /\ inbox # <<>>) \/ out # <<>>
RecvFails ==
    /\ net = <<>> /\ (Due => MayBeSlow)
    /\ odd' = odd \cup {o \in {"late"} : Due}
    /\ UNCHANGED wire

\* The buffer starts with a status line, and holds all of it.
Starts(b) == b[1].kind # "data" /\ b[1].at = 1
Whole(b)  == Starts(b) /\ Len(b) >= LineParts

HasNumber(b) == b[1].kind = "+OK" /\ b[1].n # None

\* The first three characters are "+OK".
IsOk(b) ==
    IF Whole(b) THEN {b[1].kind = "+OK"}
    ELSE IF Starts(b) /\ b[1].kind = "-ERR" THEN {FALSE} ELSE BOOLEAN

\* AnalyzePass: the fifth character is a digit.  It does not look for a "+OK".
Digit(b) ==
    IF Whole(b) THEN {HasNumber(b)}
    ELSE IF Starts(b) /\ ~ HasNumber(b) THEN {FALSE} ELSE BOOLEAN

\* What atoi makes of the text from there on: 0 if there is no number (the text of a
\* refusal starts with none), and of a number that was cut what is left of it.
Number(p) == IF p.kind = "+OK" /\ p.n # None THEN p.n ELSE 0
Octets(b) ==
    IF Whole(b) THEN {Number(b[1])}
    ELSE IF Starts(b) THEN 0 .. Number(b[1]) ELSE 0 .. MaxSize

\* strchr and StrStr find the space, the end of the line or the number of the message
\* that they look for; if not they return NULL, which nothing checks.
Parsed(b) ==
    IF /\ Whole(b) /\ HasNumber(b)
       /\ call.id = "UIDL" => b[1].to = "UIDL" /\ b[1].of = call.of
    THEN {TRUE} ELSE BOOLEAN

-----------------------------------------------------------------------------
(* LoginEMail.                                                             *)

\* The socket is gone, and the server's session ends with it; what it has not worked
\* off by then it does not do.
Gone ==
    /\ inbox' = <<>> /\ out' = <<>> /\ net' = <<>>
    /\ srv' = "closed" /\ marked' = {} /\ UNCHANGED maildrop

\* Clear closes the socket.
Clear == pc' = "off" /\ Gone

\* NULL - str is a length, or NULL + 1 a string: undefined behaviour, which ends the
\* program where it reads or allocates that much.
Crash == pc' = "crashed" /\ Gone /\ UNCHANGED <<call, need, have, ret, calls, odd>>

\* send: what is sent to a server that has gone is lost.
Send(c) == inbox' = IF srv = "closed" THEN inbox ELSE Append(inbox, c)

\* LoginEMail connects, the server greets, and USER is sent at once.
Connect ==
    /\ pc \in {"off", "crashed"} /\ calls < MaxCalls
    /\ calls' = calls + 1
    /\ pc' = "user" /\ call' = [id |-> "USER", of |-> None]
    /\ srv' = "auth" /\ marked' = {}
    /\ \E n \in {None, 0} :
          /\ out' = Line([id |-> "greeting", of |-> None], "+OK", n)
          /\ odd' = {o \in {"digit"} : n # None}
    /\ inbox' = <<[id |-> "USER", of |-> None]>> /\ net' = <<>>
    /\ ret' = NoRet
    /\ UNCHANGED <<need, have, maildrop>>

\* IsOk after USER: it finds the greeting, and perhaps the answer to USER behind it
\* in the same buffer.
UserOk ==
    /\ pc = "user" /\ Reads(Room) /\ TRUE \in IsOk(Buffer)
    /\ pc' = "pass" /\ call' = [id |-> "PASS", of |-> None]
    /\ Send([id |-> "PASS", of |-> None])
    /\ UNCHANGED <<out, need, have, ret, calls, serverVars>>

\* MUTANT of PassOk: a "+OK" is enough.
PassOkAtOnce ==
    /\ pc = "pass" /\ Receives(Room) /\ TRUE \in IsOk(Buffer)
    /\ pc' = "idle"
    /\ UNCHANGED <<call, need, have, ret, calls, serverVars>>

\* IsOk(.., 1) after PASS: AnalyzePass wants the number of messages; if this is
\* not it (but the answer to USER), it receives once more.
PassOk ==
    /\ pc = "pass" /\ Receives(Room) /\ TRUE \in IsOk(Buffer)
    /\ \/ TRUE \in Digit(Buffer) /\ TRUE \in Parsed(Buffer) /\ pc' = "idle"
       \/ FALSE \in Digit(Buffer) /\ pc' = "pass_again"
    /\ UNCHANGED <<call, need, have, ret, calls, serverVars>>

\* The second recv of AnalyzePass: neither its result nor "+OK" is looked at.
PassAgain ==
    /\ pc = "pass_again" /\ Receives(Room)
    /\ TRUE \in Digit(Buffer) /\ TRUE \in Parsed(Buffer)
    /\ pc' = "idle"
    /\ UNCHANGED <<call, need, have, ret, calls, serverVars>>

\* No space after the number.
PassCrashes ==
    /\ pc \in {"pass", "pass_again"} /\ net # <<>>
    /\ pc = "pass" => TRUE \in IsOk(Buffer)
    /\ TRUE \in Digit(Buffer) /\ FALSE \in Parsed(Buffer)
    /\ Crash

\* Every way to a negative result calls Clear.
LoginFails ==
    /\ \/ pc \in {"user", "pass", "pass_again"} /\ net = <<>> /\ (Due => MayBeSlow)
       \/ pc \in {"user", "pass"} /\ net # <<>> /\ FALSE \in IsOk(Buffer)
       \/ pc = "pass_again" /\ net # <<>> /\ FALSE \in Digit(Buffer)
    /\ Clear
    /\ UNCHANGED <<call, need, have, ret, calls, odd>>

-----------------------------------------------------------------------------
(* The operations.                                                         *)

Returns(ok, mail) ==
    /\ pc' = "idle"
    /\ ret' = [of |-> call, ok |-> ok, mail |-> mail]

\* Look, GetMailSize, GetID, DeleteMail, CancelDeleteMail, MailUpdate, GetMailCount
\* and Look(.., n) send their command; send's result is ignored.
Call(c) ==
    /\ pc = "idle" /\ calls < MaxCalls
    /\ calls' = calls + 1
    /\ call' = c
    /\ pc' = IF c.id \in {"RETR", "TOP"} THEN "retr" ELSE "answer"
    /\ odd' = odd \cup {o \in {"top"} : c.id = "TOP"}
    /\ Send(c)
    /\ ret' = NoRet
    /\ UNCHANGED <<need, have, serverVars, out, net>>

\* MUTANT of Answered: DeleteMail, CancelDeleteMail and MailUpdate do not look.
AnsweredAnyway ==
    /\ pc = "answer" /\ Receives(Room)
    /\ Returns(TRUE, <<>>)
    /\ UNCHANGED <<call, need, have, calls, serverVars>>

\* The single recv of the operations that want one line.  DeleteMail,
\* CancelDeleteMail and MailUpdate look for "+OK"; GetMailCount, GetMailSize and
\* GetID do not, and look for their number at once.  (GetMailSize does not use what
\* its strchr has found, and may survive a NULL.)
Answered ==
    /\ pc = "answer" /\ Receives(Room)
    /\ IF call.id \in {"DELE", "RSET", "QUIT"}
       THEN \E ok \in IsOk(Buffer) : Returns(ok, <<>>)
       ELSE (call.id # "LIST" => TRUE \in Parsed(Buffer)) /\ Returns(TRUE, <<>>)
    /\ UNCHANGED <<call, need, have, calls, serverVars>>

AnswerCrashes ==
    /\ pc = "answer" /\ net # <<>>
    /\ call.id \in {"STAT", "LIST", "UIDL"} /\ FALSE \in Parsed(Buffer)
    /\ Crash

\* Look and Look(.., n): the first recv wants the line with the size; whatever else is
\* in its buffer is lost.  No size, or 0: NULL.  AnalyzeRetr1 does not use what its
\* strchr has found either.
RetrSize ==
    /\ pc = "retr" /\ Receives(Room)
    /\ \E size \in Octets(Buffer) :
          IF size = 0
          THEN Returns(FALSE, <<>>) /\ UNCHANGED <<need, have>>
          ELSE /\ pc' = "more" /\ need' = size + 1 /\ have' = <<>>
               /\ UNCHANGED ret
    /\ UNCHANGED <<call, calls, serverVars>>

RetrCrashes ==
    /\ pc = "retr" /\ net # <<>> /\ FALSE \in Parsed(Buffer)
    /\ Crash

\* MUTANT of RetrMore: the first recv of the message is taken for all of it.
RetrMoreOnce ==
    /\ pc = "more" /\ call.id = "RETR" /\ Receives(need)
    /\ Returns(TRUE, have \o Taken(need))
    /\ UNCHANGED <<call, calls, serverVars, need, have>>

\* MUTANT of RetrMore: recv is given the whole buffer, not what is left of it.
RetrMoreFull ==
    /\ pc = "more" /\ call.id = "RETR" /\ Receives(Room + need)
    /\ need' = need - Len(net) /\ have' = have \o net
    /\ IF need' = 0 THEN Returns(TRUE, have') ELSE UNCHANGED <<pc, ret>>
    /\ UNCHANGED <<call, calls, serverVars>>

\* The recv loop of Look, which ends when as much as was announced is there.
RetrMore ==
    /\ pc = "more" /\ call.id = "RETR" /\ Receives(need)
    /\ need' = need - Len(Taken(need)) /\ have' = have \o Taken(need)
    /\ IF need' = 0 THEN Returns(TRUE, have') ELSE UNCHANGED <<pc, ret>>
    /\ UNCHANGED <<call, calls, serverVars>>

\* Look(.., n) has no loop: it is content with what comes first.
TopRest ==
    /\ pc = "more" /\ call.id = "TOP" /\ Receives(need)
    /\ Returns(TRUE, Taken(need))
    /\ UNCHANGED <<call, need, have, calls, serverVars>>

\* AnalyzeRetr2 works on the text of the message with pointers that nothing checks;
\* it returns a rearranged message, or the program ends there.
MailCrashes ==
    /\ pc = "more" /\ net # <<>> /\ (call.id = "RETR" => need <= Len(net))
    /\ Crash

\* A recv fails: FALSE, -1 or NULL.  The connection is kept.
CallFails ==
    /\ pc \in {"answer", "retr", "more"} /\ RecvFails
    /\ Returns(FALSE, <<>>)
    /\ UNCHANGED <<call, need, have, calls, serverVars>>

-----------------------------------------------------------------------------
Operations == [id : OnMsg, of : Msg] \cup [id : OnNone, of : {None}]

LogsIn   == Connect \/ UserOk \/ PassOk \/ PassAgain \/ LoginFails
Operates == \/ \E c \in Operations : Call(c)
            \/ Answered \/ RetrSize \/ RetrMore \/ TopRest \/ CallFails
Crashes  == PassCrashes \/ AnswerCrashes \/ RetrCrashes \/ MailCrashes

Client == LogsIn \/ Operates \/ Crashes

Next == Client \/ Serve \/ Arrive \/ Break

Spec == Init /\ [][Next]_vars

-----------------------------------------------------------------------------
(* Properties.                                                             *)

\* LoginEMail reports success only if the server accepted the password, as long as no
\* recv found a status line in parts, and no text before it starts with a digit.
LoggedIn ==
    odd \cap {"cut", "digit"} = {} =>
        (pc \in {"idle", "answer", "retr", "more"} => srv # "auth")

\* This session has met with nothing that the client is not made for.
Regular == odd = {}

\* As long as that is so the stream is in step with the operations: an idle client
\* has nothing unread and nothing coming, and an operation finds its own answer
\* (IsOk, Look, GetMailSize, GetMailCount).
OwnAnswer ==
    Regular =>
        /\ (pc = "idle" => net = <<>> /\ out = <<>> /\ inbox = <<>>)
        /\ (pc \in {"answer", "retr"} /\ net # <<>> =>
              Head(net).to = call.id /\ Head(net).of = call.of)

\* Then what DeleteMail, CancelDeleteMail and MailUpdate report has happened at
\* the server, unless the connection broke after it.
Happened ==
    Regular /\ pc = "idle" /\ ret.ok =>
        /\ (ret.of.id = "DELE" /\ srv = "trans" => ret.of.of \in marked)
        /\ (ret.of.id \in {"RSET", "QUIT"} => marked = {})
        /\ (ret.of.id = "QUIT" => srv = "closed")

\* And what Look has received when it turns to the text of a message (AnalyzeRetr2) is
\* the whole message that was asked for.
MailWhole ==
    Regular /\ ret.ok /\ ret.of.id = "RETR" =>
        ret.mail = Data(ret.of, Pieces[ret.of.of])
=============================================================================
