-------------------------------- MODULE Smtp --------------------------------
(***************************************************************************)
(* The SMTP client of LabExercise1/project3/cpp/SMTP/SMTP/SMTP.cpp: main,  *)
(* AuthorizationLogin, SendMail and GetResponse, over a connection that    *)
(* brings the server's replies in any pieces, late, or not at all.  The    *)
(* server is the environment: it answers the requests one by one, may      *)
(* refuse any, and may close or reset the connection at any time.          *)
(***************************************************************************)
EXTENDS Base64

CONSTANTS
    Credentials,   \* what a user may sign in with: account and password
    Registered,    \* those of them the server knows
    Files,         \* what the file to be attached may be
    Absent,        \* _access does not find it
    Locked,        \* CreateFile cannot open it
    None

ASSUME SmtpAssumption ==
    /\ Registered \subseteq Credentials
    /\ \A c \in Credentials : c \in [account : Seq(Byte \ {NUL}), password : Seq(Byte \ {NUL})]
    /\ \A f \in Files \ {Absent, Locked} : f \in Seq(Byte)

\* What the client waits for in turn, and the code it expects (response_table).
Steps == <<"greeting", "ehlo", "auth", "account", "password",
           "mail", "rcpt", "data", "content", "quit">>
Step == ToSet(Steps)
Expected == [greeting |-> 220, ehlo |-> 250, auth |-> 334, account |-> 334, password |-> 235,
             mail |-> 250, rcpt |-> 250, data |-> 354, content |-> 250, quit |-> 221]

Code == ToSet([i \in DOMAIN Steps |-> Expected[Steps[i]]]) \cup {500}
Text == 0           \* the part of a reply that has no code in front

NextStep(step) ==
    IF step = "quit" THEN "sent" ELSE Steps[CHOOSE i \in 2 .. 10 : Steps[i - 1] = step]

VARIABLES
    cred,      \* who sends the mail
    file,      \* the file to be attached, when it is looked at
    pc,        \* which reply GetResponse waits for
    guesses,   \* how often an uninitialised number was the code that was expected
    toSrv,     \* requests on their way
    wire,      \* replies on their way, in the pieces TCP may make of them
    arrived,   \* what has arrived of them and was not read
    link,      \* the connection, as the server left it
    stage,     \* the last request the server granted
    login,     \* what it was sent as account
    user,      \* whom it believes to talk to
    mails      \* what it has accepted for delivery

vars == <<cred, file, pc, guesses, toSrv, wire, arrived, link, stage, login, user, mails>>

client == <<cred, file, pc, guesses>>
server == <<stage, login, user, mails>>

Digits == Seq(Digit \cup {Pad})
Request == [step : Step, text : Digits \cup {None}]
Piece == [code : Code \cup {Text}, of : Step]

TypeOK ==
    /\ cred \in Credentials /\ file \in Files
    /\ pc \in Step \cup {"sent", "failed"} /\ guesses \in 0 .. Len(Steps)
    /\ toSrv \in Seq(Request) /\ Len(toSrv) <= guesses + 1
    /\ wire \in Seq(Piece) /\ arrived \in Seq(Piece)
    /\ link \in {"open", "closed", "reset"}
    /\ stage \in Step \cup {"new"} /\ login \in Digits \cup {None}
    /\ user \in Registered \cup {None}
    /\ mails \in Seq([user : Registered, file : Digits \cup {None}]) /\ Len(mails) <= 1

Init ==
    /\ cred \in Credentials /\ file \in Files
    /\ pc = "greeting" /\ guesses = 0
    /\ toSrv = <<>> /\ wire = <<>> /\ arrived = <<>>
    /\ link = "open" /\ stage = "new" /\ login = None /\ user = None /\ mails = <<>>

-----------------------------------------------------------------------------
(* The server and the network.                                             *)

Reply(code, step) == <<[code |-> code, of |-> step], [code |-> Text, of |-> step]>>
Says(pieces) == wire' = wire \o pieces

Greets ==
    /\ stage = "new" /\ link = "open"
    /\ stage' = "greeting" /\ Says(Reply(220, "greeting"))
    /\ UNCHANGED <<client, toSrv, arrived, link, login, user, mails>>

\* The request may follow what was granted before.
InTurn(step) == step = "quit" \/ NextStep(stage) = step

Knows(c, text) == IsBase64(login, c.account) /\ IsBase64(text, c.password)

\* What a request that is granted does.
Effect(r) ==
    /\ login' = IF r.step = "account" THEN r.text ELSE login
    /\ IF r.step = "password"
       THEN \E c \in Registered : Knows(c, r.text) /\ user' = c
       ELSE UNCHANGED user
    /\ mails' = IF r.step = "content" THEN Append(mails, [user |-> user, file |-> r.text])
                ELSE mails

Grants ==
    LET r == Head(toSrv)
        reply == Reply(Expected[r.step], r.step)
    IN
    /\ link = "open" /\ toSrv # <<>> /\ stage # "new" /\ InTurn(r.step)
    /\ Effect(r)
    /\ stage' = r.step /\ toSrv' = Tail(toSrv)
    /\ Says(reply) \/ (r.step = "ehlo" /\ Says(reply \o reply))
    /\ link' = IF r.step = "quit" THEN "closed" ELSE link
    /\ UNCHANGED <<client, arrived>>

Refuses ==
    /\ link = "open" /\ toSrv # <<>> /\ stage # "new"
    /\ Says(Reply(500, Head(toSrv).step))
    /\ toSrv' = Tail(toSrv)
    /\ UNCHANGED <<client, arrived, link, server>>

Closes ==
    /\ link = "open"
    /\ \/ link' = "closed" /\ UNCHANGED <<wire, arrived>>
       \/ link' = "reset" /\ wire' = <<>> /\ arrived' = <<>>
    /\ UNCHANGED <<client, toSrv, server>>

Deliver ==
    /\ wire # <<>>
    /\ arrived' = Append(arrived, Head(wire)) /\ wire' = Tail(wire)
    /\ UNCHANGED <<client, toSrv, link, server>>

-----------------------------------------------------------------------------
(* The client.                                                             *)

\* MUTANT of Attachment: the handle of CreateFile is not compared with INVALID_HANDLE_VALUE.
AttachmentUnchecked ==
    IF file = Absent THEN None
    ELSE base64_encode(IF file = Locked THEN <<>> ELSE CString(file))

\* The attachment as SendMail puts it into the content: a file that is not there, and
\* one that cannot be opened, are left out; of the others sprintf and strlen see what
\* comes before the first NUL byte.
Attachment == IF file \in {Absent, Locked} THEN None ELSE base64_encode(CString(file))

\* What the request of a step carries.
TextOf(step) ==
    CASE step = "account"  -> base64_encode(cred.account)
      [] step = "password" -> base64_encode(cred.password)
      [] step = "content"  -> Attachment
      [] OTHER             -> None

\* MUTANT of Sends: the content lacks the line that ends it, and the server waits on.
SendsOpenEnd(step) ==
    toSrv' = IF link = "open" /\ step \notin {"sent", "content"}
             THEN Append(toSrv, [step |-> step, text |-> TextOf(step)]) ELSE toSrv

\* The send before GetResponse; its result is ignored.
Sends(step) ==
    toSrv' = IF link = "open" /\ step # "sent"
             THEN Append(toSrv, [step |-> step, text |-> TextOf(step)]) ELSE toSrv

\* GetResponse returns TRUE, and the next request goes out.
Succeeds(n) ==
    /\ pc' = NextStep(pc) /\ guesses' = guesses + n
    /\ Sends(NextStep(pc))

\* It returns FALSE: every caller closes the socket and gives up.
Fails == pc' = "failed" /\ UNCHANGED <<guesses, toSrv>>

\* MUTANT of Matches: any code that promises success will do.
MatchesAny(code) == code \in Code \ {500}

\* The three characters are the code of response_table.
Matches(code) == code = Expected[pc]

\* One recv takes all that has arrived, and only its first three characters count.
\* The character after them is not initialised: if it is a digit, no code matches.
GetResponse ==
    /\ pc \in Step /\ arrived # <<>>
    /\ arrived' = <<>>
    /\ \/ Matches(Head(arrived).code) /\ Succeeds(0)
       \/ Fails
    /\ UNCHANGED <<cred, file, wire, link, server>>

\* The number is left uninitialised when what came does not begin with a code, or when
\* nothing came because the connection is closed: it may be what is expected.
Guesses ==
    /\ pc \in Step
    /\ IF arrived = <<>> THEN wire = <<>> /\ link = "closed" ELSE Head(arrived).code = Text
    /\ arrived' = <<>>
    /\ Succeeds(1) \/ Fails
    /\ UNCHANGED <<cred, file, wire, link, server>>

\* SOCKET_ERROR
RecvFails ==
    /\ pc \in Step /\ link = "reset" /\ arrived = <<>>
    /\ Fails
    /\ UNCHANGED <<cred, file, wire, arrived, link, server>>

-----------------------------------------------------------------------------
Client == GetResponse \/ Guesses \/ RecvFails
Server == Greets \/ Grants \/ Refuses

Next == Client \/ Server \/ Closes \/ Deliver

Spec == Init /\ [][Next]_vars

\* recv has no time limit: that the client ends depends on a server that answers, or
\* closes, and on a network that delivers.
FairSpec == Spec /\ WF_vars(Client) /\ WF_vars(Server) /\ WF_vars(Deliver)

-----------------------------------------------------------------------------
(* Properties.                                                             *)

\* "Send ok!" (main): the server has accepted one mail, from this user, with the file up
\* to its first NUL byte if it could be read; unless GetResponse compared an uninitialised
\* number: one is enough to say it of a mail that the server has refused.
SendOk ==
    pc = "sent" /\ guesses = 0 =>
        /\ mails # <<>> /\ mails[1].user = cred
        /\ IF file \in {Absent, Locked} THEN mails[1].file = None
           ELSE IsBase64(mails[1].file, CString(file))

\* A reply is never taken for the answer to another request, though there is only one
\* recv for each and the lines of an EHLO answer may come one by one: as long as no
\* uninitialised number was compared (GetResponse).
Answered == pc \in Step /\ pc' = NextStep(pc) /\ guesses' = 0

InStep == [][Answered => Head(arrived).of = pc]_vars

\* What the POP3 client of project4/c makes of an attachment is what the SMTP client of
\* project3 put into it: two base64 routines written apart (SMTP.cpp, Func.cpp).
ReadBack ==
    \A i \in DOMAIN mails : file \notin {Absent, Locked} =>
        /\ CString(pop3_decode(mails[i].file)) = CString(file)
        /\ base64_decode(mails[i].file) = CString(file)

\* The client comes to its end.
Finishes == <>(pc \in {"sent", "failed"})
=============================================================================
