----------------------------- MODULE Pop3Proofs -----------------------------
(***************************************************************************)
(* Proofs about Pop3: its types, that a login needs the server's consent   *)
(* as long as TCP cut no line, and that a session which has met with       *)
(* nothing odd (Regular) gives every operation its own answer, has done    *)
(* what it reports, and returns whole messages: for any mailbox, any size  *)
(* of the buffer, any number of parts of a line, and any rest of pieces.   *)
(***************************************************************************)
EXTENDS Pop3, FiniteSetTheorems, SequenceTheorems, TLAPS

LEMMA Counts ==
    ASSUME NEW S, S \subseteq Msg
    PROVE  Cardinality(S) \in Nat
BY FS_Subset, FS_CardinalityType, Pop3Assumption

LEMMA PartsIs == LineParts \in Nat \ {0} /\ Room \in Nat \ {0} /\ MaxSize \in Nat
BY Pop3Assumption

\* What a recv takes and what it leaves.
LEMMA TakenIs ==
    ASSUME net \in Seq(Piece), NEW n \in Nat
    PROVE  /\ Taken(n) \in Seq(Piece) /\ Len(Taken(n)) = Smaller(n, Len(net))
           /\ \A i \in 1 .. Len(Taken(n)) : Taken(n)[i] = net[i]
           /\ Smaller(n, Len(net)) \in 0 .. Len(net) /\ Smaller(n, Len(net)) <= n
           /\ Smaller(n, Len(net)) = n \/ Smaller(n, Len(net)) = Len(net)
<1>1. /\ Smaller(n, Len(net)) \in 0 .. Len(net) /\ Smaller(n, Len(net)) <= n
      /\ Smaller(n, Len(net)) = n \/ Smaller(n, Len(net)) = Len(net)
    BY DEF Smaller
<1>2. PICK k \in 0 .. Len(net) : k = Smaller(n, Len(net))
    BY <1>1
<1>3. /\ SubSeq(net, 1, k) \in Seq(Piece) /\ Len(SubSeq(net, 1, k)) = k
      /\ \A i \in 1 .. k : SubSeq(net, 1, k)[i] = net[i]
    OBVIOUS
<1> QED BY <1>1, <1>2, <1>3 DEF Taken

LEMMA LeftIs ==
    ASSUME net \in Seq(Piece), net # <<>>, NEW n \in Nat,
           net' = SubSeq(net, Len(Taken(n)) + 1, Len(net))
    PROVE  /\ net' \in Seq(Piece) /\ Len(Taken(n)) \in 0 .. Len(net) /\ Len(Taken(n)) <= n
           /\ n > 0 => Len(Taken(n)) > 0
           /\ Len(net') = Len(net) - Len(Taken(n))
           /\ \A i \in 1 .. Len(net') : net'[i] = net[i + Len(Taken(n))]
           /\ Len(net') = 0 => net' = <<>>
<1>1. Len(net) \in Nat \ {0}
    OBVIOUS
<1>2. PICK k \in 0 .. Len(net) : k = Len(Taken(n)) /\ k <= n /\ (n > 0 => k > 0)
    BY <1>1, TakenIs
<1>3. /\ SubSeq(net, k + 1, Len(net)) \in Seq(Piece)
      /\ Len(SubSeq(net, k + 1, Len(net))) = Len(net) - k
      /\ \A i \in 1 .. Len(net) - k : SubSeq(net, k + 1, Len(net))[i] = net[i + k]
    OBVIOUS
<1>4. net' \in Seq(Piece) /\ (Len(net') = 0 => net' = <<>>)
    BY <1>2, <1>3
<1> QED BY <1>2, <1>3, <1>4

LEMMA HeadIs ==
    ASSUME net \in Seq(Piece), net # <<>>
    PROVE  Head(net) = net[1] /\ Head(net) \in Piece /\ Len(net) \in Nat \ {0}
OBVIOUS

\* What a first recv finds is the beginning of what has arrived.
LEMMA BufferIs ==
    ASSUME net \in Seq(Piece), net # <<>>
    PROVE  /\ Len(Buffer) \in Nat \ {0} /\ Buffer[1] = net[1] /\ Buffer[1] \in Piece
<1>1. Len(net) \in Nat \ {0} /\ net[1] \in Piece
    OBVIOUS
<1>2. PICK k \in Nat : k = Len(Buffer) /\ k > 0 /\ \A i \in 1 .. k : Buffer[i] = net[i]
  <2>1. PICK s \in Nat : s = Smaller(Room, Len(net)) /\ s > 0
    BY <1>1, PartsIs DEF Smaller
  <2> QED BY <2>1, PartsIs, TakenIs DEF Buffer
<1> QED BY <1>1, <1>2

LEMMA NumberIs ==
    ASSUME NEW p \in Piece
    PROVE  Number(p) \in Nat
<1>1. p.n \in Nat \cup {None}
    BY DEF Piece
<1> QED BY <1>1 DEF Number

LEMMA OctetsIs ==
    ASSUME net \in Seq(Piece), net # <<>>, NEW size \in Octets(Buffer)
    PROVE  size \in Nat
<1>1. PICK k \in Nat : k = Number(Buffer[1])
    BY BufferIs, NumberIs
<1>2. size \in {k} \/ size \in 0 .. k \/ size \in 0 .. MaxSize
    BY <1>1 DEF Octets
<1> QED BY <1>2, PartsIs

-----------------------------------------------------------------------------
(* What the server says.                                                   *)

LEMMA LineIs ==
    ASSUME NEW c, c.id \in OnMsg \cup OnNone \cup Login \cup {"greeting"},
           c.of \in Msg \cup {None}, NEW kind \in {"+OK", "-ERR"}, NEW n \in Nat \cup {None}
    PROVE  /\ Line(c, kind, n) \in Seq(Piece) /\ Len(Line(c, kind, n)) = LineParts
           /\ \A i \in 1 .. LineParts :
                 /\ Line(c, kind, n)[i].to = c.id /\ Line(c, kind, n)[i].of = c.of
                 /\ Line(c, kind, n)[i].kind = kind /\ Line(c, kind, n)[i].n = n
                 /\ Line(c, kind, n)[i].at = i
<1>1. \A i \in 1 .. LineParts :
         [to |-> c.id, of |-> c.of, kind |-> kind, n |-> n, at |-> i] \in Piece
    BY DEF Piece
<1> QED BY <1>1, PartsIs DEF Line

LEMMA DataIs ==
    ASSUME NEW c \in Command, NEW count \in Nat
    PROVE  /\ Data(c, count) \in Seq(Piece) /\ Len(Data(c, count)) = count + 1
           /\ \A i \in 1 .. count + 1 : /\ Data(c, count)[i].to = c.id
                                        /\ Data(c, count)[i].of = c.of
<1>1. \A i \in 1 .. count + 1 :
         [to |-> c.id, of |-> c.of, kind |-> "data", n |-> None, at |-> i] \in Piece
    BY DEF Command, Piece, OnMsg, OnNone, Login
<1> QED BY <1>1 DEF Data

Mail(c) == Data(c, Pieces[c.of])

LEMMA JoinedIs ==
    ASSUME NEW l \in Seq(Piece), NEW d \in Seq(Piece)
    PROVE  /\ l \o d \in Seq(Piece) /\ Len(l \o d) = Len(l) + Len(d)
           /\ \A i \in 1 .. Len(l) : (l \o d)[i] = l[i]
           /\ \A i \in 1 .. Len(d) : (l \o d)[Len(l) + i] = d[i]
<1>1. /\ l \o d \in Seq(Piece) /\ Len(l \o d) = Len(l) + Len(d)
      /\ \A i \in 1 .. Len(l) + Len(d) :
            (l \o d)[i] = IF i <= Len(l) THEN l[i] ELSE d[i - Len(l)]
    BY ONLY l \in Seq(Piece), d \in Seq(Piece), ConcatProperties, Zenon
<1>2. Len(l) \in Nat /\ Len(d) \in Nat
    BY LenProperties
<1>3. ASSUME NEW i \in 1 .. Len(l) PROVE (l \o d)[i] = l[i]
  <2>1. i \in 1 .. Len(l) + Len(d) /\ i <= Len(l)
    BY <1>2
  <2> QED BY <1>1, <2>1
<1>4. ASSUME NEW i \in 1 .. Len(d) PROVE (l \o d)[Len(l) + i] = d[i]
  <2>1. /\ Len(l) + i \in 1 .. Len(l) + Len(d) /\ ~ (Len(l) + i <= Len(l))
        /\ (Len(l) + i) - Len(l) = i
    BY <1>2
  <2> QED BY <1>1, <2>1
<1> QED BY <1>1, <1>3, <1>4

\* An answer starts with its line, and is no more than that unless it is the message.
Says(c, kind, n, a) ==
    /\ a \in Seq(Piece) /\ Len(a) >= LineParts
    /\ \A i \in 1 .. Len(a) : a[i].to = c.id /\ a[i].of = c.of
    /\ \A i \in 1 .. LineParts : a[i].kind = kind /\ a[i].n = n /\ a[i].at = i
    /\ kind = "-ERR" \/ c.id \notin {"RETR", "TOP"} => Len(a) = LineParts
    /\ kind = "+OK" /\ c.id = "RETR" =>
          /\ Len(a) = LineParts + Len(Mail(c))
          /\ \A i \in 1 .. Len(Mail(c)) : a[LineParts + i] = Mail(c)[i]

LEMMA SaysNo ==
    ASSUME NEW c \in Command
    PROVE  Says(c, "-ERR", None, Line(c, "-ERR", None))
<1>1. c.id \in OnMsg \cup OnNone \cup Login \cup {"greeting"} /\ c.of \in Msg \cup {None}
    BY DEF Command
<1>2. PICK a : a = Line(c, "-ERR", None)
    OBVIOUS
<1>3. /\ a \in Seq(Piece) /\ Len(a) = LineParts
      /\ \A i \in 1 .. LineParts : /\ a[i].to = c.id /\ a[i].of = c.of
                                   /\ a[i].kind = "-ERR" /\ a[i].n = None /\ a[i].at = i
    BY <1>1, <1>2, LineIs
<1> QED BY <1>2, <1>3, PartsIs DEF Says

LEMMA SaysYes ==
    ASSUME TypeOK, NEW c \in Command, ~ Refused(c), NEW n \in Numbers(c)
    PROVE  n \in Nat \cup {None} /\ Says(c, "+OK", n, Line(c, "+OK", n) \o Rest(c))
<1>1. /\ c.id \in OnMsg \cup OnNone \cup Login \cup {"greeting"} /\ c.of \in Msg \cup {None}
      /\ c.id \in OnMsg => c.of \in Msg
    BY DEF Command, OnNone, OnMsg, Login
<1>2. c.id \in OnMsg => Pieces[c.of] \in Nat
    BY <1>1, Pop3Assumption
<1>3. n \in Nat \cup {None}
  <2>1. Cardinality(maildrop) \in Nat /\ Cardinality(maildrop \ marked) \in Nat
    BY Counts DEF TypeOK
  <2>2. CASE c.id \in {"RETR", "TOP"}
    BY <2>2, PartsIs DEF Numbers
  <2>3. CASE c.id \in {"LIST", "UIDL"}
    <3>1. Numbers(c) = {Pieces[c.of]}
      BY <2>3 DEF Numbers
    <3> QED BY <1>2, <2>3, <3>1 DEF OnMsg
  <2>4. CASE c.id \notin {"RETR", "TOP", "LIST", "UIDL"}
    BY <2>1, <2>4 DEF Numbers
  <2> QED BY <2>2, <2>3, <2>4
<1>4. PICK l \in Seq(Piece), d \in Seq(Piece) :
         /\ l = Line(c, "+OK", n) /\ d = Rest(c) /\ Len(l) = LineParts
         /\ \A i \in 1 .. LineParts : /\ l[i].to = c.id /\ l[i].of = c.of
                                      /\ l[i].kind = "+OK" /\ l[i].n = n /\ l[i].at = i
         /\ \A i \in 1 .. Len(d) : d[i].to = c.id /\ d[i].of = c.of
         /\ c.id \notin {"RETR", "TOP"} => Len(d) = 0
         /\ c.id = "RETR" => d = Mail(c)
  <2>1. PICK l : l = Line(c, "+OK", n)
    OBVIOUS
  <2>2. /\ l \in Seq(Piece) /\ Len(l) = LineParts
        /\ \A i \in 1 .. LineParts : /\ l[i].to = c.id /\ l[i].of = c.of
                                     /\ l[i].kind = "+OK" /\ l[i].n = n /\ l[i].at = i
    <3>1. /\ Line(c, "+OK", n) \in Seq(Piece) /\ Len(Line(c, "+OK", n)) = LineParts
          /\ \A i \in 1 .. LineParts :
                /\ Line(c, "+OK", n)[i].to = c.id /\ Line(c, "+OK", n)[i].of = c.of
                /\ Line(c, "+OK", n)[i].kind = "+OK" /\ Line(c, "+OK", n)[i].n = n
                /\ Line(c, "+OK", n)[i].at = i
      BY ONLY <1>1, <1>3, LineIs
    <3> QED BY <2>1, <3>1
  <2>3. PICK d : d = Rest(c)
    OBVIOUS
  <2>4. /\ d \in Seq(Piece) /\ \A i \in 1 .. Len(d) : d[i].to = c.id /\ d[i].of = c.of
        /\ c.id \notin {"RETR", "TOP"} => Len(d) = 0
        /\ c.id = "RETR" => d = Mail(c)
    <3>1. CASE c.id = "RETR"
      <4>1. d = Data(c, Pieces[c.of]) /\ Pieces[c.of] \in Nat
        BY <1>2, <2>3, <3>1 DEF Rest, OnMsg
      <4>2. /\ d \in Seq(Piece) /\ Len(d) = Pieces[c.of] + 1
            /\ \A i \in 1 .. Pieces[c.of] + 1 : d[i].to = c.id /\ d[i].of = c.of
        BY <4>1, DataIs
      <4> QED BY <3>1, <4>1, <4>2 DEF Mail
    <3>2. CASE c.id = "TOP"
      <4>1. d = Data(c, 1)
        BY <2>3, <3>2 DEF Rest
      <4>2. /\ d \in Seq(Piece) /\ Len(d) = 1 + 1
            /\ \A i \in 1 .. 1 + 1 : d[i].to = c.id /\ d[i].of = c.of
        BY <4>1, DataIs
      <4> QED BY <3>2, <4>2
    <3>3. CASE c.id \notin {"RETR", "TOP"}
      BY <2>3, <3>3 DEF Rest
    <3> QED BY <3>1, <3>2, <3>3
  <2> QED BY <2>1, <2>2, <2>3, <2>4
<1>5. PICK a : a = l \o d
    OBVIOUS
<1>6. /\ a \in Seq(Piece) /\ Len(a) = LineParts + Len(d)
      /\ \A i \in 1 .. LineParts : a[i] = l[i]
      /\ \A i \in 1 .. Len(d) : a[LineParts + i] = d[i]
    BY <1>4, <1>5, JoinedIs
<1>7. Len(d) \in Nat
    BY <1>4
<1>8. ASSUME NEW i \in 1 .. Len(a) PROVE a[i].to = c.id /\ a[i].of = c.of
  <2>1. CASE i <= LineParts
    <3>1. i \in 1 .. LineParts
      BY <2>1, PartsIs
    <3> QED BY <1>4, <1>6, <3>1
  <2>2. CASE ~ (i <= LineParts)
    <3>1. i - LineParts \in 1 .. Len(d) /\ LineParts + (i - LineParts) = i
      BY <1>6, <1>7, <2>2, PartsIs
    <3> QED BY <1>4, <1>6, <3>1
  <2> QED BY <2>1, <2>2
<1>9. \A i \in 1 .. LineParts : a[i].kind = "+OK" /\ a[i].n = n /\ a[i].at = i
    BY <1>4, <1>6
<1>10. Len(a) >= LineParts /\ (c.id \notin {"RETR", "TOP"} => Len(a) = LineParts)
    BY <1>4, <1>6, <1>7, PartsIs
<1>11. c.id = "RETR" => /\ Len(a) = LineParts + Len(Mail(c))
                        /\ \A i \in 1 .. Len(Mail(c)) : a[LineParts + i] = Mail(c)[i]
    BY <1>4, <1>6
<1>12. Says(c, "+OK", n, a)
    BY ONLY <1>6, <1>8, <1>9, <1>10, <1>11 DEF Says
<1> QED BY <1>3, <1>4, <1>5, <1>12

\* What the server does with the next command.
LEMMA ServeIs ==
    ASSUME TypeOK, Serve
    PROVE  \E c \in Command, kind \in {"+OK", "-ERR"}, n \in Nat \cup {None} :
              /\ c = Head(inbox) /\ Says(c, kind, n, out')
              /\ kind = "+OK" =>
                    /\ ~ Refused(c) /\ odd' = odd \cup Strange(c, n)
                    /\ c.id = "PASS" => srv' = "trans"
                    /\ c.id = "QUIT" => srv' = "closed" /\ maildrop' = maildrop \ marked
                    /\ c.id \notin {"PASS", "QUIT"} => srv' = srv
                    /\ c.id # "QUIT" => maildrop' = maildrop
                    /\ c.id = "DELE" => marked' = marked \cup {c.of}
                    /\ c.id \in {"RSET", "QUIT"} => marked' = {}
                    /\ c.id \notin {"DELE", "RSET", "QUIT"} => marked' = marked
              /\ kind = "-ERR" => /\ n = None /\ odd' = odd /\ srv' = srv
                                  /\ maildrop' = maildrop /\ marked' = marked
<1>1. PICK c \in Command : c = Head(inbox)
    BY DEF Serve, TypeOK
<1>2. CASE ~ Refused(c) /\ Accept(c)
  <2>1. PICK n \in Numbers(c) : out' = Line(c, "+OK", n) \o Rest(c) /\ odd' = odd \cup Strange(c, n)
    BY <1>2 DEF Accept
  <2>2. n \in Nat \cup {None} /\ Says(c, "+OK", n, out')
    BY <1>2, <2>1, SaysYes
  <2>3. /\ c.id = "PASS" => srv' = "trans"
        /\ c.id = "QUIT" => srv' = "closed" /\ maildrop' = maildrop \ marked
        /\ c.id \notin {"PASS", "QUIT"} => srv' = srv
        /\ c.id # "QUIT" => maildrop' = maildrop
        /\ c.id = "DELE" => marked' = marked \cup {c.of}
        /\ c.id \in {"RSET", "QUIT"} => marked' = {}
        /\ c.id \notin {"DELE", "RSET", "QUIT"} => marked' = marked
    BY <1>2 DEF Accept
  <2> QED BY <1>1, <1>2, <2>1, <2>2, <2>3
<1>3. CASE out' = Line(c, "-ERR", None) /\ UNCHANGED <<serverVars, odd>>
  <2>1. Says(c, "-ERR", None, out') /\ odd' = odd /\ srv' = srv
        /\ maildrop' = maildrop /\ marked' = marked
    BY <1>3, SaysNo DEF serverVars
  <2> QED BY <1>1, <2>1
<1> QED BY <1>1, <1>2, <1>3 DEF Serve

-----------------------------------------------------------------------------
(* The types.                                                              *)

Result == [of : Command, ok : BOOLEAN, mail : Seq(Piece)]

LEMMA ResultIs ==
    ASSUME NEW c \in Command, NEW ok \in BOOLEAN, NEW mail \in Seq(Piece)
    PROVE  [of |-> c, ok |-> ok, mail |-> mail] \in Result
BY DEF Result

LEMMA TypeInit ==
    ASSUME Init
    PROVE  TypeOK
<1>1. NoCall \in Command /\ NoRet \in [of : Command, ok : BOOLEAN, mail : Seq(Piece)]
  BY DEF NoCall, NoRet, Command, OnNone
<1>2. calls \in 0 .. MaxCalls
  BY Pop3Assumption DEF Init
<1>3. maildrop \subseteq Msg /\ marked \subseteq maildrop
  BY DEF Init
<1>4. have \in Seq(Piece) /\ inbox \in Seq(Command) /\ out \in Seq(Piece) /\ net \in Seq(Piece)
  BY DEF Init
<1>5. odd \subseteq Oddity
  BY DEF Init
<1> QED BY <1>1, <1>2, <1>3, <1>4, <1>5 DEF Init, TypeOK

\* A recv leaves the types of the stream and of what the session has met with.
LEMMA ReadsKeep ==
    ASSUME TypeOK, NEW n \in Nat, Reads(n)
    PROVE  /\ net \in Seq(Piece) /\ net # <<>> /\ net' \in Seq(Piece) /\ odd' \subseteq Oddity
           /\ Taken(n) \in Seq(Piece) /\ Len(Taken(n)) \in Nat /\ Len(Taken(n)) <= n
<1>1. net \in Seq(Piece) /\ net # <<>> /\ net' = SubSeq(net, Len(Taken(n)) + 1, Len(net))
  BY DEF Reads, TypeOK
<1>2. odd' \subseteq Oddity
  BY DEF Reads, TypeOK, Oddity
<1>3. Len(Taken(n)) \in Nat /\ Len(Taken(n)) <= n /\ net' \in Seq(Piece)
  <2>1. Len(Taken(n)) \in 0 .. Len(net) /\ Len(Taken(n)) <= n /\ net' \in Seq(Piece)
    BY <1>1, LeftIs
  <2>2. Len(net) \in Nat
    BY <1>1
  <2> QED BY <2>1, <2>2
<1> QED BY <1>1, <1>2, <1>3, TakenIs

LEMMA LoginTypes ==
    ASSUME TypeOK, LogsIn \/ Crashes
    PROVE  TypeOK'
<1> USE DEF TypeOK
<1>1. CASE Connect
  <2>1. /\ [id |-> "USER", of |-> None] \in Command
        /\ NoRet \in [of : Command, ok : BOOLEAN, mail : Seq(Piece)]
    BY DEF Command, NoRet, NoCall, Login, OnNone
  <2>2. calls' \in 0 .. MaxCalls
    BY <1>1, Pop3Assumption DEF Connect
  <2>3. inbox' \in Seq(Command) /\ net' \in Seq(Piece) /\ odd' \subseteq Oddity
    BY <1>1, <2>1 DEF Connect, Oddity
  <2>4. PICK n \in Nat \cup {None} : out' = Line([id |-> "greeting", of |-> None], "+OK", n)
    BY <1>1 DEF Connect
  <2>5. PICK c : c = [id |-> "greeting", of |-> None]
    OBVIOUS
  <2>6. out' \in Seq(Piece)
    <3>1. c.id \in OnMsg \cup OnNone \cup Login \cup {"greeting"} /\ c.of \in Msg \cup {None}
      BY <2>5
    <3>2. Line(c, "+OK", n) \in Seq(Piece)
      BY ONLY <3>1, n \in Nat \cup {None}, LineIs
    <3> QED BY <2>4, <2>5, <3>2
  <2> QED BY <1>1, <2>1, <2>2, <2>3, <2>6 DEF Connect
<1>2. CASE UserOk
  <2>1. [id |-> "PASS", of |-> None] \in Command
    BY DEF Command, Login
  <2>2. net' \in Seq(Piece) /\ odd' \subseteq Oddity
    BY <1>2, ReadsKeep, PartsIs DEF UserOk
  <2>3. inbox' \in Seq(Command)
    BY <1>2, <2>1 DEF UserOk, Send
  <2> QED BY <1>2, <2>1, <2>2, <2>3 DEF UserOk, serverVars
<1>3. CASE PassOk \/ PassAgain
  <2>1. net' \in Seq(Piece) /\ odd' \subseteq Oddity
    BY <1>3, ReadsKeep, PartsIs DEF PassOk, PassAgain, Receives
  <2> QED BY <1>3, <2>1 DEF PassOk, PassAgain, Receives, serverVars
<1>4. CASE LoginFails
  BY <1>4 DEF LoginFails, Clear, Gone
<1>5. CASE Crashes
  <2>1. Crash
    BY <1>5 DEF Crashes, PassCrashes, AnswerCrashes, RetrCrashes, MailCrashes
  <2> QED BY <2>1 DEF Crash, Gone
<1> QED BY <1>1, <1>2, <1>3, <1>4, <1>5 DEF LogsIn

LEMMA OperateTypes ==
    ASSUME TypeOK, Operates
    PROVE  TypeOK'
<1> USE DEF TypeOK
<1>1. ASSUME NEW c \in Operations, Call(c) PROVE TypeOK'
  <2>1. c \in Command
    BY DEF Operations, Command
  <2>2. inbox' \in Seq(Command)
    BY <1>1, <2>1 DEF Call, Send
  <2>3. NoRet \in [of : Command, ok : BOOLEAN, mail : Seq(Piece)]
    BY DEF Command, NoRet, NoCall, OnNone
  <2>4. calls' \in 0 .. MaxCalls
    BY <1>1, Pop3Assumption DEF Call
  <2>5. odd' \subseteq Oddity
    BY <1>1 DEF Call, Oddity
  <2> QED BY <1>1, <2>1, <2>2, <2>3, <2>4, <2>5 DEF Call, serverVars
<1>2. CASE Answered
  <2>1. net' \in Seq(Piece) /\ odd' \subseteq Oddity
    BY <1>2, ReadsKeep, PartsIs DEF Answered, Receives
  <2>2. PICK ok \in BOOLEAN : ret' = [of |-> call, ok |-> ok, mail |-> <<>>] /\ pc' = "idle"
    BY <1>2 DEF Answered, Returns, IsOk
  <2>3. ret' \in Result
    <3>1. <<>> \in Seq(Piece) /\ call \in Command
      OBVIOUS
    <3> HIDE DEF TypeOK
    <3> QED BY <2>2, <3>1, ResultIs
  <2> QED BY <1>2, <2>1, <2>2, <2>3 DEF Answered, Receives, serverVars, Result
<1>3. CASE RetrSize
  <2>1. net \in Seq(Piece) /\ net # <<>> /\ net' \in Seq(Piece) /\ odd' \subseteq Oddity
    BY <1>3, ReadsKeep, PartsIs DEF RetrSize, Receives
  <2>2. PICK size \in Octets(Buffer) :
           IF size = 0
           THEN Returns(FALSE, <<>>) /\ UNCHANGED <<need, have>>
           ELSE /\ pc' = "more" /\ need' = size + 1 /\ have' = <<>>
                /\ UNCHANGED ret
    BY <1>3 DEF RetrSize
  <2>3. size \in Nat
    BY <2>1, OctetsIs
  <2>4. need' \in Nat /\ have' \in Seq(Piece) /\ pc' \in {"idle", "more"}
    <3>1. CASE size = 0
      BY <2>2, <3>1 DEF Returns
    <3>2. CASE size # 0
      BY <2>2, <2>3, <3>2
    <3> QED BY <3>1, <3>2
  <2>5. ret' = [of |-> call, ok |-> FALSE, mail |-> <<>>] \/ ret' = ret
    BY <2>2 DEF Returns
  <2>6. ret' \in Result
    <3>1. <<>> \in Seq(Piece) /\ call \in Command /\ ret \in Result
      BY DEF Result
    <3> HIDE DEF TypeOK
    <3> QED BY <2>5, <3>1, ResultIs
  <2> QED BY <1>3, <2>1, <2>4, <2>6 DEF RetrSize, Receives, serverVars, Result
<1>4. CASE RetrMore
  <2>1. /\ net' \in Seq(Piece) /\ odd' \subseteq Oddity /\ Taken(need) \in Seq(Piece)
        /\ Len(Taken(need)) \in Nat /\ Len(Taken(need)) <= need
    BY <1>4, ReadsKeep DEF RetrMore, Receives
  <2>2. have' \in Seq(Piece) /\ need' \in Nat
    BY <1>4, <2>1 DEF RetrMore
  <2>3. ret' = [of |-> call, ok |-> TRUE, mail |-> have'] \/ ret' = ret
    BY <1>4 DEF RetrMore, Returns
  <2>4. pc' \in {"idle", "more"}
    BY <1>4 DEF RetrMore, Returns
  <2>5. ret' \in Result
    <3>1. have' \in Seq(Piece) /\ call \in Command /\ ret \in Result
      BY <2>2 DEF Result
    <3> HIDE DEF TypeOK
    <3> QED BY <2>3, <3>1, ResultIs
  <2> QED BY <1>4, <2>1, <2>2, <2>4, <2>5 DEF RetrMore, Receives, serverVars, Result
<1>5. CASE TopRest
  <2>1. /\ net' \in Seq(Piece) /\ odd' \subseteq Oddity /\ Taken(need) \in Seq(Piece)
    BY <1>5, ReadsKeep DEF TopRest, Receives
  <2>2. ret' \in Result
    <3>1. ret' = [of |-> call, ok |-> TRUE, mail |-> Taken(need)] /\ call \in Command
      BY <1>5 DEF TopRest, Returns
    <3> HIDE DEF TypeOK
    <3> QED BY <2>1, <3>1, ResultIs
  <2> QED BY <1>5, <2>1, <2>2 DEF TopRest, Receives, Returns, serverVars, Result
<1>6. CASE CallFails
  <2>1. odd' \subseteq Oddity
    BY <1>6 DEF CallFails, RecvFails, Oddity
  <2> QED BY <1>6, <2>1 DEF CallFails, RecvFails, Returns, wire, serverVars
<1> QED BY <1>1, <1>2, <1>3, <1>4, <1>5, <1>6 DEF Operates

LEMMA NetworkTypes ==
    ASSUME TypeOK, Serve \/ Arrive \/ Break
    PROVE  TypeOK'
<1> USE DEF TypeOK
<1>1. CASE Serve
  <2>1. PICK c \in Command, kind \in {"+OK", "-ERR"}, n \in Nat \cup {None} :
           /\ c = Head(inbox) /\ Says(c, kind, n, out')
           /\ kind = "+OK" =>
                 /\ ~ Refused(c) /\ odd' = odd \cup Strange(c, n)
                 /\ c.id = "PASS" => srv' = "trans"
                 /\ c.id = "QUIT" => srv' = "closed" /\ maildrop' = maildrop \ marked
                 /\ c.id \notin {"PASS", "QUIT"} => srv' = srv
                 /\ c.id # "QUIT" => maildrop' = maildrop
                 /\ c.id = "DELE" => marked' = marked \cup {c.of}
                 /\ c.id \in {"RSET", "QUIT"} => marked' = {}
                 /\ c.id \notin {"DELE", "RSET", "QUIT"} => marked' = marked
           /\ kind = "-ERR" => /\ n = None /\ odd' = odd /\ srv' = srv
                               /\ maildrop' = maildrop /\ marked' = marked
    BY <1>1, ServeIs
  <2>2. inbox' \in Seq(Command)
    BY <1>1 DEF Serve
  <2>3. out' \in Seq(Piece)
    BY <2>1 DEF Says
  <2>4. odd' \subseteq Oddity
    BY <2>1 DEF Strange, Oddity
  <2>5. srv' \in {"auth", "trans", "closed"} /\ maildrop' \subseteq Msg
    BY <2>1
  <2>6. marked' \subseteq maildrop'
    <3>1. CASE kind = "+OK" /\ c.id = "DELE"
      BY <2>1, <3>1 DEF Refused, There, OnMsg
    <3>2. CASE ~ (kind = "+OK" /\ c.id = "DELE")
      BY <2>1, <3>2
    <3> QED BY <3>1, <3>2
  <2> QED BY <1>1, <2>2, <2>3, <2>4, <2>5, <2>6 DEF Serve, clientVars
<1>2. CASE Arrive
  BY <1>2 DEF Arrive, clientVars, serverVars
<1>3. CASE Break
  BY <1>3 DEF Break, clientVars
<1> QED BY <1>1, <1>2, <1>3

LEMMA TypeStep ==
    ASSUME TypeOK, [Next]_vars
    PROVE  TypeOK'
<1>1. CASE UNCHANGED vars
  BY <1>1 DEF vars, TypeOK
<1> QED BY <1>1, LoginTypes, OperateTypes, NetworkTypes DEF Next, Client

\* The client and the server keep to their types, whatever the pieces, the size of
\* the buffer and the times of recv (popFunc.cpp).
THEOREM TypeCorrect == Spec => []TypeOK
<1>1. Init => TypeOK
  BY TypeInit
<1>2. TypeOK /\ [Next]_vars => TypeOK'
  BY TypeStep
<1> QED BY <1>1, <1>2, PTL DEF Spec

-----------------------------------------------------------------------------
(* The stream: what the server has sent and the client has not read.       *)

Total == Len(net) + Len(out)

At(i) == IF i <= Len(net) THEN net[i] ELSE out[i - Len(net)]

\* A recv that ends with this piece leaves no line in parts.
Complete(p) == p.kind = "data" \/ ~ (p.at < LineParts)

LEMMA StreamIs ==
    ASSUME TypeOK
    PROVE  /\ Total \in Nat /\ Len(net) \in Nat /\ Len(out) \in Nat
           /\ (Total = 0) <=> (net = <<>> /\ out = <<>>)
           /\ (net # <<>>) => (Total > 0 /\ Head(net) = At(1) /\ Len(net) > 0)
BY DEF TypeOK, Total, At

LEMMA TailIs ==
    ASSUME NEW S, NEW s \in Seq(S), s # <<>>
    PROVE  /\ Len(s) \in Nat \ {0} /\ Head(s) = s[1] /\ Tail(s) \in Seq(S)
           /\ Len(Tail(s)) = Len(s) - 1
           /\ \A i \in 1 .. Len(s) - 1 : Tail(s)[i] = s[i + 1]
OBVIOUS

LEMMA StreamArrives ==
    ASSUME TypeOK, Arrive
    PROVE  Total' = Total /\ \A i \in 1 .. Total : At(i)' = At(i)
<1>1. /\ out \in Seq(Piece) /\ out # <<>> /\ net \in Seq(Piece)
      /\ net' = Append(net, Head(out)) /\ out' = Tail(out)
  BY DEF Arrive, TypeOK
<1>2. /\ Len(out) \in Nat \ {0} /\ Head(out) = out[1] /\ Len(out') = Len(out) - 1
      /\ \A i \in 1 .. Len(out) - 1 : out'[i] = out[i + 1]
  BY <1>1, TailIs
<1>3. /\ Len(net) \in Nat /\ Len(net') = Len(net) + 1 /\ net'[Len(net) + 1] = out[1]
      /\ \A i \in 1 .. Len(net) : net'[i] = net[i]
  BY <1>1, <1>2
<1>4. Total' = Total
  BY <1>2, <1>3 DEF Total
<1>5. ASSUME NEW i \in 1 .. Total PROVE At(i)' = At(i)
  <2>1. CASE i <= Len(net)
    BY <1>3, <2>1 DEF At
  <2>2. CASE i = Len(net) + 1
    BY <1>3, <2>2 DEF At
  <2>3. CASE i > Len(net) + 1
    <3>1. PICK j \in 1 .. Len(out) - 1 : i = Len(net) + 1 + j
      <4>1. PICK a \in Nat, b \in Nat : a = Len(net) /\ b = Len(out) /\ i \in 1 .. a + b
        BY <1>2, <1>3 DEF Total
      <4>2. i - a - 1 \in 1 .. b - 1 /\ i = a + 1 + (i - a - 1)
        BY <2>3, <4>1
      <4> QED BY <4>1, <4>2
    <3>2. out'[j] = out[j + 1] /\ i - Len(net') = j /\ i - Len(net) = j + 1
      BY <1>2, <1>3, <3>1
    <3> QED BY <1>3, <2>3, <3>2 DEF At
  <2> QED BY <1>3, <2>1, <2>2, <2>3
<1> QED BY <1>4, <1>5

LEMMA StreamRead ==
    ASSUME TypeOK, NEW n \in Nat, Reads(n), out' = out
    PROVE  \E k \in 0 .. Len(net) :
              /\ k = Len(Taken(n)) /\ k <= n /\ (n > 0 => k > 0)
              /\ Total' = Total - k
              /\ \A i \in 1 .. Total' : At(i)' = At(i + k)
              /\ \A i \in 1 .. k : Taken(n)[i] = At(i)
<1>1. /\ net \in Seq(Piece) /\ net # <<>> /\ out' = out /\ Len(net) \in Nat /\ Len(out) \in Nat
      /\ net' = SubSeq(net, Len(Taken(n)) + 1, Len(net))
  BY DEF Reads, TypeOK
<1>2. PICK k \in 0 .. Len(net) : k = Len(Taken(n)) /\ k <= n /\ (n > 0 => k > 0)
  BY <1>1, LeftIs
<1>3. Len(net') = Len(net) - k /\ \A i \in 1 .. Len(net') : net'[i] = net[i + k]
  BY <1>1, <1>2, LeftIs
<1>4. PICK a \in Nat, b \in Nat, c \in Nat :
         /\ a = Len(net) /\ b = Len(out) /\ c = Len(net') /\ b = Len(out')
         /\ k \in 0 .. a /\ c = a - k
         /\ \A i \in 1 .. c : net'[i] = net[i + k]
  <2>1. Len(net) - k \in Nat
    BY ONLY Len(net) \in Nat, k \in 0 .. Len(net), <1>1
  <2> QED BY <1>1, <1>3, <2>1
<1>5. Total = a + b /\ Total' = c + b
  BY <1>4 DEF Total
<1>6. ASSUME NEW i \in 1 .. Total' PROVE At(i)' = At(i + k)
  <2>1. CASE i <= c
    <3>1. i + k <= a /\ net'[i] = net[i + k]
      BY <1>4, <1>5, <2>1
    <3> QED BY <1>4, <2>1, <3>1 DEF At
  <2>2. CASE i > c
    <3>1. ~ (i + k <= a) /\ ~ (i <= c) /\ (i + k) - a = i - c
      BY <1>4, <1>5, <2>2
    <3>2. out' = out
      BY <1>1
    <3> QED BY <1>4, <3>1, <3>2 DEF At
  <2> QED BY <1>4, <1>5, <2>1, <2>2
<1>7. ASSUME NEW i \in 1 .. k PROVE Taken(n)[i] = At(i)
  <2>1. i \in 1 .. Len(Taken(n)) /\ i <= Len(net)
    BY <1>2, <1>4
  <2> QED BY <1>1, <2>1, TakenIs DEF At
<1>8. Total' = Total - k
  BY <1>4, <1>5
<1> QED BY <1>2, <1>6, <1>7, <1>8

\* A first recv finds the beginning of the stream, and the session remembers if that
\* was no whole line.
LEMMA FirstRead ==
    ASSUME TypeOK, TypeOK', Reads(Room), out' = out
    PROVE  \E k \in Nat \ {0} :
              /\ k <= Total /\ Total' = Total - k /\ Total \in Nat
              /\ \A i \in 1 .. Total' : At(i)' = At(i + k)
              /\ Len(Buffer) = k /\ \A i \in 1 .. k : Buffer[i] = At(i)
              /\ "cut" \notin odd' => Complete(At(k))
<1>1. PICK k \in 0 .. Len(net) :
         /\ k = Len(Taken(Room)) /\ (Room > 0 => k > 0) /\ Total' = Total - k
         /\ \A i \in 1 .. Total' : At(i)' = At(i + k)
         /\ \A i \in 1 .. k : Taken(Room)[i] = At(i)
  BY PartsIs, StreamRead
<1>2. k \in Nat /\ k > 0 /\ Total \in Nat /\ Total' \in Nat
  <2>1. Len(net) \in Nat /\ Total \in Nat /\ Total' \in Nat
    BY DEF TypeOK, Total
  <2> QED BY <1>1, <2>1, PartsIs
<1>3. ASSUME "cut" \notin odd' PROVE Complete(At(k))
  <2>1. ~ Cut(Taken(Room))
    BY <1>3 DEF Reads
  <2>2. Taken(Room)[Len(Taken(Room))] = At(k)
    BY <1>1, <1>2
  <2> QED BY <2>1, <2>2 DEF Cut, Complete
<1>4. k <= Total
  BY <1>1, <1>2
<1>5. Len(Buffer) = k /\ \A i \in 1 .. k : Buffer[i] = At(i)
  BY <1>1 DEF Buffer
<1>6. k \in Nat \ {0} /\ Total' = Total - k /\ \A i \in 1 .. Total' : At(i)' = At(i + k)
  BY <1>1, <1>2
<1> QED BY ONLY <1>2, <1>3, <1>4, <1>5, <1>6

LEMMA StreamBreaks ==
    ASSUME TypeOK, Break
    PROVE  Total' \in 0 .. Total /\ \A i \in 1 .. Total' : At(i)' = At(i)
<1>1. net' = net /\ Len(out') = 0 /\ Len(net) \in Nat /\ Len(out) \in Nat
  BY DEF Break, TypeOK
<1>2. Total' = Len(net)
  BY <1>1 DEF Total
<1> QED BY <1>1, <1>2 DEF Total, At

\* What the server says comes behind what has arrived.
LEMMA StreamGrows ==
    ASSUME net \in Seq(Piece), net' = net, out = <<>>, out' \in Seq(Piece)
    PROVE  \E t \in Nat :
              /\ t = Total /\ Total' = t + Len(out')
              /\ \A i \in 1 .. t : At(i)' = At(i)
              /\ \A i \in 1 .. Len(out') : At(t + i)' = out'[i]
<1>1. /\ Len(net') = Len(net) /\ net' = net /\ Len(net) \in Nat /\ Len(out) = 0
      /\ Len(out') \in Nat
  OBVIOUS
<1>2. PICK t \in Nat : t = Len(net)
  BY <1>1
<1>3. t = Total /\ Total' = t + Len(out')
  BY <1>1, <1>2 DEF Total
<1>4. ASSUME NEW i \in 1 .. t PROVE At(i)' = At(i)
  BY <1>1, <1>2 DEF At
<1>5. ASSUME NEW i \in 1 .. Len(out') PROVE At(t + i)' = out'[i]
  <2>1. ~ (t + i <= Len(net')) /\ (t + i) - Len(net') = i
    BY <1>1, <1>2
  <2> QED BY <2>1 DEF At
<1> QED BY <1>3, <1>4, <1>5

LEMMA StreamStarts ==
    ASSUME net' = <<>>, out' \in Seq(Piece)
    PROVE  Total' = Len(out') /\ \A i \in 1 .. Len(out') : At(i)' = out'[i]
<1>1. Len(net') = 0 /\ Len(out') \in Nat
  OBVIOUS
<1>2. ASSUME NEW i \in 1 .. Len(out') PROVE At(i)' = out'[i]
  <2>1. ~ (i <= Len(net')) /\ i - Len(net') = i
    BY <1>1
  <2> QED BY <2>1 DEF At
<1> QED BY <1>1, <1>2 DEF Total

-----------------------------------------------------------------------------
(* What a session has met with it does not forget.                         *)

LEMMA OddGrows ==
    ASSUME [Next]_vars, ~ Connect
    PROVE  odd \subseteq odd'
<1>1. CASE LogsIn
  BY <1>1 DEF LogsIn, UserOk, PassOk, PassAgain, LoginFails, Receives, Reads
<1>2. CASE Operates
  BY <1>2 DEF Operates, Call, Answered, RetrSize, RetrMore, TopRest, CallFails, RecvFails,
              Receives, Reads
<1>3. CASE Crashes
  BY <1>3 DEF Crashes, PassCrashes, AnswerCrashes, RetrCrashes, MailCrashes, Crash
<1>4. CASE Serve
  BY <1>4 DEF Serve, Accept
<1>5. CASE Arrive \/ Break
  BY <1>5 DEF Arrive, Break
<1>6. CASE UNCHANGED vars
  BY <1>6 DEF vars
<1> QED BY <1>1, <1>2, <1>3, <1>4, <1>5, <1>6 DEF Next, Client

-----------------------------------------------------------------------------
(* The login.  While the client logs in, the answer to PASS is the last    *)
(* thing there is, it is positive only after the server has accepted, and  *)
(* no number stands in what comes before it.                               *)

Clean == odd \cap {"cut", "digit"} = {}

Asking == pc \in {"user", "pass", "pass_again"}

InLogin(p) == /\ p.to \in {"greeting", "USER", "PASS"} /\ p.kind # "data"
              /\ p.to # "PASS" => p.n = None

LoginStream ==
    /\ Total > 0 => At(1).at = 1
    /\ \A i \in 1 .. Total :
          /\ InLogin(At(i))
          /\ i < Total /\ Complete(At(i)) => At(i + 1).at = 1
          /\ At(i).to = "PASS" =>
                /\ inbox = <<>> /\ pc # "user"
                /\ srv = "auth" => At(i).kind # "+OK"
                /\ \A j \in 1 .. Total : i < j => At(j).to = "PASS" /\ ~ Complete(At(i))

InboxLogin ==
    \A i \in 1 .. Len(inbox) :
        /\ inbox[i].id \in Login
        /\ inbox[i].id = "PASS" => i = Len(inbox) /\ pc # "user"

LoginInv ==
    Clean =>
        /\ srv = "auth" => Asking
        /\ Asking => LoginStream /\ InboxLogin /\ ~ ret.ok

LEMMA CleanBefore ==
    ASSUME [Next]_vars, ~ Connect, Clean'
    PROVE  Clean
BY OddGrows DEF Clean

\* The beginning of the stream is read, up to the end of a line, or the end of it lost.
LEMMA LoginShift ==
    ASSUME LoginStream, NEW t \in Nat, t = Total, NEW u \in Nat, u = Total',
           NEW k \in Nat, u + k <= t, k > 0 => Complete(At(k)),
           \A i \in 1 .. u : At(i)' = At(i + k),
           srv' = "auth" => srv = "auth",
           \/ \A i \in 1 .. t : At(i).to # "PASS"
           \/ (inbox = <<>> => inbox' = <<>>) /\ (pc' = "user" => pc = "user")
    PROVE  LoginStream'
<1>0. /\ t \in Nat /\ u \in Nat /\ k \in Nat /\ u + k <= t
      /\ \A i \in 1 .. u : At(i)' = At(i + k)
  OBVIOUS
<1>1. u > 0 => At(1)' .at = 1
  <2> SUFFICES ASSUME u > 0 PROVE At(1)' .at = 1
    OBVIOUS
  <2>1. At(1)' = At(1 + k)
    BY ONLY <1>0, u > 0
  <2>2. CASE k = 0
    <3>1. At(1).at = 1
      <4>1. Total > 0
        <5>1. t > 0
          BY ONLY u > 0, <1>0
        <5> QED BY ONLY <5>1, t = Total
      <4> QED BY <4>1 DEF LoginStream
    <3>2. 1 + k = 1
      BY <2>2
    <3> QED BY ONLY <2>1, <3>1, <3>2
  <2>3. CASE k > 0
    <3>1. k \in 1 .. t /\ k < t /\ 1 + k = k + 1
      BY ONLY <1>0, <2>3, u > 0
    <3> QED BY <2>1, <2>3, <3>1 DEF LoginStream
  <2> QED BY <2>2, <2>3
<1>2. ASSUME NEW i \in 1 .. u
      PROVE  /\ InLogin(At(i)')
             /\ i < u /\ Complete(At(i)') => At(i + 1)' .at = 1
             /\ At(i)' .to = "PASS" =>
                   /\ inbox' = <<>> /\ pc' # "user"
                   /\ srv' = "auth" => At(i)' .kind # "+OK"
                   /\ \A j \in 1 .. u : i < j => At(j)' .to = "PASS" /\ ~ Complete(At(i)')
  <2>1. PICK a \in 1 .. t : a = i + k /\ At(i)' = At(a)
    BY ONLY <1>0, i \in 1 .. u
  <2>2. InLogin(At(a)) /\ (At(a).to = "PASS" =>
                               /\ inbox = <<>> /\ pc # "user"
                               /\ srv = "auth" => At(a).kind # "+OK")
    BY <2>1 DEF LoginStream
  <2>3. ASSUME i < u, Complete(At(a)) PROVE At(i + 1)' .at = 1
    <3>1. a < t /\ i + 1 \in 1 .. u /\ (i + 1) + k = a + 1
      BY ONLY <1>0, <2>1, <2>3, i \in 1 .. u
    <3>2. At(i + 1)' = At(a + 1)
      BY ONLY <1>0, <3>1
    <3> QED BY <2>1, <2>3, <3>1, <3>2 DEF LoginStream
  <2>4. ASSUME At(a).to = "PASS", NEW j \in 1 .. u, i < j
        PROVE  At(j)' .to = "PASS" /\ ~ Complete(At(a))
    <3>1. j + k \in 1 .. t /\ a < j + k /\ At(j)' = At(j + k)
      BY ONLY <1>0, <2>1, <2>4, i \in 1 .. u, j \in 1 .. u
    <3> QED BY <2>1, <2>4, <3>1 DEF LoginStream
  <2> QED BY <2>1, <2>2, <2>3, <2>4
<1>3. \A i \in 1 .. Total' :
         /\ InLogin(At(i)')
         /\ i < Total' /\ Complete(At(i)') => At(i + 1)' .at = 1
         /\ At(i)' .to = "PASS" =>
               /\ inbox' = <<>> /\ pc' # "user"
               /\ srv' = "auth" => At(i)' .kind # "+OK"
               /\ \A j \in 1 .. Total' : i < j => At(j)' .to = "PASS" /\ ~ Complete(At(i)')
  BY <1>2
<1> QED BY <1>1, <1>3 DEF LoginStream, InLogin, Complete

\* A number in the text is the answer to PASS, and a positive one.
LEMMA DigitFound ==
    ASSUME LoginStream, NEW k \in Nat \ {0}, Len(Buffer) = k, k <= Total, Total \in Nat,
           \A i \in 1 .. k : Buffer[i] = At(i), TRUE \in Digit(Buffer)
    PROVE  At(1).to = "PASS" /\ At(1).kind = "+OK"
<1>1. Buffer[1] = At(1) /\ InLogin(At(1)) /\ At(1).at = 1
  BY DEF LoginStream
<1>2. Starts(Buffer)
  BY <1>1 DEF Starts, InLogin
<1>3. HasNumber(Buffer)
  BY <1>2 DEF Digit
<1> QED BY <1>1, <1>3 DEF HasNumber, InLogin

LEMMA ConnectLogin ==
    ASSUME TypeOK, TypeOK', Connect
    PROVE  LoginInv'
<1> SUFFICES ASSUME Clean' PROVE LoginInv'
  BY DEF LoginInv
<1>1. PICK n \in {None, 0} : /\ out' = Line([id |-> "greeting", of |-> None], "+OK", n)
                             /\ odd' = {o \in {"digit"} : n # None}
  BY DEF Connect
<1>2. n = None
  BY <1>1 DEF Clean
<1>3. PICK c : c = [id |-> "greeting", of |-> None]
  OBVIOUS
<1>4. c.id = "greeting" /\ c.of = None
  BY <1>3
<1>5. /\ c.id \in OnMsg \cup OnNone \cup Login \cup {"greeting"} /\ c.of \in Msg \cup {None}
      /\ n \in Nat \cup {None}
  BY <1>2, <1>4
<1>6. /\ Line(c, "+OK", n) \in Seq(Piece) /\ Len(Line(c, "+OK", n)) = LineParts
      /\ \A i \in 1 .. LineParts :
            /\ Line(c, "+OK", n)[i].to = c.id /\ Line(c, "+OK", n)[i].of = c.of
            /\ Line(c, "+OK", n)[i].kind = "+OK" /\ Line(c, "+OK", n)[i].n = n
            /\ Line(c, "+OK", n)[i].at = i
  BY ONLY <1>5, LineIs
<1>7. PICK l : l = Line(c, "+OK", n) /\ out' = l
  BY <1>1, <1>3
<1>8. /\ l \in Seq(Piece) /\ Len(l) = LineParts
      /\ \A i \in 1 .. LineParts : /\ l[i].to = "greeting" /\ l[i].kind = "+OK"
                                   /\ l[i].n = None /\ l[i].at = i
  BY <1>2, <1>4, <1>6, <1>7
<1>9. Total' = LineParts /\ \A i \in 1 .. LineParts : At(i)' = l[i]
  BY <1>7, <1>8, StreamStarts DEF Connect
<1>10. LoginStream'
  <2>1. \A i \in 1 .. LineParts :
           /\ InLogin(l[i]) /\ l[i].to # "PASS"
           /\ i < LineParts => ~ Complete(l[i])
    BY <1>8, PartsIs DEF InLogin, Complete
  <2>2. \A i \in 1 .. Total' :
           /\ InLogin(At(i)') /\ At(i)' .to # "PASS"
           /\ i < Total' => ~ Complete(At(i)')
    BY <1>9, <2>1
  <2>3. At(1)' .at = 1
    BY <1>8, <1>9, PartsIs
  <2> QED BY <2>2, <2>3 DEF LoginStream, InLogin, Complete
<1>11. InboxLogin' /\ Asking' /\ ~ ret'.ok
  <2>1. inbox'[1].id = "USER" /\ Len(inbox') = 1
    BY DEF Connect
  <2>2. \A i \in 1 .. Len(inbox') : inbox'[i].id = "USER"
    BY <2>1
  <2> QED BY <2>2 DEF InboxLogin, Login, Asking, Connect, NoRet
<1> QED BY <1>10, <1>11 DEF LoginInv

LEMMA UserOkLogin ==
    ASSUME TypeOK, TypeOK', LoginInv, Clean, Clean', UserOk
    PROVE  LoginInv'
<1>1. /\ pc = "user" /\ pc' = "pass" /\ srv' = srv /\ ret' = ret /\ Reads(Room) /\ out' = out
      /\ inbox' = inbox \/ inbox' = Append(inbox, [id |-> "PASS", of |-> None])
  BY DEF UserOk, Send, serverVars
<1>2. LoginStream /\ InboxLogin /\ ~ ret.ok
  BY <1>1 DEF LoginInv, Asking
<1>3. PICK k \in Nat \ {0} :
         /\ k <= Total /\ Total' = Total - k /\ Total \in Nat
         /\ \A i \in 1 .. Total' : At(i)' = At(i + k)
         /\ "cut" \notin odd' => Complete(At(k))
  BY <1>1, FirstRead
<1>4. PICK t \in Nat, u \in Nat :
         /\ t = Total /\ u = Total' /\ u + k <= t
         /\ \A i \in 1 .. u : At(i)' = At(i + k)
  BY <1>3
<1>5. Complete(At(k))
  BY <1>3 DEF Clean
<1>6. \A i \in 1 .. t : At(i).to # "PASS"
  BY <1>1, <1>2, <1>4 DEF LoginStream
<1>7. LoginStream'
  BY ONLY <1>1, <1>2, <1>3, <1>4, <1>5, <1>6, LoginShift
<1>8. InboxLogin'
  <2>1. inbox \in Seq(Command) /\ \A i \in 1 .. Len(inbox) : inbox[i].id = "USER"
    BY <1>1, <1>2 DEF InboxLogin, Login, TypeOK
  <2>2. CASE inbox' = inbox
    BY <1>1, <2>1, <2>2 DEF InboxLogin, Login
  <2>3. CASE inbox' = Append(inbox, [id |-> "PASS", of |-> None])
    <3>1. /\ Len(inbox') = Len(inbox) + 1 /\ Len(inbox) \in Nat
          /\ inbox'[Len(inbox) + 1].id = "PASS"
          /\ \A i \in 1 .. Len(inbox) : inbox'[i].id = "USER"
      BY <2>1, <2>3
    <3>2. \A i \in 1 .. Len(inbox') :
             /\ inbox'[i].id \in Login
             /\ inbox'[i].id = "PASS" => i = Len(inbox')
      BY <3>1 DEF Login
    <3>3. pc' # "user"
      BY <1>1
    <3> QED BY ONLY <3>2, <3>3 DEF InboxLogin
  <2> QED BY <1>1, <2>2, <2>3
<1> QED BY <1>1, <1>2, <1>7, <1>8 DEF LoginInv, Asking

LEMMA PassLogin ==
    ASSUME TypeOK, TypeOK', LoginInv, Clean, Clean', PassOk \/ PassAgain
    PROVE  LoginInv'
<1>1. /\ pc \in {"pass", "pass_again"} /\ srv' = srv /\ ret' = ret /\ Reads(Room)
      /\ out' = out /\ inbox' = inbox
      /\ (pc' = "idle" /\ TRUE \in Digit(Buffer)) \/ pc' = "pass_again"
  BY DEF PassOk, PassAgain, Receives, serverVars
<1>2. LoginStream /\ InboxLogin /\ ~ ret.ok
  BY <1>1 DEF LoginInv, Asking
<1>3. PICK k \in Nat \ {0} :
         /\ k <= Total /\ Total' = Total - k /\ Total \in Nat
         /\ \A i \in 1 .. Total' : At(i)' = At(i + k)
         /\ Len(Buffer) = k /\ \A i \in 1 .. k : Buffer[i] = At(i)
         /\ "cut" \notin odd' => Complete(At(k))
  BY <1>1, FirstRead
<1>4. CASE pc' = "idle" /\ TRUE \in Digit(Buffer)
  <2>1. At(1).to = "PASS" /\ At(1).kind = "+OK"
    BY ONLY <1>2, <1>3, <1>4, DigitFound
  <2>2. 1 \in 1 .. Total
    BY <1>3
  <2>3. srv # "auth"
    BY <1>2, <2>1, <2>2 DEF LoginStream
  <2> QED BY <1>1, <1>4, <2>3 DEF LoginInv, Asking
<1>5. CASE pc' = "pass_again"
  <2>1. PICK t \in Nat, u \in Nat :
           /\ t = Total /\ u = Total' /\ u + k <= t
           /\ \A i \in 1 .. u : At(i)' = At(i + k)
    BY <1>3
  <2>2. Complete(At(k))
    BY <1>3 DEF Clean
  <2>3. pc' # "user"
    BY <1>5
  <2>4. LoginStream'
    BY ONLY <1>1, <1>2, <1>3, <2>1, <2>2, <2>3, LoginShift
  <2>5. InboxLogin'
    BY <1>1, <1>2, <1>5 DEF InboxLogin
  <2> QED BY <1>1, <1>2, <1>5, <2>4, <2>5 DEF LoginInv, Asking
<1> QED BY <1>1, <1>4, <1>5

\* While it logs in the server answers nothing but USER and PASS, PASS last.
LEMMA ServeLogin ==
    ASSUME TypeOK, TypeOK', LoginInv, Clean, Clean', Serve
    PROVE  LoginInv'
<1>1. /\ pc' = pc /\ ret' = ret /\ net' = net /\ out = <<>> /\ inbox' = Tail(inbox)
      /\ inbox # <<>> /\ inbox \in Seq(Command) /\ net \in Seq(Piece) /\ out' \in Seq(Piece)
  BY DEF Serve, clientVars, TypeOK
<1>2. PICK c \in Command, kind \in {"+OK", "-ERR"}, n \in Nat \cup {None} :
         /\ c = Head(inbox) /\ Says(c, kind, n, out')
         /\ kind = "+OK" => /\ odd' = odd \cup Strange(c, n)
                            /\ c.id = "PASS" => srv' = "trans"
                            /\ c.id = "QUIT" => srv' = "closed"
                            /\ c.id \notin {"PASS", "QUIT"} => srv' = srv
         /\ kind = "-ERR" => n = None /\ srv' = srv
  BY ServeIs
<1>3. srv' = "auth" => srv = "auth"
  BY <1>2
<1>4. CASE ~ Asking
  BY <1>1, <1>3, <1>4 DEF LoginInv, Asking
<1>5. CASE Asking
  <2>1. LoginStream /\ InboxLogin /\ ~ ret.ok
    BY <1>5 DEF LoginInv
  <2>2. /\ Len(inbox) \in Nat \ {0} /\ Head(inbox) = inbox[1] /\ Len(inbox') = Len(inbox) - 1
        /\ \A i \in 1 .. Len(inbox) - 1 : inbox'[i] = inbox[i + 1]
        /\ Len(inbox) = 1 => inbox' = <<>>
    BY <1>1, TailIs
  <2>3. c.id \in Login /\ (c.id = "PASS" => Len(inbox) = 1 /\ inbox' = <<>> /\ pc # "user")
    <3>1. 1 \in 1 .. Len(inbox)
      BY <2>2
    <3> QED BY <1>2, <2>1, <2>2, <3>1 DEF InboxLogin
  <2>4. c.id = "USER" => n = None
    <3>1. CASE kind = "+OK" /\ c.id = "USER"
      BY <1>2, <3>1 DEF Clean, Strange
    <3> QED BY <1>2, <3>1
  <2>5. c.id = "PASS" /\ srv' = "auth" => kind # "+OK"
    BY <1>2
  <2>6. PICK a \in Seq(Piece) :
           /\ a = out' /\ Len(a) = LineParts
           /\ \A i \in 1 .. LineParts :
                 a[i].to = c.id /\ a[i].kind = kind /\ a[i].n = n /\ a[i].at = i
    <3>1. c.id \notin {"RETR", "TOP"}
      BY <2>3 DEF Login
    <3> QED BY <1>2, <3>1 DEF Says
  <2>7. PICK t \in Nat :
           /\ t = Total /\ Total' = t + LineParts
           /\ \A i \in 1 .. t : At(i)' = At(i)
           /\ \A i \in 1 .. LineParts : At(t + i)' = a[i]
    BY <1>1, <2>6, StreamGrows
  <2>8. \A i \in 1 .. t : /\ InLogin(At(i)) /\ At(i).to # "PASS"
                          /\ i < t /\ Complete(At(i)) => At(i + 1).at = 1
    BY <1>1, <2>1, <2>7 DEF LoginStream
  <2>9. \A i \in 1 .. LineParts :
           /\ InLogin(a[i]) /\ (i < LineParts => ~ Complete(a[i])) /\ a[i].at = i
           /\ a[i].to = "PASS" => c.id = "PASS"
           /\ a[i].kind = kind
    BY <2>3, <2>4, <2>6, PartsIs DEF InLogin, Complete, Login
  <2>10. Total' > 0 => At(1)' .at = 1
    <3>1. CASE t = 0
      <4>1. At(0 + 1)' = a[1]
        BY <2>7, <3>1, PartsIs
      <4> QED BY <2>9, <4>1, PartsIs
    <3>2. CASE t > 0
      <4>1. At(1)' = At(1) /\ Total > 0
        BY <2>7, <3>2
      <4> QED BY <2>1, <4>1 DEF LoginStream
    <3> QED BY <3>1, <3>2
  <2>11. ASSUME NEW i \in 1 .. t + LineParts
         PROVE  /\ InLogin(At(i)')
                /\ i < t + LineParts /\ Complete(At(i)') => At(i + 1)' .at = 1
                /\ At(i)' .to = "PASS" =>
                      /\ i > t /\ c.id = "PASS" /\ At(i)' .kind = kind
                      /\ i < t + LineParts => ~ Complete(At(i)')
    <3>1. CASE i <= t
      <4>1. i \in 1 .. t /\ At(i)' = At(i)
        BY <2>7, <3>1
      <4>2. ASSUME i < t + LineParts, Complete(At(i)) PROVE At(i + 1)' .at = 1
        <5>1. CASE i < t
          <6>1. At(i + 1)' = At(i + 1)
            BY <2>7, <4>1, <5>1
          <6> QED BY <2>8, <4>1, <4>2, <5>1, <6>1
        <5>2. CASE i = t
          <6>1. At(t + 1)' = a[1]
            BY <2>7, PartsIs
          <6> QED BY <2>9, <5>2, <6>1, PartsIs
        <5> QED BY <4>1, <5>1, <5>2
      <4> QED BY <2>8, <4>1, <4>2
    <3>2. CASE i > t
      <4>1. PICK j \in 1 .. LineParts : i = t + j
        <5>1. i - t \in 1 .. LineParts /\ i = t + (i - t)
          BY <3>2, PartsIs
        <5> QED BY <5>1
      <4>2. At(i)' = a[j]
        BY <2>7, <4>1
      <4>3. i < t + LineParts => j < LineParts
        BY <4>1, PartsIs
      <4> QED BY <2>9, <3>2, <4>2, <4>3
    <3> QED BY <3>1, <3>2
  <2>12. ASSUME NEW i \in 1 .. t + LineParts, At(i)' .to = "PASS",
                NEW j \in 1 .. t + LineParts, i < j
         PROVE  At(j)' .to = "PASS" /\ ~ Complete(At(i)')
    <3>1. i > t /\ c.id = "PASS" /\ i < t + LineParts
      BY <2>11, <2>12, PartsIs
    <3>2. PICK h \in 1 .. LineParts : j = t + h
      <4>1. j - t \in 1 .. LineParts /\ j = t + (j - t)
        BY <2>12, <3>1, PartsIs
      <4> QED BY <4>1
    <3>3. At(j)' .to = "PASS"
      BY <2>6, <2>7, <3>1, <3>2
    <3> QED BY <2>11, <2>12, <3>1, <3>3
  <2>13. LoginStream'
    <3>1. \A i \in 1 .. Total' :
             /\ InLogin(At(i)')
             /\ i < Total' /\ Complete(At(i)') => At(i + 1)' .at = 1
             /\ At(i)' .to = "PASS" =>
                   /\ inbox' = <<>> /\ pc' # "user"
                   /\ srv' = "auth" => At(i)' .kind # "+OK"
                   /\ \A j \in 1 .. Total' :
                         i < j => At(j)' .to = "PASS" /\ ~ Complete(At(i)')
      BY <1>1, <2>3, <2>5, <2>7, <2>11, <2>12
    <3> QED BY <2>10, <3>1 DEF LoginStream, InLogin, Complete
  <2>14. InboxLogin'
    <3>1. ASSUME NEW i \in 1 .. Len(inbox')
          PROVE  /\ inbox'[i].id \in Login
                 /\ inbox'[i].id = "PASS" => i = Len(inbox') /\ pc' # "user"
      <4>1. i + 1 \in 1 .. Len(inbox) /\ inbox'[i] = inbox[i + 1]
            /\ (i + 1 = Len(inbox) => i = Len(inbox'))
        BY <2>2
      <4> QED BY <1>1, <2>1, <4>1 DEF InboxLogin
    <3> QED BY <3>1 DEF InboxLogin
  <2> QED BY <1>1, <1>5, <2>1, <2>13, <2>14 DEF LoginInv, Asking
<1> QED BY <1>4, <1>5

LEMMA NetworkLogin ==
    ASSUME TypeOK, TypeOK', LoginInv, Clean, Clean', Arrive \/ Break
    PROVE  LoginInv'
<1>1. /\ pc' = pc /\ ret' = ret
      /\ srv' = "auth" => srv = "auth"
      /\ inbox' = inbox \/ inbox' = <<>>
  BY DEF Arrive, Break, clientVars, serverVars
<1>2. PICK t \in Nat, u \in Nat :
         t = Total /\ u = Total' /\ u <= t /\ \A i \in 1 .. u : At(i)' = At(i)
  <2>1. Total \in Nat
    BY StreamIs
  <2>2. CASE Arrive
    BY <2>1, <2>2, StreamArrives
  <2>3. CASE Break
    <3>1. PICK t \in Nat : t = Total
      BY <2>1
    <3>2. Total' \in 0 .. t /\ \A i \in 1 .. Total' : At(i)' = At(i)
      BY <2>3, <3>1, StreamBreaks
    <3> QED BY <3>1, <3>2
  <2> QED BY <2>2, <2>3
<1>3. CASE ~ Asking
  BY <1>1, <1>3 DEF LoginInv, Asking
<1>4. CASE Asking
  <2>1. LoginStream /\ InboxLogin /\ ~ ret.ok
    BY <1>4 DEF LoginInv
  <2>2. LoginStream'
    <3>1. PICK k \in Nat : k = 0
      OBVIOUS
    <3>2. u + k <= t /\ (k > 0 => Complete(At(k)))
      <4>1. u <= t
        BY <1>2
      <4>2. u + k <= t /\ ~ (k > 0)
        BY ONLY <3>1, <4>1, t \in Nat, u \in Nat
      <4> QED BY <4>2
    <3>4. ASSUME NEW i \in 1 .. u PROVE At(i)' = At(i + k)
      <4>1. i + k = i
        BY ONLY <3>1, i \in 1 .. u
      <4> QED BY ONLY <1>2, <4>1, i \in 1 .. u
    <3>3. (inbox = <<>> => inbox' = <<>>) /\ (pc' = "user" => pc = "user")
      BY <1>1
    <3> QED BY ONLY <1>1, <1>2, <2>1, <3>1, <3>2, <3>3, <3>4, LoginShift
  <2>3. InboxLogin'
    <3>1. CASE inbox' = inbox
      BY <1>1, <2>1, <3>1 DEF InboxLogin
    <3>2. CASE inbox' = <<>>
      BY <3>2 DEF InboxLogin
    <3> QED BY <1>1, <3>1, <3>2
  <2> QED BY <1>1, <1>4, <2>1, <2>2, <2>3 DEF LoginInv, Asking
<1> QED BY <1>3, <1>4

LEMMA LoginStep ==
    ASSUME TypeOK, TypeOK', LoginInv, [Next]_vars
    PROVE  LoginInv'
<1>1. CASE Connect
  BY <1>1, ConnectLogin
<1>2. CASE ~ Connect /\ Clean'
  <2>1. Clean
    BY <1>2, CleanBefore
  <2>2. CASE UserOk
    BY <1>2, <2>1, <2>2, UserOkLogin
  <2>3. CASE PassOk \/ PassAgain
    BY <1>2, <2>1, <2>3, PassLogin
  <2>4. CASE LoginFails \/ Crashes
    <3>1. srv' = "closed" /\ pc' \in {"off", "crashed"}
      BY <2>4 DEF LoginFails, Clear, Gone, Crashes, PassCrashes, AnswerCrashes, RetrCrashes,
                  MailCrashes, Crash
    <3> QED BY <3>1 DEF LoginInv, Asking
  <2>5. CASE Operates
    <3>1. pc \notin {"user", "pass", "pass_again"} /\ pc' \notin {"user", "pass", "pass_again"}
      BY <2>5 DEF Operates, Call, Answered, RetrSize, RetrMore, TopRest, CallFails, Returns
    <3>2. srv' = srv
      BY <2>5 DEF Operates, Call, Answered, RetrSize, RetrMore, TopRest, CallFails, serverVars
    <3> QED BY <2>1, <3>1, <3>2 DEF LoginInv, Asking
  <2>6. CASE Serve
    BY <1>2, <2>1, <2>6, ServeLogin
  <2>7. CASE Arrive \/ Break
    BY <1>2, <2>1, <2>7, NetworkLogin
  <2>8. CASE UNCHANGED vars
    BY <2>8 DEF vars, LoginInv, Clean, Asking, LoginStream, InboxLogin, InLogin, Complete,
                Total, At
  <2> QED BY <1>2, <2>2, <2>3, <2>4, <2>5, <2>6, <2>7, <2>8 DEF Next, Client, LogsIn
<1>3. CASE ~ Clean'
  BY <1>3 DEF LoginInv
<1> QED BY <1>1, <1>2, <1>3

LEMMA LoginStarts ==
    ASSUME Init
    PROVE  LoginInv
BY DEF Init, LoginInv, Asking

\* LoginEMail reports success only after the server has accepted the password, however
\* late the answers come and however a recv joins them, as long as none finds a part of
\* a status line and no text before the answer to PASS starts with a digit
\* (popFunc.cpp, AnalyzePass).
THEOREM LoginConsent == Spec => []LoggedIn
<1>1. Init => TypeOK /\ LoginInv
  BY TypeInit, LoginStarts
<1>2. TypeOK /\ LoginInv /\ [Next]_vars => (TypeOK /\ LoginInv)'
  BY TypeStep, LoginStep
<1>3. TypeOK /\ LoginInv => LoggedIn
  BY DEF LoginInv, LoggedIn, Clean, Asking
<1> QED BY <1>1, <1>2, <1>3, PTL DEF Spec

-----------------------------------------------------------------------------
(* The operations.  As long as the session has met with nothing odd, what  *)
(* is on its way is the command that runs, or its answer and nothing else. *)

Done(c) ==
    /\ c.id = "DELE" /\ srv = "trans" => c.of \in marked
    /\ c.id \in {"RSET", "QUIT"} => marked = {}
    /\ c.id = "QUIT" => srv = "closed"

Idle == /\ net = <<>> /\ out = <<>> /\ inbox = <<>>
        /\ ret.ok => Done(ret.of)

Sent == inbox = <<call>> /\ net = <<>> /\ out = <<>> /\ srv # "closed"

\* The answer to the command, from the beginning of its line on.
Own == /\ inbox = <<>>
       /\ \A i \in 1 .. Total :
             /\ At(i).to = call.id /\ At(i).of = call.of
             /\ i <= LineParts => At(i).at = i /\ At(i).kind # "data"

\* The answer of one line, or a beginning of it.
LineComing == /\ Total <= LineParts
              /\ Total > 0 /\ At(1).kind = "+OK" => Done(call)

LineTalk == /\ call \in Operations /\ call.id \notin {"RETR", "TOP"}
            /\ Sent \/ (Own /\ LineComing)

\* The answer to RETR, or a beginning of it.
MailComing ==
    Total > 0 =>
       \/ At(1).kind = "-ERR" /\ Total <= LineParts
       \/ /\ At(1).kind = "+OK" /\ At(1).n = Pieces[call.of]
          /\ Total <= LineParts + (Pieces[call.of] + 1)
          /\ \A i \in 1 .. Total : i > LineParts => At(i) = Mail(call)[i - LineParts]

MailTalk == /\ call \in Operations /\ call.id = "RETR"
            /\ Sent \/ (Own /\ MailComing)

\* The rest of the message: if it is all there it is what is missing, in order.
RestTalk ==
    /\ call \in Operations /\ call.id = "RETR" /\ inbox = <<>>
    /\ Len(have) + need = Pieces[call.of] + 1 /\ Total <= need
    /\ Total = need =>
          /\ \A i \in 1 .. Len(have) : have[i] = Mail(call)[i]
          /\ \A i \in 1 .. Total : At(i) = Mail(call)[Len(have) + i]

MailKept == ret.ok /\ ret.of.id = "RETR" => ret.mail = Mail(ret.of)

Talk == /\ pc = "idle" => Idle
        /\ pc = "answer" => LineTalk
        /\ pc = "retr" => MailTalk
        /\ pc = "more" => RestTalk
        /\ MailKept

LEMMA MailIs ==
    ASSUME NEW c \in Operations, c.id = "RETR"
    PROVE  /\ c \in Command /\ c.of \in Msg /\ Pieces[c.of] \in Nat \ {0}
           /\ Mail(c) \in Seq(Piece) /\ Len(Mail(c)) = Pieces[c.of] + 1
<1>1. c \in Command /\ c.of \in Msg
  BY DEF Operations, Command, OnNone
<1>2. Pieces[c.of] \in Nat \ {0}
  BY <1>1, Pop3Assumption
<1> QED BY <1>1, <1>2, DataIs DEF Mail

LEMMA SendStep ==
    ASSUME TypeOK, Talk, NEW c \in Operations, Call(c), Regular'
    PROVE  Talk'
<1>1. /\ net = <<>> /\ out = <<>> /\ inbox = <<>> /\ net' = <<>> /\ out' = <<>>
      /\ call' = c /\ srv' = srv /\ ~ ret'.ok /\ c.id # "TOP"
      /\ pc' = IF c.id \in {"RETR", "TOP"} THEN "retr" ELSE "answer"
  BY DEF Call, Talk, Idle, Regular, NoRet, serverVars
<1>2. CASE srv = "closed"
  <2>1. inbox' = <<>> /\ Total' = 0
    BY <1>1, <1>2 DEF Call, Send, Total
  <2>2. Own' /\ LineComing' /\ MailComing'
    BY <2>1, PartsIs DEF Own, LineComing, MailComing
  <2> QED BY <1>1, <2>2 DEF Talk, LineTalk, MailTalk, MailKept
<1>3. CASE srv # "closed"
  <2>1. inbox' = <<c>>
    BY <1>1, <1>3 DEF Call, Send
  <2>2. Sent'
    BY <1>1, <1>3, <2>1 DEF Sent
  <2> QED BY <1>1, <2>2 DEF Talk, LineTalk, MailTalk, MailKept
<1> QED BY <1>2, <1>3

\* A first recv that ends with a line finds all of the line.
LEMMA FirstWhole ==
    ASSUME TypeOK, TypeOK', Own, Reads(Room), out' = out, "cut" \notin odd'
    PROVE  \E k \in Nat \ {0} :
              /\ k >= LineParts /\ k <= Total /\ Total' = Total - k /\ Total \in Nat
              /\ \A i \in 1 .. Total' : At(i)' = At(i + k)
              /\ Whole(Buffer) /\ Buffer[1] = At(1)
<1>1. PICK k \in Nat \ {0} :
         /\ k <= Total /\ Total' = Total - k /\ Total \in Nat
         /\ \A i \in 1 .. Total' : At(i)' = At(i + k)
         /\ Len(Buffer) = k /\ \A i \in 1 .. k : Buffer[i] = At(i)
         /\ "cut" \notin odd' => Complete(At(k))
  BY FirstRead
<1>2. Complete(At(k)) /\ k \in 1 .. Total
  BY <1>1
<1>3. k >= LineParts
  <2> SUFFICES ASSUME k < LineParts PROVE FALSE
    BY <1>1, PartsIs
  <2>1. At(k).at = k /\ At(k).kind # "data"
    BY <1>2, PartsIs DEF Own
  <2> QED BY <1>2, <2>1 DEF Complete
<1>4. Buffer[1] = At(1) /\ 1 \in 1 .. Total /\ 1 <= LineParts
  BY <1>1, PartsIs
<1>5. Whole(Buffer)
  BY <1>1, <1>3, <1>4 DEF Whole, Starts, Own
<1> QED BY <1>1, <1>3, <1>4, <1>5

LEMMA NothingLeft ==
    ASSUME TypeOK', Total' <= 0
    PROVE  net' = <<>> /\ out' = <<>>
<1>1. Len(net') \in Nat /\ Len(out') \in Nat
  BY DEF TypeOK
<1>2. Len(net') = 0 /\ Len(out') = 0
  BY <1>1 DEF Total
<1> QED BY <1>2 DEF TypeOK

LEMMA AnsweredStep ==
    ASSUME TypeOK, TypeOK', Talk, Answered, Regular'
    PROVE  Talk'
<1>1. /\ pc = "answer" /\ pc' = "idle" /\ net # <<>> /\ Reads(Room) /\ out' = out
      /\ inbox' = inbox /\ call' = call /\ srv' = srv /\ marked' = marked /\ ret'.of = call
      /\ call.id \in {"DELE", "RSET", "QUIT"} => ret'.ok \in IsOk(Buffer)
  <2>1. /\ pc = "answer" /\ Reads(Room) /\ out' = out /\ inbox' = inbox /\ call' = call
        /\ srv' = srv /\ marked' = marked
    BY DEF Answered, Receives, serverVars
  <2>2. PICK ok : /\ Returns(ok, <<>>)
                  /\ call.id \in {"DELE", "RSET", "QUIT"} => ok \in IsOk(Buffer)
    BY DEF Answered
  <2>3. pc' = "idle" /\ ret'.of = call /\ ret'.ok = ok
    BY <2>2 DEF Returns
  <2> QED BY <2>1, <2>2, <2>3 DEF Reads
<1>2. call.id # "RETR" /\ Own /\ LineComing
  BY <1>1 DEF Talk, LineTalk, Sent
<1>3. PICK k \in Nat \ {0} :
         /\ k >= LineParts /\ k <= Total /\ Total' = Total - k /\ Total \in Nat
         /\ Whole(Buffer) /\ Buffer[1] = At(1)
  BY <1>1, <1>2, FirstWhole DEF Regular
<1>4. Total > 0 /\ Total' <= 0
  <2>1. Total <= LineParts
    BY <1>2 DEF LineComing
  <2> QED BY <1>3, <2>1, PartsIs
<1>5. net' = <<>> /\ out' = <<>> /\ inbox' = <<>>
  BY <1>1, <1>2, <1>4, NothingLeft DEF Own
<1>6. ret'.ok => Done(call)
  <2>1. CASE call.id \in {"DELE", "RSET", "QUIT"}
    <3>1. ret'.ok = (At(1).kind = "+OK")
      BY <1>1, <1>3, <2>1 DEF IsOk
    <3> QED BY <1>2, <1>4, <3>1 DEF LineComing
  <2>2. CASE call.id \notin {"DELE", "RSET", "QUIT"}
    BY <2>2 DEF Done
  <2> QED BY <2>1, <2>2
<1>7. Idle'
  BY <1>1, <1>5, <1>6 DEF Idle, Done
<1>8. MailKept'
  BY <1>1, <1>2 DEF MailKept
<1> QED BY <1>1, <1>7, <1>8 DEF Talk

LEMMA SizeStep ==
    ASSUME TypeOK, TypeOK', Talk, RetrSize, Regular'
    PROVE  Talk'
<1>1. /\ pc = "retr" /\ net # <<>> /\ Reads(Room) /\ out' = out
      /\ call' = call /\ inbox' = inbox
  BY DEF RetrSize, Receives, Reads
<1>2. call \in Operations /\ call.id = "RETR" /\ Own /\ MailComing
  BY <1>1 DEF Talk, MailTalk, Sent
<1>3. PICK p \in Nat \ {0}, m \in Seq(Piece), l \in Nat :
         p = Pieces[call.of] /\ m = Mail(call) /\ Len(m) = p + 1 /\ l = LineParts
  BY <1>2, MailIs, PartsIs
<1>4. PICK k \in Nat \ {0}, t \in Nat :
         /\ k >= l /\ t = Total /\ k <= t /\ Total' = t - k
         /\ \A i \in 1 .. t - k : At(i)' = At(i + k)
         /\ Whole(Buffer) /\ Buffer[1] = At(1)
  <2>1. PICK k \in Nat \ {0} :
           /\ k >= LineParts /\ k <= Total /\ Total' = Total - k /\ Total \in Nat
           /\ \A i \in 1 .. Total' : At(i)' = At(i + k)
           /\ Whole(Buffer) /\ Buffer[1] = At(1)
    BY <1>1, <1>2, FirstWhole DEF Regular
  <2> QED BY <1>3, <2>1
<1>5. PICK size \in Octets(Buffer) :
         IF size = 0
         THEN Returns(FALSE, <<>>) /\ UNCHANGED <<need, have>>
         ELSE /\ pc' = "more" /\ need' = size + 1 /\ have' = <<>>
              /\ UNCHANGED ret
  BY DEF RetrSize
<1>6. size = Number(At(1))
  BY <1>4, <1>5 DEF Octets
<1>7. t > 0
  BY <1>4
<1>8. CASE At(1).kind = "-ERR"
  <2>1. size = 0
    BY <1>6, <1>8 DEF Number
  <2>2. pc' = "idle" /\ ~ ret'.ok
    BY <1>5, <2>1 DEF Returns
  <2>3. t <= l
    BY <1>2, <1>3, <1>4, <1>7, <1>8 DEF MailComing
  <2>4. Total' <= 0
    BY <1>4, <2>3
  <2>5. net' = <<>> /\ out' = <<>>
    BY <2>4, NothingLeft
  <2> QED BY <1>1, <1>2, <2>2, <2>5 DEF Talk, Idle, MailKept, Own
<1>9. CASE At(1).kind # "-ERR"
  <2>1. /\ At(1).kind = "+OK" /\ At(1).n = p /\ t <= l + (p + 1)
        /\ \A i \in 1 .. t : i > l => At(i) = m[i - l]
    BY <1>2, <1>3, <1>4, <1>7, <1>9 DEF MailComing
  <2>2. size = p
    <3>1. p # None
      BY Pop3Assumption
    <3> QED BY <1>6, <2>1, <3>1 DEF Number
  <2>3. pc' = "more" /\ need' = p + 1 /\ have' = <<>> /\ ret' = ret
    BY <1>5, <2>2
  <2>4. t - k <= p + 1
    BY <1>4, <2>1
  <2>5. ASSUME t - k = p + 1, NEW i \in 1 .. t - k PROVE At(i)' = m[i]
    <3>1. k = l
      BY <1>4, <2>1, <2>5
    <3>2. i + k \in 1 .. t /\ i + k > l /\ (i + k) - l = i
      BY <1>4, <2>5, <3>1
    <3> QED BY <1>4, <2>1, <3>2
  <2>6. Len(have') = 0
    BY <2>3
  <2>7. /\ call' \in Operations /\ call'.id = "RETR" /\ inbox' = <<>> /\ Mail(call') = m
        /\ Pieces[call'.of] = p
    BY <1>1, <1>2, <1>3 DEF Own
  <2>8. Total' = need' => \A i \in 1 .. Total' : At(i)' = m[Len(have') + i]
    <3>1. \A i \in 1 .. t - k : 0 + i = i
      BY <1>4
    <3> QED BY <1>4, <2>3, <2>5, <2>6, <3>1
  <2>9. Len(have') + need' = p + 1 /\ Total' <= need'
    BY <1>4, <2>3, <2>4, <2>6
  <2>10. RestTalk'
    BY <2>6, <2>7, <2>8, <2>9 DEF RestTalk
  <2> QED BY <2>3, <2>10 DEF Talk, MailKept
<1> QED BY <1>8, <1>9

LEMMA MoreStep ==
    ASSUME TypeOK, TypeOK', Talk, RetrMore
    PROVE  Talk'
<1>1. /\ pc = "more" /\ net # <<>> /\ Reads(need) /\ out' = out /\ call' = call /\ inbox' = inbox
      /\ need' = need - Len(Taken(need)) /\ have' = have \o Taken(need)
  BY DEF RetrMore, Receives, Reads
<1>2. RestTalk
  BY <1>1 DEF Talk
<1>3. PICK p \in Nat \ {0}, m \in Seq(Piece) :
         /\ p = Pieces[call.of] /\ m = Mail(call) /\ Len(m) = p + 1
         /\ Pieces[call'.of] = p /\ Mail(call') = m
  BY <1>1, <1>2, MailIs DEF RestTalk
<1>4. PICK t \in Seq(Piece), k \in Nat :
         /\ t = Taken(need) /\ k = Len(t) /\ Total' = Total - k
         /\ \A i \in 1 .. Total' : At(i)' = At(i + k)
         /\ \A i \in 1 .. k : t[i] = At(i)
  <2>1. need \in Nat /\ Len(net) \in Nat
    BY DEF TypeOK
  <2>2. Taken(need) \in Seq(Piece)
    BY <2>1, TakenIs DEF TypeOK
  <2>3. PICK k \in 0 .. Len(net) :
           /\ k = Len(Taken(need)) /\ Total' = Total - k
           /\ \A i \in 1 .. Total' : At(i)' = At(i + k)
           /\ \A i \in 1 .. k : Taken(need)[i] = At(i)
    BY <1>1, <2>1, StreamRead
  <2>4. k \in Nat
    BY <2>1
  <2> QED BY <2>2, <2>3, <2>4
<1>5. PICK h \in Nat, w \in Nat, a \in Nat :
         h = Len(have) /\ w = need /\ a = Total /\ h + w = p + 1 /\ a <= w
  <2>1. Len(have) \in Nat /\ need \in Nat /\ Total \in Nat
    BY StreamIs DEF TypeOK
  <2>2. Len(have) + need = p + 1 /\ Total <= need
    BY <1>2, <1>3 DEF RestTalk
  <2> QED BY <2>1, <2>2
<1>6. /\ Len(have') = h + k /\ \A i \in 1 .. h : have'[i] = have[i]
      /\ \A i \in 1 .. k : have'[h + i] = t[i]
  BY <1>1, <1>4, <1>5, JoinedIs DEF TypeOK
<1>7. need' = w - k /\ Total' = a - k /\ Total' \in Nat
  <2>1. Total' \in Nat
    BY DEF TypeOK, Total
  <2> QED BY <1>1, <1>4, <1>5, <2>1
<1>8. ASSUME a = w, NEW i \in 1 .. h + k PROVE have'[i] = m[i]
  <2>1. CASE i <= h
    <3>1. \A j \in 1 .. h : have[j] = m[j]
      BY <1>2, <1>3, <1>5, <1>8 DEF RestTalk
    <3> QED BY <1>6, <2>1, <3>1
  <2>2. CASE i > h
    <3>1. PICK j \in 1 .. k : i = h + j
      <4>1. i - h \in 1 .. k /\ i = h + (i - h)
        BY <2>2
      <4> QED BY <4>1
    <3>2. j \in 1 .. a
      BY <1>7, <3>1
    <3>3. At(j) = m[h + j]
      BY <1>2, <1>3, <1>5, <1>8, <3>2 DEF RestTalk
    <3> QED BY <1>4, <1>6, <3>1, <3>3
  <2> QED BY <2>1, <2>2
<1>9. CASE need' = 0
  <2>1. pc' = "idle" /\ ret' = [of |-> call, ok |-> TRUE, mail |-> have']
    BY <1>9 DEF RetrMore, Returns
  <2>2. a = w /\ Total' <= 0
    BY <1>5, <1>7, <1>9
  <2>3. net' = <<>> /\ out' = <<>>
    BY <2>2, NothingLeft
  <2>4. have' = m
    <3>1. have' \in Seq(Piece) /\ Len(have') = p + 1
      BY <1>5, <1>6, <1>7, <1>9 DEF TypeOK
    <3>2. \A i \in 1 .. Len(have') : have'[i] = m[i]
      BY <1>6, <1>8, <2>2
    <3> QED BY <1>3, <3>1, <3>2, SeqEqual
  <2>5. Idle'
    BY <1>1, <1>2, <2>1, <2>3 DEF Idle, Done, RestTalk
  <2>6. MailKept'
    BY <1>3, <2>1, <2>4 DEF MailKept
  <2> QED BY <2>1, <2>5, <2>6 DEF Talk
<1>10. CASE need' # 0
  <2>1. pc' = "more" /\ ret' = ret
    BY <1>1, <1>2, <1>10 DEF RetrMore, RestTalk
  <2>2. Len(have') + need' = p + 1 /\ Total' <= need'
    BY <1>5, <1>6, <1>7
  <2>3. ASSUME Total' = need' PROVE a = w
    BY <1>5, <1>7, <2>3
  <2>4. ASSUME Total' = need', NEW i \in 1 .. Total' PROVE At(i)' = m[Len(have') + i]
    <3>1. i + k \in 1 .. a /\ h + (i + k) = Len(have') + i
      BY <1>5, <1>6, <1>7
    <3>2. At(i + k) = m[h + (i + k)]
      <4>1. \A j \in 1 .. a : At(j) = m[h + j]
        BY <1>2, <1>3, <1>5, <2>3, <2>4 DEF RestTalk
      <4> QED BY <3>1, <4>1
    <3> QED BY <1>4, <3>1, <3>2
  <2>5. ASSUME Total' = need', NEW i \in 1 .. Len(have') PROVE have'[i] = m[i]
    BY <1>6, <1>8, <2>3, <2>5
  <2>6. RestTalk'
    BY <1>1, <1>2, <1>3, <2>2, <2>4, <2>5 DEF RestTalk
  <2> QED BY <2>1, <2>6 DEF Talk, MailKept
<1> QED BY <1>9, <1>10

\* A recv that fails while nothing is late finds that nothing will come.
LEMMA FailStep ==
    ASSUME TypeOK, Talk, CallFails, Regular'
    PROVE  Talk'
<1>1. /\ pc \in {"answer", "retr", "more"} /\ pc' = "idle" /\ ~ ret'.ok /\ net = <<>>
      /\ net' = net /\ out' = out /\ inbox' = inbox /\ ~ Due
  BY DEF CallFails, RecvFails, Returns, Regular, wire
<1>2. out = <<>> /\ (srv = "closed" \/ inbox = <<>>)
  BY <1>1 DEF Due
<1>3. inbox = <<>>
  BY <1>1, <1>2 DEF Talk, LineTalk, MailTalk, RestTalk, Sent, Own
<1> QED BY <1>1, <1>2, <1>3 DEF Talk, Idle, MailKept

LEMMA ServeStep ==
    ASSUME TypeOK, Talk, pc \in {"idle", "answer", "retr", "more"}, Serve, Regular'
    PROVE  Talk'
<1>1. /\ pc' = pc /\ call' = call /\ ret' = ret /\ net' = net /\ inbox # <<>>
      /\ inbox' = Tail(inbox)
  BY DEF Serve, clientVars
<1>2. /\ pc \in {"answer", "retr"} /\ Sent /\ call \in Operations
      /\ call.id = "RETR" <=> pc = "retr"
      /\ call.id # "TOP"
  BY <1>1 DEF Talk, Idle, LineTalk, MailTalk, RestTalk, Own
<1>3. inbox = <<call>> /\ net = <<>> /\ inbox' = <<>> /\ Head(inbox) = call
  BY <1>1, <1>2 DEF Sent
<1>4. PICK c \in Command, kind \in {"+OK", "-ERR"}, n \in Nat \cup {None} :
         /\ c = Head(inbox) /\ Says(c, kind, n, out')
         /\ kind = "+OK" => /\ odd' = odd \cup Strange(c, n)
                            /\ c.id = "QUIT" => srv' = "closed"
                            /\ c.id = "DELE" => marked' = marked \cup {c.of}
                            /\ c.id \in {"RSET", "QUIT"} => marked' = {}
  BY ServeIs
<1>5. c = call
  BY <1>3, <1>4
<1>6. PICK l : /\ l = out' /\ l \in Seq(Piece) /\ Len(l) \in Nat /\ Len(l) >= LineParts
               /\ \A i \in 1 .. Len(l) : l[i].to = call.id /\ l[i].of = call.of
               /\ \A i \in 1 .. LineParts : l[i].kind = kind /\ l[i].n = n /\ l[i].at = i
               /\ kind = "-ERR" \/ call.id # "RETR" => Len(l) = LineParts
               /\ kind = "+OK" /\ call.id = "RETR" =>
                     /\ Len(l) = LineParts + Len(Mail(call))
                     /\ \A i \in 1 .. Len(Mail(call)) : l[LineParts + i] = Mail(call)[i]
  <2>1. out' \in Seq(Piece)
    BY <1>4 DEF Says
  <2>2. Len(out') \in Nat
    BY <2>1
  <2> QED BY <1>2, <1>4, <1>5, <2>1, <2>2 DEF Says
<1>7. Total' = Len(l) /\ \A i \in 1 .. Len(l) : At(i)' = l[i]
  BY <1>1, <1>3, <1>6, StreamStarts
<1>8. Own'
  <2>1. ASSUME NEW i \in 1 .. Len(l)
        PROVE  /\ l[i].to = call.id /\ l[i].of = call.of
               /\ i <= LineParts => l[i].at = i /\ l[i].kind # "data"
    <3>1. i <= LineParts => i \in 1 .. LineParts
      BY <1>6, PartsIs
    <3> QED BY <1>6, <3>1
  <2> QED BY <1>1, <1>3, <1>7, <2>1 DEF Own
<1>9. At(1)' .kind = kind /\ At(1)' .n = n
  BY <1>6, <1>7, PartsIs
<1>10. CASE pc = "answer"
  <2>1. Total' = LineParts
    BY <1>2, <1>6, <1>7, <1>10
  <2>2. kind = "+OK" => Done(call)'
    BY <1>1, <1>4, <1>5 DEF Done
  <2>3. LineComing'
    BY <1>1, <1>9, <2>1, <2>2, PartsIs DEF LineComing, Done
  <2> QED BY <1>1, <1>2, <1>8, <1>10, <2>3 DEF Talk, LineTalk, MailKept
<1>11. CASE pc = "retr"
  <2>1. call.id = "RETR" /\ Mail(call') = Mail(call)
    BY <1>1, <1>2, <1>11
  <2>2. MailComing'
    <3>1. CASE kind = "-ERR"
      <4>1. Len(l) = LineParts
        BY <1>6, <3>1
      <4> QED BY <1>7, <1>9, <3>1, <4>1, PartsIs DEF MailComing
    <3>2. CASE kind = "+OK"
      <4>1. Strange(c, n) = {}
        BY <1>4, <3>2 DEF Regular
      <4>2. n = Pieces[call.of]
        BY <1>5, <2>1, <4>1 DEF Strange
      <4>3. PICK p \in Nat, q \in Nat : /\ p = Pieces[call.of] /\ Len(Mail(call)) = p + 1
                                        /\ q = LineParts
        BY <1>2, <2>1, MailIs, PartsIs
      <4>4. Len(l) = q + (p + 1) /\ \A i \in 1 .. p + 1 : l[q + i] = Mail(call)[i]
        BY <1>6, <2>1, <3>2, <4>3
      <4>5. ASSUME NEW i \in 1 .. q + (p + 1), i > q PROVE l[i] = Mail(call)[i - q]
        <5>1. i - q \in 1 .. p + 1 /\ q + (i - q) = i
          BY <4>5
        <5> QED BY <4>4, <5>1
      <4>6. /\ At(1)' .kind = "+OK" /\ At(1)' .n = p /\ Total' <= q + (p + 1)
            /\ \A i \in 1 .. Total' : i > q => At(i)' = Mail(call)[i - q]
        <5>1. Total' = q + (p + 1)
          BY <1>7, <4>4
        <5>2. ASSUME NEW i \in 1 .. Total', i > q PROVE At(i)' = Mail(call)[i - q]
          <6>1. i \in 1 .. q + (p + 1) /\ At(i)' = l[i]
            BY <1>7, <4>4
          <6>2. l[i] = Mail(call)[i - q]
            BY <4>5, <5>2, <6>1
          <6> QED BY <6>1, <6>2
        <5>3. At(1)' .kind = "+OK" /\ At(1)' .n = p
          BY <1>9, <3>2, <4>2, <4>3
        <5>4. Total' <= q + (p + 1)
          BY ONLY <5>1, p \in Nat, q \in Nat
        <5> QED BY ONLY <5>2, <5>3, <5>4
      <4>7. Pieces[call'.of] = p
        BY <1>1, <4>3
      <4> QED BY <2>1, <4>3, <4>6, <4>7 DEF MailComing
    <3> QED BY <3>1, <3>2
  <2> QED BY <1>1, <1>2, <1>8, <1>11, <2>2 DEF Talk, MailTalk, MailKept
<1> QED BY <1>2, <1>10, <1>11

\* The network moves what was sent, and loses the end of it if the connection breaks.
LEMMA NetworkStep ==
    ASSUME TypeOK, TypeOK', Talk, pc \in {"idle", "answer", "retr", "more"}, Arrive \/ Break
    PROVE  Talk'
<1>1. /\ pc' = pc /\ call' = call /\ ret' = ret /\ need' = need /\ have' = have
      /\ inbox' = inbox \/ inbox' = <<>>
      /\ Arrive => srv' = srv /\ marked' = marked /\ inbox' = inbox
      /\ Break => srv' = "closed" /\ marked' = {} /\ inbox' = <<>>
  BY DEF Arrive, Break, clientVars, serverVars
<1>2. PICK a \in Nat, b \in Nat :
         a = Total /\ b = Total' /\ b <= a /\ \A i \in 1 .. b : At(i)' = At(i)
  <2>1. Total \in Nat /\ Total' \in Nat
    BY DEF TypeOK, Total
  <2> QED BY <2>1, StreamArrives, StreamBreaks
<1>3. Done(call) => Done(call)'
  BY <1>1 DEF Done
<1>4. CASE pc = "idle"
  <2>1. Idle
    BY <1>4 DEF Talk
  <2>2. Break
    BY <2>1 DEF Idle, Arrive
  <2>3. Done(ret.of) => Done(ret.of)'
    BY <1>1, <2>2 DEF Done
  <2>4. net' = <<>> /\ out' = <<>> /\ inbox' = <<>>
    BY <2>1, <2>2 DEF Idle, Break
  <2> QED BY <1>1, <1>4, <2>1, <2>3, <2>4 DEF Talk, Idle, MailKept, Done
<1>5. CASE pc \in {"answer", "retr"} /\ Sent
  <2>1. Break /\ Total' <= 0
    <3>1. Break /\ net' = <<>> /\ out' = <<>>
      BY <1>5 DEF Sent, Arrive, Break
    <3> QED BY <3>1 DEF Total
  <2>2. b = 0 /\ inbox' = <<>>
    BY <1>1, <1>2, <2>1
  <2>3. Own' /\ LineComing' /\ MailComing'
    BY <1>2, <2>2, PartsIs DEF Own, LineComing, MailComing
  <2> QED BY <1>1, <1>5, <2>3 DEF Talk, LineTalk, MailTalk, MailKept
<1>6. CASE pc = "answer" /\ ~ Sent
  <2>1. Own /\ LineComing
    BY <1>6 DEF Talk, LineTalk
  <2>2. Own'
    BY <1>1, <1>2, <2>1 DEF Own
  <2>3. LineComing'
    <3>1. b <= LineParts /\ (b > 0 => a > 0 /\ At(1)' = At(1))
      BY <1>2, <2>1, PartsIs DEF LineComing
    <3>2. b > 0 /\ At(1)' .kind = "+OK" => Done(call)'
      BY <1>2, <1>3, <2>1, <3>1 DEF LineComing
    <3> QED BY <1>1, <1>2, <3>1, <3>2 DEF LineComing, Done
  <2> QED BY <1>1, <1>6, <2>2, <2>3 DEF Talk, LineTalk, MailKept
<1>7. CASE pc = "retr" /\ ~ Sent
  <2>1. Own /\ MailComing /\ call \in Operations /\ call.id = "RETR"
    BY <1>7 DEF Talk, MailTalk
  <2>2. Own'
    BY <1>1, <1>2, <2>1 DEF Own
  <2>3. PICK p \in Nat, l \in Nat :
           /\ p = Pieces[call.of] /\ Pieces[call'.of] = p /\ Mail(call') = Mail(call)
           /\ l = LineParts
    BY <1>1, <2>1, MailIs, PartsIs
  <2>4. ASSUME b > 0
        PROVE  \/ At(1)' .kind = "-ERR" /\ b <= l
               \/ /\ At(1)' .kind = "+OK" /\ At(1)' .n = p /\ b <= l + (p + 1)
                  /\ \A i \in 1 .. b : i > l => At(i)' = Mail(call)[i - l]
    <3>1. PICK x : x = At(1) /\ x = At(1)'
      <4>1. 1 \in 1 .. b
        BY <2>4
      <4> QED BY <1>2, <4>1
    <3>2. \/ x.kind = "-ERR" /\ a <= l
          \/ /\ x.kind = "+OK" /\ x.n = p /\ a <= l + (p + 1)
             /\ \A i \in 1 .. a : i > l => At(i) = Mail(call)[i - l]
      <4>1. a > 0
        BY <1>2, <2>4
      <4> QED BY <1>2, <2>1, <2>3, <3>1, <4>1 DEF MailComing
    <3>3. CASE x.kind = "-ERR" /\ a <= l
      <4>1. b <= l
        BY <1>2, <3>3
      <4> QED BY <3>1, <3>3, <4>1
    <3>4. CASE /\ x.kind = "+OK" /\ x.n = p /\ a <= l + (p + 1)
               /\ \A i \in 1 .. a : i > l => At(i) = Mail(call)[i - l]
      <4>1. b <= l + (p + 1)
        BY <1>2, <3>4
      <4>2. ASSUME NEW i \in 1 .. b, i > l PROVE At(i)' = Mail(call)[i - l]
        <5>1. i \in 1 .. a
          BY <1>2
        <5> QED BY <1>2, <3>4, <4>2, <5>1
      <4> QED BY <3>1, <3>4, <4>1, <4>2
    <3> QED BY <3>2, <3>3, <3>4
  <2>5. MailComing'
    BY <1>2, <2>3, <2>4 DEF MailComing
  <2> QED BY <1>1, <1>7, <2>1, <2>2, <2>5 DEF Talk, MailTalk, MailKept
<1>8. CASE pc = "more"
  <2>1. RestTalk
    BY <1>8 DEF Talk
  <2>2. need \in Nat /\ Len(have) \in Nat
    BY DEF TypeOK
  <2>3. Pieces[call'.of] = Pieces[call.of] /\ Mail(call') = Mail(call) /\ inbox' = <<>>
    BY <1>1, <2>1 DEF RestTalk
  <2>4. b <= need /\ (b = need => a = need)
    BY <1>2, <2>1, <2>2 DEF RestTalk
  <2>5. ASSUME b = need
        PROVE  /\ \A i \in 1 .. Len(have) : have[i] = Mail(call)[i]
               /\ \A i \in 1 .. b : At(i)' = Mail(call)[Len(have) + i]
    BY <1>2, <2>1, <2>4, <2>5 DEF RestTalk
  <2>6. RestTalk'
    BY <1>1, <1>2, <2>1, <2>3, <2>4, <2>5 DEF RestTalk
  <2> QED BY <1>1, <1>8, <2>6 DEF Talk, MailKept
<1> QED BY <1>4, <1>5, <1>6, <1>7, <1>8

\* The login has read all that the server said when it ends.
LEMMA LoginEndStep ==
    ASSUME TypeOK, TypeOK', LoginInv, Clean, Clean', PassOk \/ PassAgain, pc' = "idle"
    PROVE  Talk'
<1>1. /\ Asking /\ Reads(Room) /\ out' = out /\ inbox' = inbox /\ ret' = ret
      /\ TRUE \in Digit(Buffer)
  BY DEF PassOk, PassAgain, Receives, Asking
<1>2. LoginStream /\ ~ ret.ok
  BY <1>1 DEF LoginInv
<1>3. PICK k \in Nat \ {0}, t \in Nat :
         /\ t = Total /\ k <= t /\ Total' = t - k /\ Total \in Nat
         /\ Len(Buffer) = k /\ \A i \in 1 .. k : Buffer[i] = At(i)
         /\ Complete(At(k))
  BY <1>1, FirstRead DEF Clean
<1>4. At(1).to = "PASS"
  BY ONLY <1>1, <1>2, <1>3, DigitFound
<1>5. inbox = <<>> /\ \A j \in 1 .. t : 1 < j => At(j).to = "PASS"
  <2>1. 1 \in 1 .. Total
    BY <1>3
  <2> QED BY <1>2, <1>3, <1>4, <2>1 DEF LoginStream
<1>6. k = t
  <2> SUFFICES ASSUME k < t PROVE FALSE
    BY <1>3
  <2>1. k \in 1 .. t /\ k + 1 \in 1 .. t /\ k < k + 1
    BY <1>3
  <2>2. At(k).to = "PASS"
    BY <1>3, <1>4, <1>5, <2>1
  <2> QED BY <1>2, <1>3, <2>1, <2>2 DEF LoginStream
<1>7. net' = <<>> /\ out' = <<>>
  <2>1. Total' <= 0
    BY <1>3, <1>6
  <2> QED BY <2>1, NothingLeft
<1> QED BY <1>1, <1>2, <1>5, <1>7 DEF Talk, Idle, MailKept

LEMMA TalkStep ==
    ASSUME TypeOK, TypeOK', LoginInv, Regular => Talk, [Next]_vars, Regular'
    PROVE  Talk'
<1>1. CASE Connect
  BY <1>1 DEF Connect, Talk, MailKept, NoRet
<1>2. CASE ~ Connect
  <2>1. Regular /\ Talk /\ Clean /\ Clean'
    BY <1>2, OddGrows DEF Regular, Clean
  <2>2. CASE UserOk \/ LoginFails \/ ((PassOk \/ PassAgain) /\ pc' # "idle")
    <3>1. ret' = ret /\ pc' \in {"pass", "pass_again", "off"}
      BY <2>2 DEF UserOk, LoginFails, Clear, PassOk, PassAgain
    <3> QED BY <2>1, <3>1 DEF Talk, MailKept
  <2>3. CASE (PassOk \/ PassAgain) /\ pc' = "idle"
    BY <2>1, <2>3, LoginEndStep
  <2>4. CASE Crashes
    <3>1. Crash
      BY <2>4 DEF Crashes, PassCrashes, AnswerCrashes, RetrCrashes, MailCrashes
    <3>2. ret' = ret /\ pc' = "crashed"
      BY <3>1 DEF Crash
    <3> QED BY <2>1, <3>2 DEF Talk, MailKept
  <2>5. CASE TopRest
    BY <2>1, <2>5 DEF TopRest, Talk, RestTalk
  <2>6. CASE Operates
    BY <2>1, <2>5, <2>6, SendStep, AnsweredStep, SizeStep, MoreStep, FailStep DEF Operates
  <2>7. CASE Serve \/ Arrive \/ Break
    <3>1. pc' = pc /\ ret' = ret
      BY <2>7 DEF Serve, Arrive, Break, clientVars
    <3>2. CASE pc \in {"idle", "answer", "retr", "more"}
      BY <2>1, <2>7, <3>2, ServeStep, NetworkStep
    <3>3. CASE pc \notin {"idle", "answer", "retr", "more"}
      BY <2>1, <3>1, <3>3 DEF Talk, MailKept
    <3> QED BY <3>2, <3>3
  <2>8. CASE UNCHANGED vars
    <3>1. /\ pc' = pc /\ call' = call /\ ret' = ret /\ need' = need /\ have' = have
          /\ inbox' = inbox /\ net' = net /\ out' = out /\ srv' = srv /\ marked' = marked
      BY <2>8 DEF vars
    <3>2. (Idle' <=> Idle) /\ (MailKept' <=> MailKept)
      BY <3>1 DEF Idle, Done, MailKept
    <3>3. (LineTalk' <=> LineTalk) /\ (MailTalk' <=> MailTalk)
      BY <3>1 DEF LineTalk, MailTalk, Sent, Own, LineComing, MailComing, Total, At, Done
    <3>4. RestTalk' <=> RestTalk
      BY <3>1 DEF RestTalk, Total, At
    <3> QED BY <2>1, <3>1, <3>2, <3>3, <3>4 DEF Talk
  <2> QED BY <1>2, <2>2, <2>3, <2>4, <2>6, <2>7, <2>8 DEF Next, Client, LogsIn
<1> QED BY <1>1, <1>2

Inv == TypeOK /\ LoginInv /\ (Regular => Talk)

LEMMA InStep == Spec => []Inv
<1>1. Init => Inv
  <2> SUFFICES ASSUME Init PROVE Inv
    OBVIOUS
  <2>1. pc = "off" /\ ~ ret.ok
    BY DEF Init, NoRet
  <2>2. Talk
    BY <2>1 DEF Talk, MailKept
  <2> QED BY <2>2, TypeInit, LoginStarts DEF Inv
<1>2. Inv /\ [Next]_vars => Inv'
  BY TypeStep, LoginStep, TalkStep DEF Inv
<1> QED BY <1>1, <1>2, PTL DEF Spec

\* As long as a session has met with nothing odd (no status line found in parts, no
\* answer later than the three seconds, no TOP, no message of another size than was
\* announced, no digit before the answer to PASS), an idle client has nothing unread and
\* nothing coming, and an operation finds its own answer (IsOk, Look, GetMailSize).
THEOREM AnswersTheirOwn == Spec => []OwnAnswer
<1>1. Inv => OwnAnswer
  <2> SUFFICES ASSUME Inv, Regular PROVE OwnAnswer
    BY DEF OwnAnswer
  <2>1. TypeOK /\ Talk
    BY DEF Inv
  <2>2. pc = "idle" => net = <<>> /\ out = <<>> /\ inbox = <<>>
    BY <2>1 DEF Talk, Idle
  <2>3. ASSUME pc \in {"answer", "retr"}, net # <<>>
        PROVE  Head(net).to = call.id /\ Head(net).of = call.of
    <3>1. Own
      BY <2>1, <2>3 DEF Talk, LineTalk, MailTalk, Sent
    <3>2. 1 \in 1 .. Total /\ Head(net) = At(1)
      BY <2>1, <2>3, StreamIs
    <3> QED BY <3>1, <3>2 DEF Own
  <2> QED BY <2>2, <2>3 DEF OwnAnswer
<1> QED BY <1>1, InStep, PTL

\* As long as that is so, what DeleteMail, CancelDeleteMail and MailUpdate report has
\* happened at the server, unless the connection broke after it.
THEOREM ReportsHappened == Spec => []Happened
<1>1. Inv => Happened
  BY DEF Inv, Happened, Talk, Idle, Done
<1> QED BY <1>1, InStep, PTL

\* As long as that is so, what Look has received when it turns to the text of a message
\* is the whole message that was asked for, in whatever pieces the message came.
THEOREM MailsWhole == Spec => []MailWhole
<1>1. Inv => MailWhole
  BY DEF Inv, MailWhole, Talk, MailKept, Mail
<1> QED BY <1>1, InStep, PTL
=============================================================================
