---------------------------- MODULE SensorProofs ----------------------------
(***************************************************************************)
(* Proofs about Sensor: its types, that a client shows the reading its own *)
(* user asked for, and what may end a server, for any number of clients    *)
(* and any queries and tables.                                             *)
(***************************************************************************)
EXTENDS Sensor, TLAPS

LEMMA TextLength == \A x : Len(Text(x)) = 2
BY DEF Text

LEMMA TextTaken ==
    \A x : SubSeq(Text(x), 1, 2) = Text(x) /\ SubSeq(Text(x), 3, 2) = <<>>
<1> SUFFICES ASSUME NEW x PROVE SubSeq(Text(x), 1, 2) = Text(x) /\ SubSeq(Text(x), 3, 2) = <<>>
    OBVIOUS
<1>1. Text(x) \in Seq({x}) /\ Len(Text(x)) = 2 /\ Text(x)[1] = x /\ Text(x)[2] = x
    BY DEF Text
<1>2. SubSeq(Text(x), 3, 2) \in Seq({x}) /\ Len(SubSeq(Text(x), 3, 2)) = 0
    BY <1>1
<1> DEFINE t == SubSeq(Text(x), 1, 2)
<1>3. t \in Seq({x}) /\ Len(t) = 2
    BY <1>1
<1>4. t[1] = Text(x)[1] /\ t[2] = Text(x)[2]
    BY <1>1
<1>5. \A i \in 1 .. 2 : i = 1 \/ i = 2
    OBVIOUS
<1>6. \A i \in 1 .. 2 : t[i] = Text(x)[i]
    BY <1>4, <1>5
<1>7. t = Text(x)
  <2> HIDE DEF t
  <2> QED BY <1>1, <1>3, <1>6
<1> QED BY <1>2, <1>7

\* A recv of everything.
LEMMA AllTaken ==
    ASSUME NEW S, NEW s \in Seq(S), NEW n \in 1 .. Len(s), SubSeq(s, n + 1, Len(s)) = <<>>
    PROVE  SubSeq(s, 1, n) = s
<1>1. Len(SubSeq(s, n + 1, Len(s))) = Len(s) - n
    OBVIOUS
<1>2. n = Len(s)
    BY <1>1
<1> QED BY <1>2

LEMMA ServerStep ==
    Serve => \/ Accept \/ (\E n \in 1 .. 4 : RecvQuery(n))
             \/ RecvNothingCpp \/ RecvErrorCpp \/ AnswerCpp
             \/ RecvNothingPython \/ RecvErrorPython \/ RecvNothingJava \/ AnswerChecked
BY DEF Serve

LEMMA RowType == \A q : RowOf(q) \in Row \cup {Junk}
<1> SUFFICES ASSUME NEW q PROVE RowOf(q) \in Row \cup {Junk}
    OBVIOUS
<1>1. (IF kind = "python" THEN -1 ELSE 0) .. Rows - 1 \subseteq Row
    BY SensorAssumption DEF Row
<1> QED BY <1>1 DEF RowOf

-----------------------------------------------------------------------------
(* The types.                                                              *)

LEMMA TypeInit == Init => TypeOK
BY SensorAssumption DEF Init, TypeOK

LEMMA Rest ==
    ASSUME NEW S, NEW s \in Seq(S), NEW n \in 1 .. Len(s)
    PROVE  SubSeq(s, n + 1, Len(s)) \in Seq(S) /\ SubSeq(s, 1, n) \in Seq(S)
OBVIOUS

LEMMA TakesType ==
    ASSUME TypeOK, NEW c \in Client, NEW n, Takes(c, n)
    PROVE  pieces' \subseteq Client /\ toCli' \in [Client -> Seq(Row \cup {Junk, Greeting})]
<1>1. toCli[c] \in Seq(Row \cup {Junk, Greeting}) /\ n \in 1 .. Len(toCli[c])
    BY DEF TypeOK, Takes
<1>2. SubSeq(toCli[c], n + 1, Len(toCli[c])) \in Seq(Row \cup {Junk, Greeting})
    BY <1>1, Rest
<1> QED BY <1>2 DEF TypeOK, Takes

LEMMA TypeUser ==
    ASSUME TypeOK, NEW c \in Client, User(c)
    PROVE  TypeOK'
<1> USE SensorAssumption DEF TypeOK
<1>1. CASE Connect(c)
    BY <1>1 DEF Connect
<1>2. CASE ReadGreeting(c)
  <2>1. pieces' \subseteq Client /\ toCli' \in [Client -> Seq(Row \cup {Junk, Greeting})]
    BY <1>2, TakesType DEF ReadGreeting
  <2> QED BY <1>2, <2>1 DEF ReadGreeting, server
<1>3. CASE NoAnswer(c)
    BY <1>3 DEF NoAnswer, server
<1>4. CASE \E q \in Query : Type(c, q)
  <2>1. PICK q \in Query : Type(c, q)
    BY <1>4
  <2>2. q \in Seq(0 .. 9)
    OBVIOUS
  <2>3. asked' \in [Client -> Seq(Query)] /\ toSrv' \in [Client -> Seq(0 .. 9)]
    BY <2>1, <2>2 DEF Type
  <2>4. ASSUME NEW d \in Client PROVE Len(asked'[d]) <= MaxAsk[d]
    <3>1. CASE d = c
      <4>1. Len(asked'[c]) = Len(asked[c]) + 1
        BY <2>1 DEF Type
      <4> QED BY <2>1, <3>1, <4>1 DEF Type
    <3> QED BY <2>1, <3>1 DEF Type
  <2> QED BY <2>1, <2>3, <2>4 DEF Type, server
<1>5. CASE \E n \in 1 .. 4 : ReadAnswer(c, n)
  <2>1. PICK n \in 1 .. 4 : ReadAnswer(c, n)
    BY <1>5
  <2>2. pieces' \subseteq Client /\ toCli' \in [Client -> Seq(Row \cup {Junk, Greeting})]
    BY <2>1, TakesType DEF ReadAnswer
  <2>3. recData' \in [Client -> Seq(Row \cup {Junk, Greeting})]
    <3>1. toCli[c] \in Seq(Row \cup {Junk, Greeting}) /\ n \in 1 .. Len(toCli[c])
      BY <2>1 DEF ReadAnswer, Takes
    <3>2. SubSeq(toCli[c], 1, n) \in Seq(Row \cup {Junk, Greeting})
      BY <3>1
    <3> QED BY <2>1, <3>2 DEF ReadAnswer
  <2> QED BY <2>1, <2>2, <2>3 DEF ReadAnswer, server
<1>6. CASE \E how \in {"closed", "reset"} : Leave(c, how)
    BY <1>6 DEF Leave, server
<1> QED BY <1>1, <1>2, <1>3, <1>4, <1>5, <1>6 DEF User

LEMMA SendType ==
    ASSUME TypeOK, NEW c \in Client, NEW x \in Row \cup {Junk, Greeting}, SendsTo(c, Text(x))
    PROVE  /\ toCli' \in [Client -> Seq(Row \cup {Junk, Greeting})]
           /\ cli' \in [Client -> {"off", "greet", "type", "wait", "closed", "reset"}]
<1>1. Text(x) \in Seq(Row \cup {Junk, Greeting})
    BY DEF Text
<1> QED BY <1>1 DEF SendsTo, TypeOK

LEMMA TypeServer ==
    ASSUME TypeOK, Serve
    PROVE  TypeOK'
<1> USE SensorAssumption DEF TypeOK
<1>1. CASE Accept
  <2>1. Head(backlog) \in Client /\ Tail(backlog) \in Seq(Client)
    BY <1>1 DEF Accept
  <2>2. /\ toCli' \in [Client -> Seq(Row \cup {Junk, Greeting})]
        /\ cli' \in [Client -> {"off", "greet", "type", "wait", "closed", "reset"}]
    BY <1>1, <2>1, SendType DEF Accept
  <2> QED BY <1>1, <2>1, <2>2 DEF Accept
<1>2. CASE \E n \in 1 .. 4 : RecvQuery(n)
  <2>1. PICK n \in 1 .. 4 : RecvQuery(n)
    BY <1>2
  <2>2. client \in Client
    BY <2>1 DEF RecvQuery, Reads
  <2>3. /\ toSrv' \in [Client -> Seq(0 .. 9)] /\ revData' \in Seq(0 .. 9)
        /\ pieces' \subseteq Client
    <3>1. toSrv[client] \in Seq(0 .. 9) /\ n \in 1 .. Len(toSrv[client])
      BY <2>1, <2>2 DEF RecvQuery, Reads
    <3>2. /\ SubSeq(toSrv[client], n + 1, Len(toSrv[client])) \in Seq(0 .. 9)
          /\ SubSeq(toSrv[client], 1, n) \in Seq(0 .. 9)
      BY <3>1, Rest
    <3> QED BY <2>1, <2>2, <3>2 DEF RecvQuery, Reads
  <2> QED BY <2>1, <2>2, <2>3 DEF RecvQuery, Reads
<1>3. CASE RecvNothingCpp
    BY <1>3 DEF RecvNothingCpp, AtEnd
<1>4. CASE RecvErrorCpp
    BY <1>4 DEF RecvErrorCpp, Lost, Hangs
<1>5. CASE RecvNothingPython
    BY <1>5 DEF RecvNothingPython, AtEnd, Hangs
<1>6. CASE RecvErrorPython
    BY <1>6 DEF RecvErrorPython, Lost, Ends
<1>7. CASE RecvNothingJava
    BY <1>7 DEF RecvNothingJava, AtEnd, Lost, Ends
<1>8. CASE AnswerCpp \/ AnswerChecked
  <2>1. client \in Client
    BY <1>8 DEF AnswerCpp, AnswerChecked
  <2>2. \/ /\ \E row \in Row \cup {Junk} : SendsTo(client, Text(row))
           /\ pc' = "recv" /\ UNCHANGED <<client, srv>>
        \/ Ends /\ UNCHANGED <<cli, toCli>>
    BY <1>8, RowType DEF AnswerCpp, AnswerChecked, Row
  <2>3. /\ toCli' \in [Client -> Seq(Row \cup {Junk, Greeting})]
        /\ cli' \in [Client -> {"off", "greet", "type", "wait", "closed", "reset"}]
    BY <2>1, <2>2, SendType
  <2>4. srv' \in [Client -> BOOLEAN] /\ pc' \in {"recv", "down"} /\ client' = client
    BY <2>2 DEF Ends
  <2> QED BY <1>8, <2>1, <2>3, <2>4 DEF AnswerCpp, AnswerChecked
<1> QED BY <1>1, <1>2, <1>3, <1>4, <1>5, <1>6, <1>7, <1>8, ServerStep

\* Every state is of its type, for any clients, queries and tables.
THEOREM SensorTypes == Spec => []TypeOK
<1>1. TypeOK /\ [Next]_vars => TypeOK'
    BY TypeUser, TypeServer DEF Next, vars, TypeOK
<1> QED BY TypeInit, <1>1, PTL DEF Spec

-----------------------------------------------------------------------------
(* The invariant.                                                          *)

Waits(c) == \E i \in 1 .. Len(backlog) : backlog[i] = c
Answering(c) == pc = "answer" /\ client = c
Mine(c) == Text(RowOf(Last(asked[c])))

\* A client is in the backlog once, and served after that; until then nothing is sent.
Place(c) ==
    /\ Waits(c) => client # c /\ toCli[c] = <<>> /\ cli[c] # "off"
    /\ pc # "down" /\ Waits(c) /\ kind = "cpp" => cli[c] \in {"greet", "closed", "reset"}
    /\ client = c => cli[c] # "off"
    /\ pc # "down" /\ (Waits(c) \/ client = c) => srv[c]
    /\ cli[c] = "off" => toCli[c] = <<>> /\ toSrv[c] = <<>> /\ asked[c] = <<>>
    /\ asked[c] = <<>> => recData[c] = <<>> /\ cli[c] # "wait"

Once == \A i, j \in 1 .. Len(backlog) : backlog[i] = backlog[j] => i = j

\* Of one query and its answer there is one thing at a time: the query on its way, the
\* query in revData, or the answer on its way.
Talk(c) ==
    /\ srv[c] /\ toSrv[c] # <<>> => asked[c] # <<>> /\ toSrv[c] = Last(asked[c])
    /\ cli[c] = "greet" => /\ toSrv[c] = <<>> /\ asked[c] = <<>> /\ ~ Answering(c)
                           /\ toCli[c] = <<>> \/ toCli[c] = Text(Greeting)
    /\ cli[c] = "type" => /\ toCli[c] = <<>> /\ ~ Answering(c) /\ (srv[c] => toSrv[c] = <<>>)
                          /\ recData[c] = <<>> \/ recData[c] = Mine(c)
    /\ cli[c] = "wait" =>
          /\ asked[c] # <<>>
          /\ \/ toCli[c] = <<>> /\ ~ Answering(c) /\ (srv[c] => toSrv[c] = Last(asked[c]))
             \/ toCli[c] = <<>> /\ Answering(c) /\ toSrv[c] = <<>> /\ revData = Last(asked[c])
             \/ toCli[c] = Mine(c) /\ ~ Answering(c) /\ (srv[c] => toSrv[c] = <<>>)

Inv == /\ TypeOK /\ Once
       /\ \A c \in Client : Place(c) /\ (c \notin pieces => Talk(c))

LEMMA InvMeans == Inv => OwnReading
BY DEF Inv, OwnReading, Talk, Mine

LEMMA InvInit == Init => Inv
<1> SUFFICES ASSUME Init PROVE Inv
    OBVIOUS
<1>1. \A c \in Client : ~ Waits(c) /\ client # c /\ ~ Answering(c)
    BY SensorAssumption DEF Init, Waits, Answering
<1>2. \A c \in Client : Place(c) /\ Talk(c)
    BY <1>1 DEF Init, Place, Talk
<1> QED BY <1>2, TypeInit DEF Inv, Init, Once

\* What a step leaves alone.
Same(c) == /\ cli'[c] = cli[c] /\ toSrv'[c] = toSrv[c] /\ toCli'[c] = toCli[c]
           /\ asked'[c] = asked[c] /\ recData'[c] = recData[c]

LEMMA SameTalk ==
    ASSUME NEW c \in Client, Same(c), kind' = kind, srv'[c] => srv[c],
           Answering(c)' <=> Answering(c), Answering(c) => revData' = revData, Talk(c)
    PROVE  Talk(c)'
<1>1. Mine(c)' = Mine(c)
    BY DEF Same, Mine, RowOf, Index
<1> QED BY <1>1 DEF Same, Talk

LEMMA SamePlace ==
    ASSUME NEW c \in Client, Same(c), kind' = kind,
           Waits(c)' => Waits(c), client' = c => client = c,
           srv'[c] = srv[c] \/ pc' = "down" \/ ~ (Waits(c)' \/ client' = c),
           pc = "down" => pc' = "down", Place(c)
    PROVE  Place(c)'
BY DEF Same, Place

\* A step of a client that is connected: nobody else notices.
LEMMA UserFrame ==
    ASSUME Inv, TypeOK', NEW c \in Client, UNCHANGED server,
           \A d \in Client : d # c => Same(d),
           pieces \subseteq pieces', pieces' \subseteq pieces \cup {c},
           Place(c)', c \notin pieces' => Talk(c)'
    PROVE  Inv'
<1>1. Once'
    BY DEF Inv, Once, server
<1>2. ASSUME NEW d \in Client, d # c PROVE Place(d)' /\ (d \notin pieces' => Talk(d)')
  <2>1. Waits(d)' <=> Waits(d)
    BY DEF Waits, server
  <2>2. Answering(d)' <=> Answering(d)
    BY DEF Answering, server
  <2>3. Same(d) /\ Place(d) /\ (d \notin pieces' => Talk(d))
    BY <1>2 DEF Inv
  <2>4. Place(d)'
    BY <2>1, <2>3, SamePlace DEF server
  <2>5. d \notin pieces' => Talk(d)'
    BY <2>2, <2>3, SameTalk DEF server
  <2> QED BY <2>4, <2>5
<1> QED BY <1>1, <1>2 DEF Inv

\* A recv that takes one text as a whole.
LEMMA TakesOne ==
    ASSUME NEW c \in Client, NEW n, Takes(c, n), c \notin pieces', NEW x,
           toCli[c] = Text(x), toCli \in [Client -> Seq(Row \cup {Junk, Greeting})]
    PROVE  n = 2 /\ toCli'[c] = <<>> /\ SubSeq(toCli[c], 1, n) = Text(x)
<1>1. n = 2
    BY TextLength DEF Takes
<1>2. Len(toCli[c]) = 2
    BY TextLength
<1>3. toCli'[c] = SubSeq(toCli[c], 3, 2)
    BY <1>1, <1>2 DEF Takes
<1> QED BY <1>1, <1>2, <1>3, TextTaken

LEMMA LastAppended ==
    ASSUME NEW S, NEW s \in Seq(S), NEW q \in S
    PROVE  Append(s, q) # <<>> /\ Last(Append(s, q)) = q
<1>1. Len(Append(s, q)) = Len(s) + 1 /\ Append(s, q)[Len(s) + 1] = q
    OBVIOUS
<1> QED BY <1>1 DEF Last

LEMMA InvUser ==
    ASSUME Inv, NEW c \in Client, User(c)
    PROVE  Inv'
<1>t. TypeOK /\ TypeOK' /\ Place(c) /\ (c \notin pieces => Talk(c))
    BY TypeUser DEF Inv
<1>1. CASE Connect(c)
  <2>1. ~ Waits(c) /\ client # c /\ cli[c] = "off"
    BY <1>1, <1>t DEF Connect, Place
  <2>2. /\ Len(backlog') = Len(backlog) + 1 /\ backlog'[Len(backlog) + 1] = c
        /\ \A i \in 1 .. Len(backlog) : backlog'[i] = backlog[i]
        /\ Len(backlog) \in Nat
    BY <1>1, <1>t DEF Connect, TypeOK
  <2>3. Once'
    <3>1. \A i \in 1 .. Len(backlog') : i \in 1 .. Len(backlog) \/ i = Len(backlog) + 1
      BY <2>2
    <3>2. \A i \in 1 .. Len(backlog) : backlog[i] # c
      BY <2>1 DEF Waits
    <3>3. Once
      BY DEF Inv
    <3> QED BY <2>2, <3>1, <3>2, <3>3 DEF Once
  <2>4. ASSUME NEW d \in Client, d # c PROVE Place(d)' /\ (d \notin pieces' => Talk(d)')
    <3>1. Waits(d)' => Waits(d)
      <4>1. \A i \in 1 .. Len(backlog') : i \in 1 .. Len(backlog) \/ i = Len(backlog) + 1
        BY <2>2
      <4> QED BY <2>2, <2>4, <4>1 DEF Waits
    <3>2. Same(d) /\ srv'[d] = srv[d] /\ kind' = kind /\ client' = client /\ pc' = pc
          /\ revData' = revData /\ pieces' = pieces
      BY <1>1, <2>4, <1>t DEF Connect, Same, TypeOK
    <3>3. Answering(d)' <=> Answering(d)
      BY <3>2 DEF Answering
    <3>4. Place(d)'
      BY <3>1, <3>2, SamePlace DEF Inv
    <3>5. d \notin pieces' => Talk(d)'
      BY <3>2, <3>3, SameTalk DEF Inv
    <3> QED BY <3>4, <3>5
  <2>5. Place(c)' /\ Talk(c)'
    <3>1. /\ cli'[c] = (IF kind = "cpp" THEN "greet" ELSE "type") /\ srv'[c] = TRUE
          /\ UNCHANGED <<kind, pc, client, revData, toSrv, toCli, asked, recData>> /\ pc # "down"
      BY <1>1, <1>t DEF Connect, TypeOK
    <3>2. toCli[c] = <<>> /\ toSrv[c] = <<>> /\ asked[c] = <<>> /\ recData[c] = <<>>
      BY <2>1, <1>t DEF Place
    <3> QED BY <2>1, <3>1, <3>2 DEF Place, Talk, Answering
  <2> QED BY <1>t, <2>3, <2>4, <2>5 DEF Inv
<1>2. CASE ReadGreeting(c)
  <2>1. /\ cli[c] = "greet" /\ cli'[c] = "type" /\ UNCHANGED server
        /\ UNCHANGED <<toSrv, asked, recData>>
    BY <1>2, <1>t DEF ReadGreeting, TypeOK
  <2>2. /\ \A d \in Client : d # c => Same(d)
        /\ pieces \subseteq pieces' /\ pieces' \subseteq pieces \cup {c}
    BY <1>2, <1>t DEF ReadGreeting, Takes, Same, TypeOK
  <2>3. /\ Waits(c)' <=> Waits(c)
        /\ Answering(c)' <=> Answering(c)
    BY <2>1 DEF Waits, Answering, server
  <2>4. pc # "down" => ~ Waits(c)
    <3> SUFFICES ASSUME pc # "down", Waits(c) PROVE FALSE
      OBVIOUS
    <3>1. toCli[c] = <<>> /\ srv[c]
      BY <1>t DEF Place
    <3>2. Len(toCli[c]) = 0
      BY <3>1
    <3> QED BY <1>2, <3>1, <3>2 DEF ReadGreeting, Takes
  <2>5. Waits(c) => toCli'[c] = <<>>
    <3>1. Waits(c) => Len(toCli[c]) = 0
      BY <1>t DEF Place
    <3> QED BY <1>2, <1>t, <3>1 DEF ReadGreeting, Takes, Place
  <2>6. Place(c)'
    BY <1>t, <2>1, <2>3, <2>4, <2>5 DEF Place, server
  <2>7. ASSUME c \notin pieces' PROVE Talk(c)'
    <3>1. c \notin pieces /\ Talk(c)
      BY <1>t, <2>2, <2>7
    <3>2. toCli'[c] = <<>>
      <4>1. CASE \E n \in 1 .. 4 : Takes(c, n)
        <5>1. PICK n \in 1 .. 4 : Takes(c, n)
          BY <4>1
        <5>2. toCli[c] # <<>>
          BY <5>1 DEF Takes
        <5>3. toCli[c] = Text(Greeting)
          BY <2>1, <3>1, <5>2 DEF Talk
        <5> QED BY <1>t, <2>7, <5>1, <5>3, TakesOne DEF TypeOK
      <4>2. CASE toCli[c] = <<>> /\ UNCHANGED toCli
        BY <4>2
      <4> QED BY <1>2, <4>1, <4>2 DEF ReadGreeting
    <3>3. recData[c] = <<>> /\ toSrv[c] = <<>>
      BY <1>t, <2>1, <3>1 DEF Place, Talk
    <3> QED BY <2>1, <2>3, <3>1, <3>2, <3>3 DEF Talk, server
  <2> QED BY <1>t, <2>1, <2>2, <2>6, <2>7, UserFrame
<1>3. CASE NoAnswer(c)
  <2>1. /\ cli[c] = "wait" /\ toCli[c] = <<>> /\ ~ srv[c] /\ UNCHANGED server
        /\ UNCHANGED <<toSrv, toCli, asked, pieces>> /\ recData'[c] = <<>>
        /\ cli'[c] = IF kind = "cpp" THEN "type" ELSE "closed"
    BY <1>3, <1>t DEF NoAnswer, TypeOK
  <2>2. \A d \in Client : d # c => Same(d)
    BY <1>3, <1>t DEF NoAnswer, Same, TypeOK
  <2>3. /\ Waits(c)' <=> Waits(c)
        /\ Answering(c)' <=> Answering(c)
    BY <2>1 DEF Waits, Answering, server
  <2>4. Place(c)'
    BY <1>t, <2>1, <2>3 DEF Place, server
  <2>5. ~ Answering(c)
    BY <1>t, <2>1 DEF Place, Answering
  <2>6. c \notin pieces' => Talk(c)'
    BY <1>t, <2>1, <2>3, <2>5 DEF Talk, server
  <2> QED BY <1>t, <2>1, <2>2, <2>4, <2>6, UserFrame
<1>4. ASSUME NEW q \in Query, Type(c, q) PROVE Inv'
  <2>1. /\ cli[c] = "type" /\ cli'[c] = "wait" /\ UNCHANGED server
        /\ UNCHANGED <<toCli, recData, pieces>>
        /\ asked'[c] = Append(asked[c], q)
        /\ toSrv'[c] = IF srv[c] THEN toSrv[c] \o q ELSE toSrv[c]
    BY <1>4, <1>t DEF Type, TypeOK
  <2>2. \A d \in Client : d # c => Same(d)
    BY <1>4, <1>t DEF Type, Same, TypeOK
  <2>3. /\ Waits(c)' <=> Waits(c)
        /\ Answering(c)' <=> Answering(c)
    BY <2>1 DEF Waits, Answering, server
  <2>4. asked'[c] # <<>> /\ Last(asked'[c]) = q
    <3>1. asked[c] \in Seq(Query)
      BY <1>t DEF TypeOK
    <3>2. Append(asked[c], q) # <<>> /\ Last(Append(asked[c], q)) = q
      BY <3>1, LastAppended
    <3> QED BY <2>1, <3>2
  <2>5. Place(c)'
    BY <1>t, <2>1, <2>3, <2>4 DEF Place, server
  <2>6. ASSUME c \notin pieces' PROVE Talk(c)'
    <3>1. toCli[c] = <<>> /\ ~ Answering(c) /\ (srv[c] => toSrv[c] = <<>>)
      BY <1>t, <2>1, <2>6 DEF Talk
    <3>2. q \in Seq(0 .. 9) /\ <<>> \o q = q
      BY SensorAssumption
    <3>3. srv'[c] => toSrv'[c] = Last(asked'[c])
      BY <2>1, <2>4, <3>1, <3>2 DEF server
    <3> QED BY <2>1, <2>3, <2>4, <3>1, <3>3 DEF Talk
  <2> QED BY <1>t, <2>1, <2>2, <2>5, <2>6, UserFrame
<1>5. ASSUME NEW n \in 1 .. 4, ReadAnswer(c, n) PROVE Inv'
  <2>1. /\ cli[c] = "wait" /\ cli'[c] = "type" /\ UNCHANGED server
        /\ UNCHANGED <<toSrv, asked>> /\ Takes(c, n)
        /\ recData'[c] = SubSeq(toCli[c], 1, n)
    BY <1>5, <1>t DEF ReadAnswer, TypeOK
  <2>2. /\ \A d \in Client : d # c => Same(d)
        /\ pieces \subseteq pieces' /\ pieces' \subseteq pieces \cup {c}
    BY <1>5, <1>t DEF ReadAnswer, Takes, Same, TypeOK
  <2>3. /\ Waits(c)' <=> Waits(c)
        /\ Answering(c)' <=> Answering(c)
    BY <2>1 DEF Waits, Answering, server
  <2>4. toCli[c] # <<>> /\ ~ Waits(c)
    BY <1>t, <2>1 DEF Takes, Place
  <2>5. Place(c)'
    <3>1. asked[c] # <<>>
      BY <1>t, <2>1 DEF Place
    <3> QED BY <1>t, <2>1, <2>3, <2>4, <3>1 DEF Place, server
  <2>6. ASSUME c \notin pieces' PROVE Talk(c)'
    <3>1. c \notin pieces /\ Talk(c)
      BY <1>t, <2>2, <2>6
    <3>2. toCli[c] = Mine(c) /\ ~ Answering(c) /\ (srv[c] => toSrv[c] = <<>>)
      BY <2>1, <2>4, <3>1 DEF Talk
    <3>3. toCli'[c] = <<>> /\ recData'[c] = Mine(c)
      BY <1>t, <2>1, <2>6, <3>2, TakesOne DEF Mine, TypeOK
    <3>4. Mine(c)' = Mine(c)
      BY <2>1 DEF Mine, RowOf, Index, server
    <3> QED BY <2>1, <2>3, <3>1, <3>2, <3>3, <3>4 DEF Talk, server
  <2> QED BY <1>t, <2>1, <2>2, <2>5, <2>6, UserFrame
<1>6. ASSUME NEW how \in {"closed", "reset"}, Leave(c, how) PROVE Inv'
  <2>1. /\ cli[c] # "off" /\ cli'[c] = how /\ UNCHANGED server
        /\ UNCHANGED <<toSrv, toCli, asked, recData, pieces>>
    BY <1>6, <1>t DEF Leave, TypeOK
  <2>2. \A d \in Client : d # c => Same(d)
    BY <1>6, <1>t DEF Leave, Same, TypeOK
  <2>3. /\ Waits(c)' <=> Waits(c)
        /\ Answering(c)' <=> Answering(c)
    BY <2>1 DEF Waits, Answering, server
  <2>4. Place(c)'
    BY <1>t, <2>1, <2>3 DEF Place, server
  <2>5. c \notin pieces' => Talk(c)'
    BY <1>t, <2>1, <2>3 DEF Talk, server
  <2> QED BY <1>t, <2>1, <2>2, <2>4, <2>5, UserFrame
<1> QED BY <1>1, <1>2, <1>3, <1>4, <1>5, <1>6 DEF User

\* A step of the server: only those whom it serves before or after it notice.
LEMMA ServerFrame ==
    ASSUME Inv, TypeOK', pc # "down", Once', UNCHANGED <<kind, asked, recData>>,
           pieces \subseteq pieces',
           \A d \in Client :
              (Waits(d)' => Waits(d))
              /\ (d # client /\ d # client' => Same(d) /\ srv'[d] = srv[d]),
           \A d \in Client : d = client \/ d = client' =>
                                Place(d)' /\ (d \notin pieces' => Talk(d)')
    PROVE  Inv'
<1>1. ASSUME NEW d \in Client, d # client, d # client' PROVE Place(d)' /\ (d \notin pieces' => Talk(d)')
  <2>1. Same(d) /\ srv'[d] = srv[d] /\ (Waits(d)' => Waits(d)) /\ kind' = kind
    BY <1>1
  <2>2. ~ Answering(d) /\ ~ Answering(d)'
    BY <1>1 DEF Answering
  <2>3. Place(d) /\ (d \notin pieces' => Talk(d))
    BY DEF Inv
  <2>4. Place(d)'
    BY <1>1, <2>1, <2>3, SamePlace
  <2>5. d \notin pieces' => Talk(d)'
    BY <2>1, <2>2, <2>3, SameTalk
  <2> QED BY <2>4, <2>5
<1> QED BY <1>1 DEF Inv

LEMMA InvEnds ==
    ASSUME Inv, TypeOK', Ends,
           UNCHANGED <<kind, revData, backlog, cli, toSrv, toCli, asked, recData, pieces>>
    PROVE  Inv'
<1>1. Once'
    BY DEF Inv, Once
<1>2. ASSUME NEW d \in Client PROVE Place(d)' /\ (d \notin pieces' => Talk(d)')
  <2>1. srv'[d] = FALSE /\ pc' = "down" /\ client' = client
    BY DEF Ends
  <2>2. (Waits(d)' <=> Waits(d)) /\ ~ Answering(d)' /\ Mine(d)' = Mine(d)
    BY <2>1 DEF Waits, Answering, Mine, RowOf, Index
  <2>3. Place(d)'
    BY <2>1, <2>2 DEF Inv, Place
  <2>4. d \notin pieces' => Talk(d)'
    BY <2>1, <2>2 DEF Inv, Talk
  <2> QED BY <2>3, <2>4
<1> QED BY <1>1, <1>2 DEF Inv

LEMMA InvHangs ==
    ASSUME Inv, TypeOK', Lost \/ AtEnd, Hangs,
           UNCHANGED <<kind, revData, backlog, cli, toSrv, toCli, asked, recData, pieces>>
    PROVE  Inv'
<1>1. Once'
    BY DEF Inv, Once
<1>2. pc = "recv" /\ pc' = "accept" /\ client' = Nobody /\ srv \in [Client -> BOOLEAN]
    BY DEF Lost, AtEnd, Hangs, Inv, TypeOK
<1>3. ASSUME NEW d \in Client PROVE Place(d)' /\ (d \notin pieces' => Talk(d)')
  <2>1. /\ Waits(d)' <=> Waits(d)
        /\ ~ Answering(d) /\ ~ Answering(d)'
    BY <1>2 DEF Waits, Answering
  <2>2. Same(d) /\ Place(d) /\ (d \notin pieces => Talk(d)) /\ client' # d
    BY <1>2, SensorAssumption DEF Same, Inv
  <2>3. srv'[d] = IF d = client THEN FALSE ELSE srv[d]
    BY <1>2 DEF Hangs
  <2>4. Place(d)'
    <3>1. d = client => ~ Waits(d)
      BY <2>2 DEF Place
    <3> QED BY <1>2, <2>1, <2>2, <2>3, <3>1, SamePlace
  <2>5. d \notin pieces' => Talk(d)'
    BY <2>1, <2>2, <2>3, SameTalk
  <2> QED BY <2>4, <2>5
<1> QED BY <1>1, <1>3 DEF Inv

LEMMA InvAccept ==
    ASSUME Inv, TypeOK', Accept
    PROVE  Inv'
<1>t. TypeOK /\ Once
    BY DEF Inv
<1>h. PICK h \in Client : h = Head(backlog)
    BY <1>t DEF Accept, TypeOK
<1>1. /\ h \in Client /\ h = backlog[1] /\ Len(backlog) \in Nat \ {0}
      /\ Len(backlog') = Len(backlog) - 1
      /\ \A i \in 1 .. Len(backlog') : backlog'[i] = backlog[i + 1]
    BY <1>t, <1>h DEF Accept, TypeOK
<1>2. /\ pc = "accept" /\ pc' = "recv" /\ client = Nobody /\ client' = h
      /\ UNCHANGED <<kind, revData, srv, toSrv, asked, recData, pieces>>
    BY <1>t, <1>h DEF Accept, TypeOK
<1>3. Once'
  <2>1. ASSUME NEW i \in 1 .. Len(backlog'), NEW j \in 1 .. Len(backlog'), backlog'[i] = backlog'[j]
        PROVE  i = j
    <3>1. i + 1 \in 1 .. Len(backlog) /\ j + 1 \in 1 .. Len(backlog)
      BY <1>1
    <3>2. backlog[i + 1] = backlog[j + 1]
      BY <1>1, <2>1
    <3>3. i + 1 = j + 1
      BY <1>t, <3>1, <3>2 DEF Once
    <3> QED BY <3>3
  <2> QED BY <2>1 DEF Once
<1>4. ASSUME NEW d \in Client, Waits(d)' PROVE Waits(d) /\ d # h
  <2>1. PICK i \in 1 .. Len(backlog') : backlog'[i] = d
    BY <1>4 DEF Waits
  <2>2. i + 1 \in 1 .. Len(backlog) /\ backlog[i + 1] = d
    BY <1>1, <2>1
  <2>3. 1 \in 1 .. Len(backlog) /\ i + 1 # 1
    BY <1>1, <2>1
  <2>4. backlog[i + 1] # backlog[1]
    BY <1>t, <2>2, <2>3 DEF Once
  <2> QED BY <1>1, <2>2, <2>4 DEF Waits
<1>5. /\ Waits(h) /\ Place(h) /\ (h \notin pieces => Talk(h))
      /\ ~ Answering(h) /\ ~ Answering(h)' /\ ~ Waits(h)'
    BY <1>1, <1>2, <1>4 DEF Waits, Inv, Answering
<1>6. /\ toCli[h] = <<>> /\ cli[h] # "off" /\ srv[h]
      /\ kind = "cpp" => cli[h] \in {"greet", "closed", "reset"}
    BY <1>2, <1>5 DEF Place
<1>7. Place(h)' /\ (h \notin pieces' => Talk(h)')
  <2>1. CASE kind # "cpp"
    <3>1. Same(h)
      BY <1>2, <2>1 DEF Accept, Same
    <3>2. Place(h)'
      BY <1>2, <1>5, <1>6, <3>1 DEF Place, Same
    <3>3. h \notin pieces' => Talk(h)'
      BY <1>1, <1>2, <1>5, <3>1, SameTalk
    <3> QED BY <3>2, <3>3
  <2>2. CASE kind = "cpp" /\ Gone(h)
    <3>1. cli'[h] = "reset" /\ toCli' = toCli
      BY <1>1, <1>h, <1>t, <2>2 DEF Accept, SendsTo, TypeOK
    <3>2. Place(h)'
      BY <1>2, <1>5, <1>6, <3>1 DEF Place
    <3>3. h \notin pieces' => Talk(h)'
      BY <1>2, <1>5, <3>1 DEF Talk
    <3> QED BY <3>2, <3>3
  <2>3. CASE kind = "cpp" /\ ~ Gone(h)
    <3>1. cli' = cli /\ cli[h] = "greet" /\ toCli'[h] = Text(Greeting)
      <4>1. <<>> \o Text(Greeting) = Text(Greeting)
        BY DEF Text
      <4>2. toCli'[h] = toCli[h] \o Text(Greeting)
        BY <1>1, <1>h, <1>t, <2>3 DEF Accept, SendsTo, TypeOK
      <4>3. cli' = cli /\ cli[h] = "greet"
        BY <1>h, <1>6, <2>3 DEF Accept, SendsTo, Gone
      <4> QED BY <1>6, <4>1, <4>2, <4>3
    <3>2. Place(h)'
      BY <1>2, <1>5, <1>6, <3>1 DEF Place
    <3>3. h \notin pieces' => Talk(h)'
      BY <1>2, <1>5, <3>1 DEF Talk
    <3> QED BY <3>2, <3>3
  <2> QED BY <2>1, <2>2, <2>3
<1>8. ASSUME NEW d \in Client, d # client' PROVE Same(d) /\ srv'[d] = srv[d]
  <2>1. cli'[d] = cli[d] /\ toCli'[d] = toCli[d]
    BY <1>h, <1>2, <1>8, <1>t DEF Accept, SendsTo, TypeOK
  <2> QED BY <1>2, <2>1 DEF Same
<1>9. client \notin Client
    BY <1>2, SensorAssumption
<1> QED BY <1>2, <1>3, <1>4, <1>7, <1>8, <1>9, ServerFrame

LEMMA InvQuery ==
    ASSUME Inv, TypeOK', NEW n \in 1 .. 4, RecvQuery(n)
    PROVE  Inv'
<1>t. TypeOK /\ Once
    BY DEF Inv
<1>c. PICK c \in Client : c = client
    BY <1>t DEF RecvQuery, Reads, TypeOK
<1>1. /\ pc = "recv" /\ pc' = "answer" /\ client = c /\ client' = c
      /\ cli[c] # "reset" /\ revData' = SubSeq(toSrv[c], 1, n)
      /\ UNCHANGED <<kind, backlog, cli, srv, toCli, asked, recData>>
    BY <1>c DEF RecvQuery, Reads
<1>2. /\ n \in 1 .. Len(toSrv[c]) /\ toSrv[c] \in Seq(0 .. 9) /\ toSrv[c] # <<>>
      /\ toSrv'[c] = SubSeq(toSrv[c], n + 1, Len(toSrv[c]))
      /\ \A d \in Client : d # c => toSrv'[d] = toSrv[d]
      /\ pieces' = IF toSrv'[c] = <<>> THEN pieces ELSE pieces \cup {c}
    BY <1>t, <1>c DEF RecvQuery, Reads, TypeOK
<1>3. /\ Once'
      /\ \A d \in Client : Waits(d)' <=> Waits(d)
    BY <1>t, <1>1 DEF Once, Waits
<1>4. Place(c) /\ (c \notin pieces => Talk(c)) /\ ~ Answering(c) /\ Answering(c)'
    BY <1>1 DEF Inv, Answering
<1>5. Place(c)'
    BY <1>1, <1>3, <1>4 DEF Place
<1>6. ASSUME c \notin pieces' PROVE Talk(c)'
  <2>1. toSrv'[c] = <<>> /\ c \notin pieces
    BY <1>2, <1>6
  <2>2. revData' = toSrv[c]
    BY <1>1, <1>2, <2>1, AllTaken
  <2>3. Talk(c) /\ srv[c]
    BY <1>1, <1>4, <2>1 DEF Place
  <2>4. asked[c] # <<>> /\ toSrv[c] = Last(asked[c]) /\ cli[c] # "greet" /\ cli[c] # "type"
    BY <1>2, <2>3 DEF Talk
  <2>5. cli[c] = "wait" => toCli[c] = <<>>
    BY <1>2, <1>4, <2>3 DEF Talk
  <2> QED BY <1>1, <1>4, <2>1, <2>2, <2>4, <2>5 DEF Talk
<1>7. ASSUME NEW d \in Client, d # client PROVE Same(d) /\ srv'[d] = srv[d]
    BY <1>1, <1>2, <1>7 DEF Same
<1>8. pieces \subseteq pieces'
    BY <1>2
<1> QED BY <1>1, <1>3, <1>5, <1>6, <1>7, <1>8, ServerFrame

\* The text is sent and the next query awaited.
LEMMA InvAnswer ==
    ASSUME Inv, TypeOK', pc = "answer", client \in Client, NEW row \in Row \cup {Junk},
           revData # <<>> => row = RowOf(revData),
           SendsTo(client, Text(row)), pc' = "recv",
           UNCHANGED <<kind, client, srv, revData, backlog, toSrv, asked, recData, pieces>>
    PROVE  Inv'
<1>t. TypeOK /\ Once
    BY DEF Inv
<1>c. PICK c \in Client : c = client
    OBVIOUS
<1>1. /\ Once'
      /\ \A d \in Client : Waits(d)' <=> Waits(d)
    BY <1>t DEF Once, Waits
<1>2. Place(c) /\ (c \notin pieces => Talk(c)) /\ Answering(c) /\ ~ Answering(c)' /\ ~ Waits(c)
    BY <1>c DEF Inv, Answering, Place
<1>3. Place(c)' /\ (c \notin pieces' => Talk(c)')
  <2>1. CASE Gone(c)
    <3>1. cli'[c] = "reset" /\ toCli' = toCli
      BY <1>c, <1>t, <2>1 DEF SendsTo, TypeOK
    <3>2. Place(c)'
      BY <1>c, <1>1, <1>2, <3>1 DEF Place
    <3>3. c \notin pieces' => Talk(c)'
      BY <1>2, <3>1 DEF Talk
    <3> QED BY <3>2, <3>3
  <2>2. CASE ~ Gone(c)
    <3>1. cli' = cli /\ toCli'[c] = toCli[c] \o Text(row)
      BY <1>c, <1>t, <2>2 DEF SendsTo, TypeOK
    <3>2. Place(c)'
      BY <1>c, <1>1, <1>2, <3>1 DEF Place
    <3>3. ASSUME c \notin pieces' PROVE Talk(c)'
      <4>1. Talk(c) /\ cli[c] # "off"
        BY <1>c, <1>2, <3>3 DEF Place
      <4>2. cli[c] = "wait"
        <5>1. cli[c] # "greet" /\ cli[c] # "type"
          BY <1>2, <4>1 DEF Talk
        <5> QED BY <1>t, <2>2, <4>1, <5>1 DEF Gone, TypeOK
      <4>3. /\ asked[c] # <<>> /\ revData = Last(asked[c]) /\ toCli[c] = <<>> /\ toSrv[c] = <<>>
        BY <1>2, <4>1, <4>2 DEF Talk, Mine, Text
      <4>4. revData # <<>>
        <5>1. asked[c] \in Seq(Query) /\ Len(asked[c]) \in 1 .. Len(asked[c])
          BY <1>t, <4>3 DEF TypeOK
        <5>2. Last(asked[c]) \in Query
          BY <5>1 DEF Last
        <5> QED BY <4>3, <5>2, SensorAssumption
      <4>5. <<>> \o Text(row) = Text(row)
        BY DEF Text
      <4>6. toCli'[c] = Mine(c) /\ Mine(c)' = Mine(c)
        BY <3>1, <4>3, <4>4, <4>5 DEF Mine, RowOf, Index
      <4> QED BY <1>2, <3>1, <4>2, <4>3, <4>6 DEF Talk
    <3> QED BY <3>2, <3>3
  <2> QED BY <2>1, <2>2
<1>4. ASSUME NEW d \in Client, d # client PROVE Same(d) /\ srv'[d] = srv[d]
    BY <1>4, <1>t DEF Same, SendsTo, TypeOK
<1> QED BY <1>c, <1>1, <1>3, <1>4, ServerFrame

LEMMA InvServer ==
    ASSUME Inv, Serve
    PROVE  Inv'
<1>t. TypeOK /\ TypeOK'
    BY TypeServer DEF Inv
<1>1. CASE Accept
    BY <1>1, <1>t, InvAccept
<1>2. CASE \E n \in 1 .. 4 : RecvQuery(n)
    BY <1>2, <1>t, InvQuery
<1>3. CASE RecvNothingCpp
  <2>1. pc = "recv" /\ pc' = "answer" /\ cli[client] = "closed"
        /\ UNCHANGED <<kind, client, revData, backlog, srv,
                       cli, toSrv, toCli, asked, recData, pieces>>
    BY <1>3 DEF RecvNothingCpp, AtEnd
  <2>2. Once' /\ \A d \in Client : Waits(d)' <=> Waits(d)
    BY <2>1 DEF Inv, Once, Waits
  <2>3. \A d \in Client : Same(d) /\ srv'[d] = srv[d]
    BY <2>1 DEF Same
  <2>4. ASSUME NEW d \in Client, d = client \/ d = client'
        PROVE  Place(d)' /\ (d \notin pieces' => Talk(d)')
    <3>1. d = client /\ Place(d) /\ (d \notin pieces => Talk(d)) /\ cli'[d] = "closed"
      BY <2>1, <2>4 DEF Inv
    <3>2. Place(d)'
      BY <2>1, <2>2, <2>3, <3>1, SamePlace
    <3>3. d \notin pieces' => Talk(d)'
      BY <2>1, <3>1 DEF Talk
    <3> QED BY <3>2, <3>3
  <2> QED BY <1>t, <2>1, <2>2, <2>3, <2>4, ServerFrame
<1>4. CASE RecvErrorCpp \/ RecvNothingPython
    BY <1>4, <1>t, InvHangs DEF RecvErrorCpp, RecvNothingPython
<1>5. CASE RecvErrorPython \/ RecvNothingJava
    BY <1>5, <1>t, InvEnds DEF RecvErrorPython, RecvNothingJava
<1>6. CASE AnswerCpp \/ AnswerChecked
  <2>1. /\ pc = "answer" /\ client \in Client
        /\ UNCHANGED <<kind, revData, backlog, toSrv, asked, recData, pieces>>
    BY <1>6, <1>t DEF AnswerCpp, AnswerChecked, TypeOK
  <2>2. \/ \E row \in Row \cup {Junk} :
             /\ revData # <<>> => row = RowOf(revData)
             /\ SendsTo(client, Text(row)) /\ pc' = "recv" /\ UNCHANGED <<client, srv>>
        \/ Ends /\ UNCHANGED <<cli, toCli>>
    BY <1>6, RowType DEF AnswerCpp, AnswerChecked, Row
  <2>3. CASE Ends /\ UNCHANGED <<cli, toCli>>
    BY <1>t, <2>1, <2>3, InvEnds
  <2>4. ASSUME NEW row \in Row \cup {Junk},
               revData # <<>> => row = RowOf(revData),
               SendsTo(client, Text(row)) /\ pc' = "recv" /\ UNCHANGED <<client, srv>>
        PROVE  Inv'
    BY <1>t, <2>1, <2>4, InvAnswer
  <2> QED BY <2>2, <2>3, <2>4
<1> QED BY <1>1, <1>2, <1>3, <1>4, <1>5, <1>6, ServerStep

LEMMA InvStep ==
    Inv /\ [Next]_vars => Inv'
<1>1. Inv /\ Next => Inv'
    BY InvUser, InvServer DEF Next
<1>2. Inv /\ UNCHANGED vars => Inv'
  <2> SUFFICES ASSUME Inv, UNCHANGED vars PROVE Inv'
    OBVIOUS
  <2>1. TypeOK' /\ Once'
    BY DEF Inv, TypeOK, Once, vars
  <2>2. ASSUME NEW d \in Client PROVE Place(d)' /\ (d \notin pieces' => Talk(d)')
    <3>1. /\ Waits(d)' <=> Waits(d)
          /\ Answering(d)' <=> Answering(d)
      BY DEF Waits, Answering, vars
    <3>2. Same(d) /\ Place(d) /\ (d \notin pieces => Talk(d))
      BY DEF Inv, Same, vars
    <3>3. Place(d)'
      BY <3>1, <3>2, SamePlace DEF vars
    <3>4. d \notin pieces' => Talk(d)'
      BY <3>1, <3>2, SameTalk DEF vars
    <3> QED BY <3>3, <3>4
  <2> QED BY <2>1, <2>2 DEF Inv
<1> QED BY <1>1, <1>2

\* A client shows the reading that its own user asked for last, whatever the clients
\* before it left in the server's buffer, unless TCP cut or joined a message of its
\* connection.
THEOREM AnswersOwn == Spec => []OwnReading
BY InvInit, InvStep, InvMeans, PTL DEF Spec

-----------------------------------------------------------------------------
(* Why a server ends.                                                      *)

\* What the server read last is a query of somebody, or a piece of one.
Known == revData # <<>> => \E c \in Client : c \in pieces \/ revData \in ToSet(asked[c])

Loaded == pc = "answer" /\ kind # "cpp" => revData # <<>>

Causes == Inv /\ Known /\ Loaded /\ EndsForCause

LEMMA CausesInit == Init => Causes
BY InvInit DEF Causes, Known, Loaded, EndsForCause, Init

\* Nothing that was typed or cut is forgotten.
LEMMA Grows ==
    ASSUME TypeOK, Next
    PROVE  /\ pieces \subseteq pieces' /\ kind' = kind
           /\ \A d \in Client : ToSet(asked[d]) \subseteq ToSet(asked'[d])
<1>1. CASE Serve
    BY <1>1, ServerStep DEF Accept, RecvQuery, Reads, RecvNothingCpp, RecvErrorCpp, AnswerCpp,
       RecvNothingPython, RecvErrorPython, RecvNothingJava, AnswerChecked
<1>2. ASSUME NEW c \in Client, NEW q \in Query, Type(c, q)
      PROVE  /\ pieces \subseteq pieces' /\ kind' = kind
             /\ \A d \in Client : ToSet(asked[d]) \subseteq ToSet(asked'[d])
  <2>1. asked[c] \in Seq(Query) /\ asked' = [asked EXCEPT ![c] = Append(asked[c], q)]
        /\ asked \in [Client -> Seq(Query)]
    BY <1>2 DEF Type, TypeOK
  <2>2. ToSet(asked[c]) \subseteq ToSet(Append(asked[c], q))
    <3>1. ASSUME NEW i \in DOMAIN asked[c]
          PROVE  i \in DOMAIN Append(asked[c], q) /\ Append(asked[c], q)[i] = asked[c][i]
      BY <2>1
    <3> QED BY <3>1 DEF ToSet
  <2>3. \A d \in Client : ToSet(asked[d]) \subseteq ToSet(asked'[d])
    BY <2>1, <2>2
  <2> QED BY <1>2, <2>3 DEF Type, server
<1>3. ASSUME NEW c \in Client, User(c), ~ \E q \in Query : Type(c, q)
      PROVE  /\ pieces \subseteq pieces' /\ kind' = kind
             /\ \A d \in Client : ToSet(asked[d]) \subseteq ToSet(asked'[d])
    BY <1>3 DEF User, Connect, ReadGreeting, NoAnswer, ReadAnswer, Leave, Takes, server
<1> QED BY <1>1, <1>2, <1>3 DEF Next, User

LEMMA OddStays ==
    ASSUME NEW d \in Client, pieces \subseteq pieces', kind' = kind,
           ToSet(asked[d]) \subseteq ToSet(asked'[d]), Odd(d)
    PROVE  Odd(d)'
<1>1. \A q : RowOf(q)' = RowOf(q)
    BY DEF RowOf, Index
<1> QED BY <1>1 DEF Odd

LEMMA GoneStays ==
    ASSUME TypeOK, NEW c \in Client, User(c), NEW d \in Client
    PROVE  (cli[d] = "reset" => cli'[d] = "reset") /\ (Gone(d) => Gone(d)')
BY DEF TypeOK, User, Connect, ReadGreeting, NoAnswer, Type, ReadAnswer, Leave, Gone

LEMMA KnownStays ==
    ASSUME Inv, Known, Next
    PROVE  Known'
<1>g. /\ pieces \subseteq pieces'
      /\ \A d \in Client : ToSet(asked[d]) \subseteq ToSet(asked'[d])
    BY Grows DEF Inv
<1>1. CASE revData' = revData
    BY <1>1, <1>g DEF Known
<1>2. ASSUME NEW n \in 1 .. 4, RecvQuery(n) PROVE Known'
  <2>1. PICK c \in Client : c = client
    BY <1>2 DEF RecvQuery, Reads, Inv, TypeOK
  <2>2. CASE c \in pieces'
    BY <2>2 DEF Known
  <2>3. CASE c \notin pieces'
    <3>1. /\ toSrv[c] \in Seq(0 .. 9) /\ n \in 1 .. Len(toSrv[c])
          /\ SubSeq(toSrv[c], n + 1, Len(toSrv[c])) = <<>> /\ toSrv[c] # <<>>
          /\ revData' = SubSeq(toSrv[c], 1, n) /\ asked' = asked /\ srv[c]
      BY <1>2, <2>1, <2>3 DEF RecvQuery, Reads, Inv, TypeOK, Place
    <3>2. revData' = toSrv[c]
      BY <3>1, AllTaken
    <3>3. asked[c] # <<>> /\ toSrv[c] = Last(asked[c])
      BY <1>g, <2>3, <3>1 DEF Inv, Talk
    <3>4. Last(asked[c]) \in ToSet(asked[c])
      <4>1. asked[c] \in Seq(Query)
        BY DEF Inv, TypeOK
      <4>2. Len(asked[c]) \in DOMAIN asked[c]
        BY <3>3, <4>1
      <4> QED BY <4>2 DEF Last, ToSet
    <3> QED BY <3>1, <3>2, <3>3, <3>4 DEF Known
  <2> QED BY <2>2, <2>3
<1>3. CASE Serve
    BY <1>1, <1>2, <1>3, ServerStep DEF Accept, RecvNothingCpp, RecvErrorCpp, AnswerCpp,
       RecvNothingPython, RecvErrorPython, RecvNothingJava, AnswerChecked
<1>4. ASSUME NEW c \in Client, User(c) PROVE Known'
    BY <1>1, <1>4 DEF User, Connect, ReadGreeting, NoAnswer, Type, ReadAnswer, Leave, server
<1> QED BY <1>3, <1>4 DEF Next

LEMMA LoadedStays ==
    ASSUME Inv, Loaded, Next
    PROVE  Loaded'
<1>1. ASSUME NEW c \in Client, User(c) PROVE Loaded'
    BY <1>1 DEF User, Connect, ReadGreeting, NoAnswer, Type, ReadAnswer, Leave, server, Loaded
<1>2. ASSUME NEW n \in 1 .. 4, RecvQuery(n) PROVE Loaded'
  <2>1. /\ toSrv[client] \in Seq(0 .. 9) /\ n \in 1 .. Len(toSrv[client])
        /\ revData' = SubSeq(toSrv[client], 1, n)
    BY <1>2 DEF RecvQuery, Reads, Inv, TypeOK
  <2>2. Len(revData') = n /\ n # 0
    BY <2>1
  <2> QED BY <2>2 DEF Loaded
<1>3. CASE Serve
    BY <1>2, <1>3, ServerStep DEF Accept, RecvNothingCpp, RecvErrorCpp, AnswerCpp, Hangs, Ends,
       RecvNothingPython, RecvErrorPython, RecvNothingJava, AnswerChecked, Loaded
<1> QED BY <1>1, <1>3 DEF Next

\* Every step that ends the server has one of the causes.
LEMMA EndsStep ==
    ASSUME Causes, Next
    PROVE  EndsForCause'
<1>t. TypeOK /\ Known /\ Loaded /\ EndsForCause
    BY DEF Causes, Inv
<1>g. /\ pieces \subseteq pieces' /\ kind' = kind
      /\ \A d \in Client : ToSet(asked[d]) \subseteq ToSet(asked'[d])
    BY <1>t, Grows
<1>o. (\E d \in Client : Odd(d)) => (\E d \in Client : Odd(d)')
    BY <1>g, OddStays
<1>1. ASSUME NEW c \in Client, User(c) PROVE EndsForCause'
  <2>1. UNCHANGED <<pc, client, revData>>
    BY <1>1 DEF User, Connect, ReadGreeting, NoAnswer, Type, ReadAnswer, Leave, server
  <2>2. ASSUME pc = "down" PROVE EndsForCause'
    <3>1. PICK d \in Client : d = client
      BY <1>t, <2>2 DEF TypeOK
    <3>2. (cli[d] = "reset" => cli'[d] = "reset") /\ (Gone(d) => Gone(d)')
      BY <1>t, <1>1, GoneStays
    <3> QED BY <1>t, <1>g, <1>o, <2>1, <2>2, <3>1, <3>2 DEF EndsForCause
  <2> QED BY <2>1, <2>2 DEF EndsForCause
<1>2. CASE Serve
  <2>1. CASE RecvErrorPython \/ RecvNothingJava
    BY <2>1 DEF RecvErrorPython, RecvNothingJava, Lost, AtEnd, Ends, EndsForCause, Gone
  <2>2. CASE AnswerCpp \/ AnswerChecked
    <3> SUFFICES ASSUME pc' = "down" PROVE EndsForCause'
      BY DEF EndsForCause
    <3>1. UNCHANGED <<client, revData, cli>>
      BY <2>2 DEF AnswerCpp, AnswerChecked, Ends
    <3>2. \/ RowOf(revData) = Junk /\ revData # <<>>
          \/ kind = "cpp" /\ revData = <<>>
          \/ kind = "python" /\ cli[client] = "reset"
          \/ kind = "java" /\ Gone(client)
      BY <1>t, <2>2, <3>1 DEF AnswerCpp, AnswerChecked, Ends, Loaded, Gone
    <3>3. CASE RowOf(revData) = Junk /\ revData # <<>>
      <4>1. \E d \in Client : Odd(d)
        BY <1>t, <3>3 DEF Known, Odd
      <4> QED BY <1>o, <4>1 DEF EndsForCause
    <3> QED BY <1>g, <3>1, <3>2, <3>3 DEF EndsForCause, Gone
  <2>3. CASE ~ (RecvErrorPython \/ RecvNothingJava \/ AnswerCpp \/ AnswerChecked)
    BY <1>2, <2>3, ServerStep DEF Accept, RecvQuery, Reads, RecvNothingCpp, RecvErrorCpp,
       RecvNothingPython, Hangs, EndsForCause
  <2> QED BY <2>1, <2>2, <2>3
<1> QED BY <1>1, <1>2 DEF Next

\* A server that has ended was ended by an odd query, by a piece of one, or by a client
\* that left in the way its program cannot stand; every other order of connections,
\* queries, answers and ends leaves it running.
THEOREM EndsExplained == Spec => []EndsForCause
<1>1. Causes /\ [Next]_vars => Causes'
  <2>1. Causes /\ Next => Causes'
    BY InvStep, KnownStays, LoadedStays, EndsStep DEF Causes
  <2>2. Causes /\ UNCHANGED vars => Causes'
    BY InvStep DEF Causes, Known, Loaded, EndsForCause, Odd, Gone, RowOf, Index, vars
  <2> QED BY <2>1, <2>2
<1>2. Causes => EndsForCause
    BY DEF Causes
<1> QED BY CausesInit, <1>1, <1>2, PTL DEF Spec
=============================================================================
