----------------------------- MODULE WebProofs -----------------------------
(***************************************************************************)
(* Proofs about Web: its types, and that no browser gets the page of       *)
(* another one, for any number of connections, any names and files and     *)
(* any size of the request buffer.                                         *)
(***************************************************************************)
EXTENDS Web, WellFoundedInduction, TLAPS

-----------------------------------------------------------------------------
(* The first of a set of places.                                           *)

LEMMA LeastNumber ==
    ASSUME NEW T, T \subseteq Nat, T # {}
    PROVE  \E x \in T : \A y \in T : x <= y
<1>1. \A x, y \in Nat : x < y => <<x, y>> \in OpToRel(<, Nat)
  <2> SUFFICES ASSUME NEW x \in Nat, NEW y \in Nat, x < y
               PROVE  <<x, y>> \in OpToRel(<, Nat)
    OBVIOUS
  <2>1. <<x, y>> \in Nat \X Nat /\ <<x, y>>[1] = x /\ <<x, y>>[2] = y
    OBVIOUS
  <2> QED BY <2>1 DEF OpToRel
<1>2. PICK R : IsWellFoundedOn(R, Nat) /\ \A x, y \in Nat : x < y => <<x, y>> \in R
  BY <1>1, NatLessThanWellFounded
<1>3. IsWellFoundedOn(R, Nat)
  BY <1>2
<1>4. \E x \in T : \A y \in T : ~ (<<y, x>> \in R)
  BY <1>3, WFMin, Zenon
<1>5. ASSUME NEW x \in T, \A y \in T : ~ (<<y, x>> \in R), NEW y \in T PROVE x <= y
  <2>1. x \in Nat /\ y \in Nat
    OBVIOUS
  <2>2. y < x => <<y, x>> \in R
    BY <1>2, <2>1, Zenon
  <2>3. ~ (<<y, x>> \in R)
    BY <1>5, Zenon
  <2>4. ~ (y < x)
    BY <2>2, <2>3, Zenon
  <2> QED BY <2>1, <2>4
<1> QED BY <1>4, <1>5

LEMMA MinOf ==
    ASSUME NEW T, T \subseteq Nat, T # {}
    PROVE  Min(T) \in T /\ \A y \in T : Min(T) <= y
<1>1. \E x \in T : \A y \in T : x =< y
    BY LeastNumber
<1> QED BY <1>1, Zenon DEF Min

-----------------------------------------------------------------------------
(* The request buffer of Webserver.cpp.                                    *)

Char == Letter \cup {SP, NUL, Other}

LEMMA Kept ==
    /\ Size \in Nat /\ Size > 0
    /\ SP \notin Letter /\ NUL \notin Letter /\ SP # NUL /\ SP # Other /\ NUL # Other
    /\ SP \in Char /\ NUL \in Char /\ Letter \subseteq Char
BY WebAssumption DEF SP, NUL, Other, Char

LEMMA Joined ==
    ASSUME NEW S, NEW s \in Seq(S), NEW t \in Seq(S)
    PROVE  /\ s \o t \in Seq(S) /\ Len(s \o t) = Len(s) + Len(t)
           /\ \A i \in 1 .. Len(s) : (s \o t)[i] = s[i]
           /\ \A i \in 1 .. Len(t) : (s \o t)[Len(s) + i] = t[i]
OBVIOUS

\* A request is the name and then a space.
LEMMA Asking ==
    ASSUME NEW name \in Requests
    PROVE  /\ name \in Seq(Letter) /\ Len(name) \in Nat
           /\ Text(name) \in Seq(Char) /\ Len(Text(name)) = Len(name) + 3
           /\ Len(Text(name)) < Size
           /\ \A i \in 1 .. Len(name) : Text(name)[i] = name[i] /\ name[i] \in Letter
           /\ Text(name)[Len(name) + 1] = SP
<1>1. name \in Seq(Letter) /\ Len(Text(name)) < Size
    BY WebAssumption
<1>2. name \in Seq(Char)
    BY <1>1 DEF Char
<1>3. PICK rest \in Seq(Char) : rest = <<SP, Other, SP>>
  <2>1. <<SP, Other, SP>> \in Seq(Char)
    BY DEF Char
  <2> QED BY <2>1
<1>4. Len(rest) = 3 /\ rest[1] = SP
    BY <1>3
<1>5. Text(name) = name \o rest
    BY <1>3 DEF Text
<1>6. PICK l \in Nat : l = Len(name)
    BY <1>1
<1>7. PICK text : text = name \o rest
    OBVIOUS
<1>8. /\ text \in Seq(Char) /\ Len(text) = l + 3
      /\ \A i \in 1 .. l : text[i] = name[i]
      /\ \A i \in 1 .. 3 : text[l + i] = rest[i]
  <2>1. rest \in Seq(Char)
    OBVIOUS
  <2>2. /\ name \o rest \in Seq(Char) /\ Len(name \o rest) = Len(name) + Len(rest)
        /\ \A i \in 1 .. Len(name) : (name \o rest)[i] = name[i]
        /\ \A i \in 1 .. Len(rest) : (name \o rest)[Len(name) + i] = rest[i]
    BY ONLY <1>2, <2>1, Joined
  <2> QED BY ONLY <1>4, <1>6, <1>7, <2>2
<1>9. text[l + 1] = rest[1]
    BY <1>8
<1>10. \A i \in 1 .. l : name[i] \in Letter
    BY <1>1, <1>6
<1> QED BY <1>1, <1>4, <1>5, <1>6, <1>7, <1>8, <1>9, <1>10

\* What recv leaves in the buffer is characters, and its last one is still the NUL.
LEMMA ReceivedType ==
    ASSUME NEW c \in Conn, ask[c] \in Requests, NEW k \in -1 .. Len(Text(ask[c])),
           request \in [1 .. Size -> Char], request[Size] = NUL
    PROVE  Received(c, k) \in [1 .. Size -> Char] /\ Received(c, k)[Size] = NUL
<1>1. PICK name : name = ask[c]
    OBVIOUS
<1>2. Text(name) \in Seq(Char) /\ Len(Text(name)) < Size /\ name \in Requests
    BY <1>1, Asking
<1>3. PICK text \in Seq(Char) : text = Text(name)
    BY <1>2
<1>4. \A i \in 1 .. Size : i <= k => text[i] \in Char
    BY <1>1, <1>2, <1>3, Kept
<1> QED BY <1>1, <1>2, <1>3, <1>4, Kept DEF Received

\* What geturl does to a buffer.
LEMMA CutIs ==
    ASSUME NEW buf \in [1 .. Size -> Char], buf[Size] = NUL
    PROVE  /\ Cut(buf) \in [1 .. Size -> Char] /\ Cut(buf)[Size] = NUL
           /\ \A i \in 1 .. Size : Cut(buf)[i] = buf[i] \/ Cut(buf)[i] = NUL
           /\ (\A i \in 1 .. Size : buf[i] # SP) => Cut(buf) = buf
           /\ \A i \in 1 .. Size : buf[i] = SP /\ (\A j \in 1 .. i - 1 : buf[j] # SP)
                                   => Cut(buf) = [buf EXCEPT ![i] = NUL]
           /\ \A i \in 1 .. Size : Cut(buf)[i] = SP
                                   => \E j \in 1 .. i - 1 : Cut(buf)[j] = NUL
<1> DEFINE spaces == {i \in 1 .. Size : buf[i] = SP}
<1>1. Cut(buf) = IF spaces = {} THEN buf ELSE [buf EXCEPT ![Min(spaces)] = NUL]
    BY DEF Cut
<1>2. spaces \subseteq Nat
    OBVIOUS
<1>3. CASE spaces = {}
  <2>1. Cut(buf) = buf /\ \A i \in 1 .. Size : buf[i] # SP
    BY <1>1, <1>3
  <2> QED BY <2>1
<1>4. CASE spaces # {}
  <2>1. Min(spaces) \in spaces /\ \A y \in spaces : Min(spaces) <= y
    BY <1>2, <1>4, MinOf
  <2>2. PICK m : m = Min(spaces)
    OBVIOUS
  <2>3. m \in 1 .. Size /\ buf[m] = SP /\ Cut(buf) = [buf EXCEPT ![m] = NUL]
    BY <1>1, <1>4, <2>1, <2>2
  <2>4. \A y \in 1 .. Size : buf[y] = SP => m <= y
    BY <2>1, <2>2
  <2> HIDE DEF spaces
  <2>5. m # Size
    BY <2>3, Kept
  <2>6. Cut(buf)[m] = NUL /\ \A i \in 1 .. Size : i # m => Cut(buf)[i] = buf[i]
    BY <2>3
  <2>7. Cut(buf) \in [1 .. Size -> Char] /\ Cut(buf)[Size] = NUL
    BY <2>3, <2>5, <2>6, Kept
  <2>8. ASSUME NEW i \in 1 .. Size, buf[i] = SP, \A j \in 1 .. i - 1 : buf[j] # SP
        PROVE  i = m
    BY <2>3, <2>4, <2>8
  <2>9. ASSUME NEW i \in 1 .. Size, Cut(buf)[i] = SP
        PROVE  \E j \in 1 .. i - 1 : Cut(buf)[j] = NUL
    <3>1. i # m /\ buf[i] = SP
      BY <2>6, <2>9, Kept
    <3>2. m \in 1 .. i - 1
      BY <2>3, <2>4, <3>1
    <3> QED BY <2>6, <3>2
  <2>10. ~ \A i \in 1 .. Size : buf[i] # SP
    BY <2>3
  <2> QED BY <2>3, <2>6, <2>7, <2>8, <2>9, <2>10
<1> QED BY <1>3, <1>4

\* strcpy ends before the first NUL.
LEMMA UrlIs ==
    ASSUME NEW buf \in [1 .. Size -> Char], buf[Size] = NUL
    PROVE  \E m \in 1 .. Size : /\ buf[m] = NUL /\ \A j \in 1 .. m - 1 : buf[j] # NUL
                                /\ UrlOf(buf) = [i \in 1 .. m - 1 |-> buf[i]]
<1> DEFINE nuls == {j \in 1 .. Size : buf[j] = NUL}
<1>1. nuls \subseteq Nat /\ Size \in nuls
    BY Kept
<1>2. Min(nuls) \in nuls /\ \A y \in nuls : Min(nuls) <= y
    BY <1>1, MinOf
<1>3. PICK m : m = Min(nuls)
    OBVIOUS
<1>4. m \in 1 .. Size /\ buf[m] = NUL /\ \A y \in 1 .. Size : buf[y] = NUL => m <= y
    BY <1>2, <1>3
<1>5. UrlOf(buf) = [i \in 1 .. m - 1 |-> buf[i]]
    BY <1>3 DEF UrlOf
<1> HIDE DEF nuls
<1>6. \A j \in 1 .. m - 1 : buf[j] # NUL
    BY <1>4, Kept
<1> QED BY <1>4, <1>5, <1>6

\* The name taken from the buffer has no space in it.
LEMMA UrlType ==
    ASSUME NEW buf \in [1 .. Size -> Char], buf[Size] = NUL
    PROVE  UrlOf(Cut(buf)) \in Seq(Letter \cup {Other})
<1>1. PICK b : b = Cut(buf)
    OBVIOUS
<1>2. /\ b \in [1 .. Size -> Char] /\ b[Size] = NUL
      /\ \A i \in 1 .. Size : b[i] = SP => \E j \in 1 .. i - 1 : b[j] = NUL
    BY <1>1, CutIs
<1>3. PICK m \in 1 .. Size : /\ b[m] = NUL /\ \A j \in 1 .. m - 1 : b[j] # NUL
                             /\ UrlOf(b) = [i \in 1 .. m - 1 |-> b[i]]
    BY <1>2, UrlIs
<1>4. ASSUME NEW i \in 1 .. m - 1 PROVE b[i] \in Letter \cup {Other}
  <2>1. i \in 1 .. Size /\ b[i] # NUL
    BY <1>3, Kept
  <2>2. b[i] # SP
    <3>1. \A j \in 1 .. i - 1 : j \in 1 .. m - 1
      BY Kept
    <3> QED BY <1>2, <1>3, <2>1, <3>1
  <2> QED BY <1>2, <2>1, <2>2 DEF Char
<1>5. m - 1 \in Nat
    BY Kept
<1>6. [i \in 1 .. m - 1 |-> b[i]] \in Seq(Letter \cup {Other})
    BY <1>4, <1>5
<1> QED BY <1>1, <1>3, <1>6

\* A name that was received with its space is taken as it was asked, whatever the
\* buffer held before.
LEMMA UrlWhole ==
    ASSUME NEW c \in Conn, ask[c] \in Requests, NEW k \in -1 .. Len(Text(ask[c])),
           k > Len(ask[c]), request \in [1 .. Size -> Char], request[Size] = NUL
    PROVE  UrlOf(Cut(Received(c, k))) = ask[c]
<1>1. PICK name : name = ask[c]
    OBVIOUS
<1>2. PICK l \in Nat : l = Len(name)
    BY <1>1, Asking
<1>3. PICK text : text = Text(name)
    OBVIOUS
<1>4. /\ Len(text) = l + 3 /\ l + 3 < Size /\ text[l + 1] = SP
      /\ \A i \in 1 .. l : text[i] = name[i] /\ name[i] \in Letter
    BY <1>1, <1>2, <1>3, Asking
<1>5. k \in Int /\ k > l /\ k <= l + 3
    BY <1>1, <1>2, <1>3, <1>4
<1>6. PICK buf : buf = Received(c, k)
    OBVIOUS
<1>7. buf \in [1 .. Size -> Char] /\ buf[Size] = NUL
    BY <1>6, ReceivedType
<1>8. \A i \in 1 .. Size : i <= k => buf[i] = text[i]
    BY <1>1, <1>3, <1>6 DEF Received
<1>9. /\ l + 1 \in 1 .. Size /\ buf[l + 1] = SP
      /\ \A i \in 1 .. l : i \in 1 .. Size /\ buf[i] = name[i] /\ name[i] \in Letter
  <2>1. l + 1 \in 1 .. Size /\ l + 1 <= k
    BY <1>4, <1>5, Kept
  <2>2. \A i \in 1 .. l : i \in 1 .. Size /\ i <= k
    BY <1>4, <1>5, Kept
  <2> QED BY <1>4, <1>8, <2>1, <2>2
<1>10. Cut(buf) = [buf EXCEPT ![l + 1] = NUL]
  <2>1. \A j \in 1 .. l + 1 - 1 : buf[j] # SP
    BY <1>9, Kept
  <2>2. \A i \in 1 .. Size : buf[i] = SP /\ (\A j \in 1 .. i - 1 : buf[j] # SP)
                            => Cut(buf) = [buf EXCEPT ![i] = NUL]
    BY <1>7, CutIs
  <2> QED BY <1>9, <2>1, <2>2
<1>11. PICK b : b = Cut(buf)
    OBVIOUS
<1>12. b \in [1 .. Size -> Char] /\ b[Size] = NUL
    BY <1>7, <1>11, CutIs
<1>13. b[l + 1] = NUL /\ \A i \in 1 .. l : b[i] = name[i] /\ b[i] # NUL
    BY <1>7, <1>9, <1>10, <1>11, Kept
<1>14. PICK m \in 1 .. Size : /\ b[m] = NUL /\ \A j \in 1 .. m - 1 : b[j] # NUL
                              /\ UrlOf(b) = [i \in 1 .. m - 1 |-> b[i]]
    BY <1>12, UrlIs
<1>15. m = l + 1
  <2>1. m \in Int
    BY Kept
  <2>2. ~ (l + 1 \in 1 .. m - 1)
    BY <1>13, <1>14
  <2>3. ~ (m \in 1 .. l)
    BY <1>13, <1>14
  <2> QED BY <2>1, <2>2, <2>3
<1>16. UrlOf(b) = [i \in 1 .. l |-> name[i]]
    BY <1>13, <1>14, <1>15
<1>17. name \in Seq(Letter)
    BY <1>1, Asking
<1>18. [i \in 1 .. l |-> name[i]] = name
    BY <1>2, <1>17
<1> QED BY <1>1, <1>6, <1>11, <1>16, <1>18

-----------------------------------------------------------------------------
(* The files.                                                              *)

\* What Webserver.cpp sends of a file is a beginning of it.
LEMMA BodyIsPrefix ==
    ASSUME NEW content \in Seq(Byte)
    PROVE  TextBody(content) \in Seq(Byte) /\ IsPrefix(TextBody(content), content)
<1> DEFINE stops == {i \in DOMAIN content : content[i] \in {0, 255}}
<1>1. TextBody(content) = IF stops = {} THEN content
                          ELSE SubSeq(content, 1, Min(stops) - 1)
    BY DEF TextBody
<1>2. PICK l \in Nat : l = Len(content)
    OBVIOUS
<1>3. DOMAIN content = 1 .. l /\ stops \subseteq Nat
    BY <1>2
<1>4. SubSeq(content, 1, l) = content
    BY <1>2
<1>5. CASE stops = {}
    BY <1>1, <1>2, <1>5 DEF IsPrefix
<1>6. CASE stops # {}
  <2>1. Min(stops) \in stops
    BY <1>3, <1>6, MinOf
  <2>2. PICK m : m = Min(stops) - 1
    OBVIOUS
  <2>3. m \in 0 .. l
    BY <1>3, <2>1, <2>2
  <2>4. PICK t : t = SubSeq(content, 1, m)
    OBVIOUS
  <2>5. t \in Seq(Byte) /\ Len(t) = m /\ m <= l
    BY <1>2, <2>3, <2>4
  <2>6. SubSeq(t, 1, m) = t
    BY <2>5
  <2>7. TextBody(content) = t
    BY <1>1, <1>6, <2>2, <2>4
  <2> QED BY <1>2, <2>4, <2>5, <2>6, <2>7 DEF IsPrefix
<1> QED BY <1>5, <1>6

LEMMA FileType == \A name : IsFile(name) => Files[name] \in Seq(Byte)
BY WebAssumption DEF IsFile, IsThere

\* The responses the three servers send for a name, the name's own.
LEMMA Pages ==
    ASSUME NEW name
    PROVE  /\ Written(name) \in Response
           /\ kind = "cpp" => IsPage(Written(name), name)
           /\ ~ IsFile(name) => NotFound \in Response /\ IsPage(NotFound, name)
           /\ IsFile(name) => /\ [code |-> 200, body |-> Files[name]] \in Response
                              /\ kind # "cpp" =>
                                   IsPage([code |-> 200, body |-> Files[name]], name)
<1>1. <<>> \in Seq(Byte)
    OBVIOUS
<1>2. NotFound \in Response /\ NotFound.code = 404
    BY <1>1 DEF NotFound, Response
<1>3. ~ IsFile(name) => Written(name) = NotFound /\ IsPage(NotFound, name)
    BY <1>2 DEF Written, IsPage
<1>4. CASE IsFile(name)
  <2>1. PICK f \in Seq(Byte) : f = Files[name]
    BY <1>4, FileType
  <2>2. TextBody(f) \in Seq(Byte) /\ IsPrefix(TextBody(f), f)
    BY BodyIsPrefix
  <2>3. \A x \in Seq(Byte) : [code |-> 200, body |-> x] \in Response
    BY DEF Response
  <2>4. Written(name) = [code |-> 200, body |-> TextBody(f)]
    BY <1>4, <2>1 DEF Written
  <2> QED BY <1>4, <2>1, <2>2, <2>3, <2>4 DEF IsPage
<1> QED BY <1>2, <1>3, <1>4

-----------------------------------------------------------------------------
(* The inductive invariant.                                                *)

\* The connections in the queue wait there once, and were not served.
Queued ==
    \A i \in 1 .. Len(queue) :
        /\ stage[queue[i]] = "none" /\ cli[queue[i]] # "off"
        /\ \A j \in 1 .. Len(queue) : queue[j] = queue[i] => i = j

\* The name the server took is the one that was asked for, or, with Webserver.cpp, the
\* name had not come as a whole; with Python it may be what had come of it.
Right(c) ==
    /\ kind = "cpp" /\ heard[c] > Len(ask[c]) => url[c] = ask[c]
    /\ kind = "java" => url[c] = ask[c]
    /\ kind = "python" => url[c] = Part(c, heard[c])

\* The answer is the one of the name.
Answered(c) ==
    \/ IsPage(got[c], ask[c])
    \/ kind = "cpp" /\ heard[c] <= Len(ask[c])
    \/ kind = "python" /\ heard[c] <= Len(ask[c]) /\ IsPage(got[c], Part(c, heard[c]))

Conversation(c) ==
    /\ cli[c] = "off" => stage[c] = "none"
    /\ cli[c] # "off" => ask[c] \in Requests
    /\ stage[c] \in {"none", "read", "reply"} => got[c] = None
    /\ stage[c] = "reply" => heard[c] <= Len(Text(ask[c])) /\ Right(c)
    /\ got[c] # None => Answered(c)

IInv == TypeOK /\ Queued /\ \A c \in Conn : Conversation(c)

LEMMA InvInit == Init => IInv
<1> SUFFICES ASSUME Init PROVE IInv
    OBVIOUS
<1>1. queue \in Seq(Conn) /\ Len(queue) = 0
    BY DEF Init
<1>2. TypeOK
  <2>1. Len(queue) <= Backlog /\ (kind = "cpp" => \A c, d \in Served : c = d)
    BY <1>1, WebAssumption DEF Init, Served
  <2>2. request \in [1 .. Size -> Char] /\ request[Size] = NUL
    BY Kept DEF Init
  <2>3. heard \in [Conn -> -1 .. Size - 1]
    BY Kept DEF Init
  <2> QED BY <1>1, <2>1, <2>2, <2>3, WebAssumption DEF Init, TypeOK, Char
<1>3. Queued
    BY <1>1 DEF Queued
<1>4. ASSUME NEW c \in Conn PROVE Conversation(c)
    BY DEF Init, Conversation
<1> QED BY <1>2, <1>3, <1>4 DEF IInv

\* A connection of which a step changes nothing is as it was.
LEMMA SameConversation ==
    ASSUME NEW c \in Conn, Conversation(c), kind' = kind, stage'[c] = stage[c],
           cli'[c] = cli[c], ask'[c] = ask[c], heard'[c] = heard[c], url'[c] = url[c],
           got'[c] = got[c]
    PROVE  Conversation(c)'
BY DEF Conversation, Right, Answered, Part, IsPage

\* No step but Connect and Accept changes what is in the queue, and none of them what a
\* connection in it is.
LEMMA SameQueue ==
    ASSUME IInv, queue' = queue,
           \A c \in Conn : stage[c] = "none" /\ cli[c] # "off"
                           => stage'[c] = "none" /\ cli'[c] # "off"
    PROVE  Queued'
<1>1. PICK l \in Nat : l = Len(queue)
    BY DEF IInv, TypeOK
<1>2. \A i \in 1 .. l : queue[i] \in Conn
    BY <1>1 DEF IInv, TypeOK
<1>3. \A i \in 1 .. l : /\ stage[queue[i]] = "none" /\ cli[queue[i]] # "off"
                        /\ \A j \in 1 .. l : queue[j] = queue[i] => i = j
    BY <1>1 DEF IInv, Queued
<1> QED BY <1>1, <1>2, <1>3 DEF Queued

LEMMA InvConnect ==
    ASSUME IInv, NEW c \in Conn, Connect(c)
    PROVE  IInv'
<1>1. PICK l \in Nat : l = Len(queue)
    BY DEF IInv, TypeOK
<1>2. /\ queue \in Seq(Conn) /\ queue' \in Seq(Conn) /\ Len(queue') = l + 1
      /\ queue'[l + 1] = c /\ \A i \in 1 .. l : queue'[i] = queue[i] /\ queue[i] \in Conn
    BY <1>1 DEF IInv, TypeOK, Connect
<1>3. l < Backlog /\ Backlog \in Nat
    BY <1>1, WebAssumption DEF Connect
<1>4. PICK name \in Requests : ask' = [ask EXCEPT ![c] = name]
    BY DEF Connect
<1>5. TypeOK'
    BY <1>2, <1>3, <1>4 DEF IInv, TypeOK, Connect, Served, buffers
<1>6. cli[c] = "off" /\ stage[c] = "none" /\ got[c] = None
    BY DEF IInv, Conversation, Connect
<1>7. /\ stage' = stage /\ cli' \in [Conn -> {"off", "connected", "asked", "left"}]
      /\ cli'[c] = "connected" /\ \A d \in Conn \ {c} : cli'[d] = cli[d]
    BY DEF IInv, TypeOK, Connect
<1>8. Queued'
  <2>1. \A i \in 1 .. l : /\ stage[queue[i]] = "none" /\ cli[queue[i]] # "off"
                          /\ \A j \in 1 .. l : queue[j] = queue[i] => i = j
    BY <1>1 DEF IInv, Queued
  <2>2. \A i \in 1 .. l : queue[i] # c
    BY <1>6, <2>1
  <2>3. \A i \in 1 .. l + 1 : i = l + 1 \/ i \in 1 .. l
    OBVIOUS
  <2>4. ASSUME NEW i \in 1 .. l + 1
        PROVE  /\ stage'[queue'[i]] = "none" /\ cli'[queue'[i]] # "off"
               /\ \A j \in 1 .. l + 1 : queue'[j] = queue'[i] => i = j
    BY <1>2, <1>6, <1>7, <2>1, <2>2, <2>3
  <2> QED BY <1>2, <2>4 DEF Queued
<1>9. ASSUME NEW d \in Conn PROVE Conversation(d)'
  <2>1. CASE d = c
    BY <1>4, <1>6, <1>7, <2>1 DEF IInv, TypeOK, Conversation, Connect
  <2>2. CASE d # c
    <3>1. /\ kind' = kind /\ heard' = heard /\ url' = url /\ got' = got
          /\ ask'[d] = ask[d] /\ Conversation(d)
      BY <1>4, <2>2 DEF IInv, TypeOK, Connect
    <3> QED BY <1>7, <2>2, <3>1, SameConversation
  <2> QED BY <2>1, <2>2
<1> QED BY <1>5, <1>8, <1>9 DEF IInv

LEMMA InvSpeaks ==
    ASSUME IInv, NEW c \in Conn, Ask(c) \/ Leave(c)
    PROVE  IInv'
<1>1. /\ cli[c] # "off" /\ \E s \in {"asked", "left"} : cli' = [cli EXCEPT ![c] = s]
      /\ UNCHANGED <<kind, up, queue, stage, ask, heard, url, got, buffers>>
    BY DEF Ask, Leave
<1>2. TypeOK'
    BY <1>1 DEF IInv, TypeOK, Served, buffers
<1>3. /\ cli' \in [Conn -> {"off", "connected", "asked", "left"}]
      /\ cli'[c] # "off" /\ \A d \in Conn \ {c} : cli'[d] = cli[d]
    BY <1>1 DEF IInv, TypeOK
<1>4. Queued'
    BY <1>1, <1>3, SameQueue
<1>5. ASSUME NEW d \in Conn PROVE Conversation(d)'
    BY <1>1, <1>3 DEF IInv, Conversation, Right, Answered, Part, IsPage
<1> QED BY <1>2, <1>4, <1>5 DEF IInv

LEMMA InvAccept ==
    ASSUME IInv, Accept
    PROVE  IInv'
<1>1. PICK l \in Nat : l = Len(queue)
    BY DEF IInv, TypeOK
<1>2. PICK c : c = Head(queue)
    OBVIOUS
<1>3. /\ l > 0 /\ l <= Backlog /\ c = queue[1] /\ \A i \in 1 .. l : queue[i] \in Conn
      /\ queue' \in Seq(Conn) /\ Len(queue') = l - 1
      /\ \A i \in 1 .. l - 1 : queue'[i] = queue[i + 1]
    BY <1>1, <1>2, WebAssumption DEF IInv, TypeOK, Accept
<1>4. /\ c \in Conn /\ stage' = [stage EXCEPT ![c] = "read"]
      /\ stage' \in [Conn -> {"none", "read", "reply", "closed", "stuck"}]
      /\ stage'[c] = "read" /\ \A d \in Conn \ {c} : stage'[d] = stage[d]
    BY <1>2, <1>3 DEF IInv, TypeOK, Accept
<1>5. \A i \in 1 .. l : /\ stage[queue[i]] = "none" /\ cli[queue[i]] # "off"
                        /\ \A j \in 1 .. l : queue[j] = queue[i] => i = j
    BY <1>1 DEF IInv, Queued
<1>6. stage[c] = "none" /\ cli[c] # "off"
    BY <1>3, <1>5
<1>7. /\ UNCHANGED <<kind, up, ask, cli, heard, url, got, buffers>>
      /\ kind = "cpp" => Served = {}
    BY DEF Accept
<1>8. kind' = "cpp" => \A d, e \in Served' : d = e
    BY <1>4, <1>7 DEF Served
<1>9. TypeOK'
    BY <1>3, <1>4, <1>7, <1>8, WebAssumption DEF IInv, TypeOK, buffers
<1>10. Queued'
  <2>1. \A i \in 1 .. l - 1 : i + 1 \in 1 .. l /\ queue'[i] # c
    BY <1>3, <1>5
  <2>2. ASSUME NEW i \in 1 .. l - 1
        PROVE  /\ stage'[queue'[i]] = "none" /\ cli'[queue'[i]] # "off"
               /\ \A j \in 1 .. l - 1 : queue'[j] = queue'[i] => i = j
    BY <1>3, <1>4, <1>5, <1>7, <2>1
  <2> QED BY <1>3, <2>2 DEF Queued
<1>11. ASSUME NEW d \in Conn PROVE Conversation(d)'
  <2>1. CASE d = c
    BY <1>4, <1>6, <1>7, <2>1 DEF IInv, Conversation, Answered, IsPage, Part
  <2>2. CASE d # c
    BY <1>4, <1>7, <2>2, SameConversation DEF IInv
  <2> QED BY <2>1, <2>2
<1> QED BY <1>9, <1>10, <1>11 DEF IInv

\* What the one read of a connection finds.
LEMMA ReadFinds ==
    ASSUME IInv, NEW c \in Conn, NEW k, Reading(c, k)
    PROVE  /\ ask[c] \in Requests /\ k \in -1 .. Len(Text(ask[c])) /\ k \in -1 .. Size - 1
           /\ stage[c] = "read" /\ got[c] = None
<1>1. stage[c] = "read" /\ k \in Arrives(c)
    BY DEF Reading
<1>2. got[c] = None /\ ask[c] \in Requests
    BY <1>1 DEF IInv, Conversation
<1>3. PICK l \in Nat : l = Len(Text(ask[c]))
    BY <1>2, Asking
<1>4. l < Size /\ k \in -1 .. l
    BY <1>1, <1>2, <1>3, Asking DEF Arrives
<1>5. k \in -1 .. Size - 1
    BY <1>4, Kept
<1> QED BY <1>1, <1>2, <1>3, <1>4, <1>5

\* A read that leaves the connection in s, with the name u taken from what came.
LEMMA InvReads ==
    ASSUME IInv, NEW c \in Conn, NEW k, Reading(c, k),
           NEW s \in {"read", "reply", "stuck", "closed"}, stage' = [stage EXCEPT ![c] = s],
           NEW u \in Seq(Letter \cup {Other}) \cup {None}, url' = [url EXCEPT ![c] = u],
           s = "reply" => /\ kind = "cpp" /\ k > Len(ask[c]) => u = ask[c]
                          /\ kind = "java" => u = ask[c]
                          /\ kind = "python" => u = Part(c, k),
           request' \in [1 .. Size -> Char], request'[Size] = NUL,
           used' \in BOOLEAN, up' \in BOOLEAN, UNCHANGED <<got, replybuf>>
    PROVE  IInv'
<1>1. /\ ask[c] \in Requests /\ k \in -1 .. Len(Text(ask[c])) /\ k \in -1 .. Size - 1
      /\ stage[c] = "read" /\ got[c] = None
    BY ReadFinds
<1>2. UNCHANGED <<kind, queue, ask, cli, got, replybuf>> /\ heard' = [heard EXCEPT ![c] = k]
    BY DEF Reading
<1>3. /\ stage' \in [Conn -> {"none", "read", "reply", "closed", "stuck"}]
      /\ url' \in [Conn -> Seq(Letter \cup {Other}) \cup {None}]
      /\ heard' \in [Conn -> -1 .. Size - 1]
    BY <1>1, <1>2 DEF IInv, TypeOK
<1>4. /\ stage'[c] = s /\ url'[c] = u /\ heard'[c] = k
      /\ \A d \in Conn \ {c} : /\ stage'[d] = stage[d] /\ url'[d] = url[d]
                               /\ heard'[d] = heard[d]
    BY <1>2 DEF IInv, TypeOK
<1>5. Served' \subseteq Served
    BY <1>1, <1>4 DEF Served
<1>6. TypeOK'
  <2>1. kind' = "cpp" => \A d, e \in Served' : d = e
    BY <1>2, <1>5 DEF IInv, TypeOK
  <2> QED BY <1>2, <1>3, <2>1 DEF IInv, TypeOK, Char
<1>7. Queued'
  <2>1. \A d \in Conn : stage[d] = "none" /\ cli[d] # "off"
                        => stage'[d] = "none" /\ cli'[d] # "off"
    BY <1>1, <1>2, <1>4
  <2> QED BY <1>2, <2>1, SameQueue
<1>8. ASSUME NEW d \in Conn PROVE Conversation(d)'
  <2>1. CASE d = c
    <3>1. s = "reply" => k <= Len(Text(ask[c])) /\ Right(c)'
      BY <1>1, <1>2, <1>4 DEF Right, Part
    <3>2. cli[c] # "off"
      BY <1>1 DEF IInv, Conversation
    <3> QED BY <1>1, <1>2, <1>4, <2>1, <3>1, <3>2 DEF Conversation
  <2>2. CASE d # c
    BY <1>2, <1>4, <2>2, SameConversation DEF IInv
  <2> QED BY <2>1, <2>2
<1> QED BY <1>6, <1>7, <1>8 DEF IInv

LEMMA InvReadCpp ==
    ASSUME IInv, NEW c \in Conn, NEW k, ReadCpp(c, k)
    PROVE  IInv'
<1>1. Reading(c, k) /\ kind = "cpp"
    BY DEF ReadCpp
<1>2. /\ ask[c] \in Requests /\ k \in -1 .. Len(Text(ask[c])) /\ k \in -1 .. Size - 1
      /\ stage[c] = "read"
    BY <1>1, ReadFinds
<1>3. PICK buf : buf = Received(c, k)
    OBVIOUS
<1>4. request \in [1 .. Size -> Char] /\ request[Size] = NUL
    BY DEF IInv, TypeOK, Char
<1>5. buf \in [1 .. Size -> Char] /\ buf[Size] = NUL
    BY <1>2, <1>3, <1>4, ReceivedType
<1>6. Cut(buf) \in [1 .. Size -> Char] /\ Cut(buf)[Size] = NUL
    BY <1>5, CutIs
<1>7. UrlOf(Cut(buf)) \in Seq(Letter \cup {Other})
    BY <1>5, UrlType
<1>8. k > Len(ask[c]) => UrlOf(Cut(buf)) = ask[c] /\ k >= 0
  <2>1. k > Len(ask[c]) => UrlOf(Cut(buf)) = ask[c]
    BY <1>2, <1>3, <1>4, UrlWhole
  <2>2. Len(ask[c]) \in Nat
    BY <1>2, Asking
  <2> QED BY <1>2, <2>1, <2>2
<1>9. /\ used' = (used \/ k >= 0) /\ request' = Cut(buf) /\ UNCHANGED <<got, replybuf>>
      /\ \/ /\ up' = up /\ stage' = [stage EXCEPT ![c] = "reply"]
            /\ url' = [url EXCEPT ![c] = IF used' THEN UrlOf(Cut(buf)) ELSE None]
         \/ up' = FALSE /\ UNCHANGED <<stage, url>>
    BY <1>3 DEF ReadCpp
<1>10. used' \in BOOLEAN /\ up' \in BOOLEAN
    BY <1>9 DEF IInv, TypeOK
<1>11. CASE /\ up' = up /\ stage' = [stage EXCEPT ![c] = "reply"]
            /\ url' = [url EXCEPT ![c] = IF used' THEN UrlOf(Cut(buf)) ELSE None]
  <2>1. PICK u : u = IF used' THEN UrlOf(Cut(buf)) ELSE None
    OBVIOUS
  <2>2. u \in Seq(Letter \cup {Other}) \cup {None}
    BY <1>7, <2>1
  <2>3. k > Len(ask[c]) => u = ask[c]
    BY <1>8, <1>9, <2>1
  <2>4. url' = [url EXCEPT ![c] = u]
    BY <1>11, <2>1
  <2> QED BY <1>1, <1>6, <1>9, <1>10, <1>11, <2>2, <2>3, <2>4, InvReads
<1>12. CASE UNCHANGED <<stage, url>>
  <2>1. stage' = [stage EXCEPT ![c] = "read"] /\ url' = [url EXCEPT ![c] = url[c]]
    BY <1>2, <1>12 DEF IInv, TypeOK
  <2>2. url[c] \in Seq(Letter \cup {Other}) \cup {None}
    BY DEF IInv, TypeOK
  <2> QED BY <1>1, <1>6, <1>9, <1>10, <2>1, <2>2, InvReads
<1> QED BY <1>9, <1>11, <1>12

\* The names the other two servers take.
LEMMA PartType ==
    ASSUME NEW c \in Conn, ask[c] \in Requests, NEW k \in Nat
    PROVE  /\ ask[c] \in Seq(Letter \cup {Other}) /\ Part(c, k) \in Seq(Letter \cup {Other})
           /\ k > Len(ask[c]) => Part(c, k) = ask[c]
<1>1. PICK name \in Seq(Letter) : name = ask[c]
    BY Asking
<1>2. PICK l \in Nat : l = Len(name)
    OBVIOUS
<1>3. SubSeq(name, 1, l) = name
    BY <1>2
<1>4. PICK m \in 0 .. l : m = IF k < l THEN k ELSE l
    OBVIOUS
<1>5. SubSeq(name, 1, m) \in Seq(Letter)
    BY <1>2
<1>6. \A x \in Seq(Letter) : x \in Seq(Letter \cup {Other})
    OBVIOUS
<1>7. Part(c, k) = SubSeq(name, 1, m)
    BY <1>1, <1>2, <1>4 DEF Part
<1> QED BY <1>1, <1>2, <1>3, <1>4, <1>5, <1>6, <1>7

LEMMA InvReadOthers ==
    ASSUME IInv, NEW c \in Conn, NEW k, ReadJava(c, k) \/ ReadPython(c, k)
    PROVE  IInv'
<1>1. Reading(c, k)
    BY DEF ReadJava, ReadPython
<1>2. ask[c] \in Requests /\ k \in -1 .. Size - 1
    BY <1>1, ReadFinds
<1>3. /\ request' \in [1 .. Size -> Char] /\ request'[Size] = NUL
      /\ used' \in BOOLEAN /\ up' \in BOOLEAN /\ UNCHANGED <<got, replybuf>>
    BY DEF IInv, TypeOK, Char, ReadJava, ReadPython, buffers
<1>4. url[c] \in Seq(Letter \cup {Other}) \cup {None} /\ url = [url EXCEPT ![c] = url[c]]
    BY DEF IInv, TypeOK
<1>5. CASE ReadJava(c, k) /\ k > Len(ask[c])
  <2>1. /\ kind = "java" /\ stage' = [stage EXCEPT ![c] = "reply"]
        /\ url' = [url EXCEPT ![c] = ask[c]]
    BY <1>5 DEF ReadJava
  <2>2. ask[c] \in Seq(Letter \cup {Other}) \cup {None}
    <3>1. 0 \in Nat
      OBVIOUS
    <3> QED BY <1>2, <3>1, PartType
  <2> QED BY <1>1, <1>3, <2>1, <2>2, InvReads
<1>6. CASE ReadPython(c, k) /\ k >= 0
  <2>1. /\ kind = "python" /\ stage' = [stage EXCEPT ![c] = "reply"]
        /\ url' = [url EXCEPT ![c] = Part(c, k)]
    BY <1>6 DEF ReadPython
  <2>2. k \in Nat
    BY <1>2, <1>6, Kept
  <2>3. Part(c, k) \in Seq(Letter \cup {Other}) \cup {None}
    BY <1>2, <2>2, PartType
  <2> QED BY <1>1, <1>3, <2>1, <2>3, InvReads
<1>7. CASE \E s \in {"stuck", "closed"} : stage' = [stage EXCEPT ![c] = s] /\ url' = url
  <2>1. PICK s \in {"stuck", "closed"} : stage' = [stage EXCEPT ![c] = s] /\ url' = url
    BY <1>7
  <2>2. s # "reply" /\ s \in {"read", "reply", "stuck", "closed"}
    OBVIOUS
  <2>3. url' = [url EXCEPT ![c] = url[c]]
    BY <1>4, <2>1
  <2> QED BY <1>1, <1>3, <1>4, <2>1, <2>2, <2>3, InvReads
<1> QED BY <1>5, <1>6, <1>7 DEF ReadJava, ReadPython

-----------------------------------------------------------------------------
(* The responses.                                                          *)

\* A step that ends a connection, and may bring its browser the page of the name taken.
LEMMA InvReplies ==
    ASSUME IInv, NEW c \in Conn, Replying(c), NEW s \in {"stuck", "closed"},
           stage' = [stage EXCEPT ![c] = s], replybuf' \in Response \cup {None},
           NEW r \in Response, IsPage(r, url[c]),
           got' = [got EXCEPT ![c] = r] \/ UNCHANGED got
    PROVE  IInv'
<1>1. stage[c] = "reply" /\ UNCHANGED <<kind, up, queue, ask, cli, heard, url, request, used>>
    BY DEF Replying
<1>2. /\ ask[c] \in Requests /\ got[c] = None /\ Right(c) /\ cli[c] # "off"
      /\ heard[c] <= Len(Text(ask[c]))
    BY <1>1 DEF IInv, Conversation
<1>3. /\ stage' \in [Conn -> {"none", "read", "reply", "closed", "stuck"}]
      /\ got' \in [Conn -> Response \cup {None}]
    BY DEF IInv, TypeOK
<1>4. /\ stage'[c] = s /\ got'[c] \in {r, None}
      /\ \A d \in Conn \ {c} : stage'[d] = stage[d] /\ got'[d] = got[d]
    BY <1>2 DEF IInv, TypeOK
<1>5. Served' \subseteq Served
    BY <1>1, <1>4 DEF Served
<1>6. TypeOK'
  <2>1. kind' = "cpp" => \A d, e \in Served' : d = e
    BY <1>1, <1>5 DEF IInv, TypeOK
  <2> QED BY <1>1, <1>3, <2>1 DEF IInv, TypeOK
<1>7. Queued'
  <2>1. \A d \in Conn : stage[d] = "none" /\ cli[d] # "off"
                        => stage'[d] = "none" /\ cli'[d] # "off"
    BY <1>1, <1>4
  <2> QED BY <1>1, <2>1, SameQueue
<1>8. \/ IsPage(r, ask[c])
      \/ kind = "cpp" /\ heard[c] <= Len(ask[c])
      \/ kind = "python" /\ heard[c] <= Len(ask[c]) /\ IsPage(r, Part(c, heard[c]))
  <2>1. heard[c] \in -1 .. Size - 1 /\ Len(ask[c]) \in Nat
    BY <1>2, Asking DEF IInv, TypeOK
  <2>2. heard[c] > Len(ask[c]) \/ heard[c] <= Len(ask[c])
    BY <2>1, Kept
  <2>3. kind \in {"cpp", "java", "python"}
    BY WebAssumption DEF IInv, TypeOK
  <2>4. heard[c] > Len(ask[c]) => Part(c, heard[c]) = ask[c]
    <3>1. heard[c] > Len(ask[c]) => heard[c] \in Nat
      BY <2>1, Kept
    <3> QED BY <1>2, <3>1, PartType
  <2> QED BY <1>2, <2>2, <2>3, <2>4 DEF Right
<1>9. ASSUME NEW d \in Conn PROVE Conversation(d)'
  <2>1. CASE d = c
    <3>1. got'[c] # None => Answered(c)'
      <4>1. got'[c] # None => got'[c] = r
        BY <1>4
      <4> QED BY <1>1, <1>8, <4>1 DEF Answered, IsPage, Part
    <3> QED BY <1>1, <1>2, <1>4, <2>1, <3>1 DEF Conversation
  <2>2. CASE d # c
    BY <1>1, <1>4, <2>2, SameConversation DEF IInv
  <2> QED BY <2>1, <2>2
<1> QED BY <1>6, <1>7, <1>9 DEF IInv

\* There is always a page of the name, sent or not.
LEMMA SomePage ==
    ASSUME NEW name, kind \in {"cpp", "java", "python"}
    PROVE  \E r \in Response : IsPage(r, name)
<1>1. CASE kind = "cpp"
    BY <1>1, Pages
<1>2. CASE kind # "cpp"
    BY <1>2, Pages
<1> QED BY <1>1, <1>2

LEMMA InvReplyCpp ==
    ASSUME IInv, NEW c \in Conn, ReplyCpp(c)
    PROVE  IInv'
<1>1. /\ kind = "cpp" /\ Replying(c) /\ replybuf' = Written(url[c])
      /\ stage' = [stage EXCEPT ![c] = "closed"]
      /\ got' = [got EXCEPT ![c] = Written(url[c])] \/ UNCHANGED got
    BY DEF ReplyCpp, Answers
<1>2. Written(url[c]) \in Response /\ IsPage(Written(url[c]), url[c])
    BY <1>1, Pages
<1> QED BY <1>1, <1>2, InvReplies

LEMMA InvReplyOthers ==
    ASSUME IInv, NEW c \in Conn, ReplyJava(c) \/ ReplyPython(c)
    PROVE  IInv'
<1>1. kind # "cpp" /\ Replying(c) /\ replybuf' \in Response \cup {None}
    BY DEF IInv, TypeOK, ReplyJava, ReplyPython
<1>2. PICK file : file = [code |-> 200, body |-> Files[url[c]]]
    OBVIOUS
<1>3. IsFile(url[c]) => file \in Response /\ IsPage(file, url[c])
    BY <1>1, <1>2, Pages
<1>4. ~ IsThere(url[c]) => NotFound \in Response /\ IsPage(NotFound, url[c])
    BY Pages DEF IsFile
<1>5. \/ IsFile(url[c]) /\ Answers(c, file)
      \/ ~ IsThere(url[c]) /\ Answers(c, NotFound)
      \/ (\E s \in {"stuck", "closed"} : stage' = [stage EXCEPT ![c] = s]) /\ UNCHANGED got
    BY <1>2 DEF ReplyJava, ReplyPython, Closes
<1>6. CASE IsFile(url[c]) /\ Answers(c, file)
  <2>1. /\ stage' = [stage EXCEPT ![c] = "closed"]
        /\ got' = [got EXCEPT ![c] = file] \/ UNCHANGED got
    BY <1>6 DEF Answers
  <2> QED BY <1>1, <1>3, <1>6, <2>1, InvReplies
<1>7. CASE ~ IsThere(url[c]) /\ Answers(c, NotFound)
  <2>1. /\ stage' = [stage EXCEPT ![c] = "closed"]
        /\ got' = [got EXCEPT ![c] = NotFound] \/ UNCHANGED got
    BY <1>7 DEF Answers
  <2> QED BY <1>1, <1>4, <1>7, <2>1, InvReplies
<1>8. CASE (\E s \in {"stuck", "closed"} : stage' = [stage EXCEPT ![c] = s]) /\ UNCHANGED got
  <2>1. kind \in {"cpp", "java", "python"}
    BY WebAssumption DEF IInv, TypeOK
  <2>2. PICK r \in Response : IsPage(r, url[c])
    BY <2>1, SomePage
  <2> QED BY <1>1, <1>8, <2>2, InvReplies
<1> QED BY <1>5, <1>6, <1>7, <1>8

-----------------------------------------------------------------------------
LEMMA InvNext == IInv /\ [Next]_vars => IInv'
<1> SUFFICES ASSUME IInv, [Next]_vars PROVE IInv'
    OBVIOUS
<1>1. CASE Accept
    BY <1>1, InvAccept
<1>2. ASSUME NEW c \in Conn, Browser(c) PROVE IInv'
    BY <1>2, InvConnect, InvSpeaks DEF Browser
<1>3. ASSUME NEW c \in Conn, Serve(c) PROVE IInv'
    BY <1>3, InvReadCpp, InvReadOthers, InvReplyCpp, InvReplyOthers DEF Serve
<1>4. CASE UNCHANGED vars
  <2>1. TypeOK'
    BY <1>4 DEF IInv, TypeOK, Served, vars, buffers
  <2>2. Queued'
    BY <1>4, SameQueue DEF vars
  <2>3. \A c \in Conn : Conversation(c)'
    BY <1>4, SameConversation DEF IInv, vars
  <2> QED BY <2>1, <2>2, <2>3 DEF IInv
<1> QED BY <1>1, <1>2, <1>3, <1>4 DEF Next

LEMMA InvHolds == Spec => []IInv
BY InvInit, InvNext, PTL DEF Spec

\* Every variable of the servers and their browsers keeps its type, the buffer of
\* Webserver.cpp its NUL at the end, and that server has one connection at a time.
THEOREM WebTypes == Spec => []TypeOK
<1>1. IInv => TypeOK
    BY DEF IInv
<1> QED BY <1>1, InvHolds, PTL

\* A browser gets the page of the name it asked for, whatever the servers' buffers hold
\* of other clients and however the pieces of the requests arrive (geturl and reply of
\* Webserver.cpp, Request.java and Response.java, webserver.py).
THEOREM NobodyElsesPage == Spec => []OwnPage
<1>1. IInv => OwnPage
  <2> SUFFICES ASSUME IInv, NEW c \in Conn, got[c] # None
               PROVE  \/ IsPage(got[c], ask[c])
                      \/ kind = "cpp" /\ ~ Whole(c)
                      \/ kind = "python" /\ ~ Whole(c) /\ IsPage(got[c], Part(c, heard[c]))
    BY DEF OwnPage
  <2>1. Answered(c)
    BY DEF IInv, Conversation
  <2>2. cli[c] # "off"
    BY DEF IInv, Conversation
  <2>3. ask[c] \in Requests
    BY <2>2 DEF IInv, Conversation
  <2>4. heard[c] <= Len(ask[c]) => ~ Whole(c)
    <3>1. heard[c] \in -1 .. Size - 1 /\ Len(ask[c]) \in Nat
      BY <2>3, Asking DEF IInv, TypeOK
    <3> QED BY <3>1, Kept DEF Whole
  <2> QED BY <2>1, <2>4 DEF Answered
<1> QED BY <1>1, InvHolds, PTL
=============================================================================
