---------------------------- MODULE RelayProofs ----------------------------
(* What doit relays, for every request and every truthful response, any     *)
(* size of one read and any width of content_length: types, that the        *)
(* unsigned length never wraps, what the client has, and what is logged.    *)
EXTENDS Relay, FiniteSetTheorems, SequenceTheorems, WellFoundedInduction, TLAPS

-----------------------------------------------------------------------------
(* Sums.                                                                    *)

\* A set of numbers that is not empty has a least one: what every induction here is
\* made from.
LEMMA LeastNumber ==
    ASSUME NEW T, T \subseteq Nat, T # {}
    PROVE  \E x \in T : \A y \in T : x <= y
<1>1. \A x, y \in Nat : x < y => <<x, y>> \in OpToRel(<, Nat)
  <2> SUFFICES ASSUME NEW x \in Nat, NEW y \in Nat, x < y
               PROVE  <<x, y>> \in OpToRel(<, Nat)
    OBVIOUS
  <2>1. <<x, y>> \in Nat \X Nat /\ <<x, y>>[1] = x /\ <<x, y>>[2] = y
    OBVIOUS
  <2> QED BY <2>1 DEF OpToRel
<1>2. PICK R : IsWellFoundedOn(R, Nat) /\ \A x, y \in Nat : x < y => <<x, y>> \in R
  BY <1>1, NatLessThanWellFounded
<1>3. IsWellFoundedOn(R, Nat)
  BY <1>2
<1>4. \E x \in T : \A y \in T : ~ (<<y, x>> \in R)
  BY <1>3, WFMin, Zenon
<1>5. ASSUME NEW x \in T, \A y \in T : ~ (<<y, x>> \in R), NEW y \in T PROVE x <= y
  <2>1. x \in Nat /\ y \in Nat
    OBVIOUS
  <2>2. y < x => <<y, x>> \in R
    BY <1>2, <2>1, Zenon
  <2>3. ~ (<<y, x>> \in R)
    BY <1>5, Zenon
  <2>4. ~ (y < x)
    BY <2>2, <2>3, Zenon
  <2> QED BY <2>1, <2>4
<1> QED BY <1>4, <1>5

LEMMA ItemSizes ==
    /\ Item = {"status", "length", "coding", "blank", "size", "data", "last", "tail",
               "tailnul", "byte"}
    /\ \A x \in Item : Size[x] \in Nat
    /\ Size["blank"] = 2 /\ Size["byte"] = 1 /\ Size["last"] = 3
    /\ Size["tail"] = 1 /\ Size["tailnul"] = 2
BY DEF Item, Size

\* The sums of the sizes exist and are what their definition says.
LEMMA SizesDef ==
    ASSUME NEW items \in Seq(Item)
    PROVE  /\ Sizes(items) \in [0 .. Len(items) -> Nat]
           /\ Sizes(items)[0] = 0
           /\ \A i \in 1 .. Len(items) :
                 Sizes(items)[i] = Sizes(items)[i - 1] + Size[items[i]]
<1>0. PICK m \in Nat : m = Len(items)
    OBVIOUS
<1>1. \A i \in 1 .. m : Size[items[i]] \in Nat
    BY <1>0, ItemSizes, ElementOfSeq
<1> DEFINE Upto(k) == \E f \in [0 .. k -> Nat] :
                         /\ f[0] = 0
                         /\ \A i \in 1 .. k : f[i] = f[i - 1] + Size[items[i]]
           T == {k \in Nat : k <= m /\ ~ Upto(k)}
<1>2. Upto(0)
  <2> DEFINE g == [i \in 0 .. 0 |-> 0]
  <2>1. g \in [0 .. 0 -> Nat] /\ g[0] = 0 /\ \A i \in 1 .. 0 : FALSE
    OBVIOUS
  <2> HIDE DEF g
  <2> QED BY <2>1
<1>3. ASSUME NEW k \in 1 .. m, Upto(k - 1) PROVE Upto(k)
  <2>1. PICK f \in [0 .. k - 1 -> Nat] :
            /\ f[0] = 0
            /\ \A i \in 1 .. k - 1 : f[i] = f[i - 1] + Size[items[i]]
    BY <1>3
  <2>a. f[k - 1] \in Nat /\ Size[items[k]] \in Nat
    BY <1>1, <2>1
  <2>2. PICK z \in Nat : z = f[k - 1] + Size[items[k]]
    BY <2>a
  <2> DEFINE g == [i \in 0 .. k |-> IF i = k THEN z ELSE f[i]]
  <2>3. g \in [0 .. k -> Nat]
    BY <2>1
  <2>4. g[0] = 0
    BY <2>1
  <2>5. ASSUME NEW i \in 1 .. k PROVE g[i] = g[i - 1] + Size[items[i]]
    <3>1. CASE i = k
      BY <2>2, <3>1
    <3>2. CASE i # k
      <4>1. i \in 1 .. k - 1
        BY <3>2
      <4> QED BY <2>1, <4>1
    <3> QED BY <3>1, <3>2
  <2> HIDE DEF g
  <2> QED BY <2>3, <2>4, <2>5
<1>4. Upto(m)
  <2> SUFFICES ASSUME ~ Upto(m) PROVE FALSE
    OBVIOUS
  <2> HIDE DEF Upto
  <2>1. T \subseteq Nat /\ T # {}
    OBVIOUS
  <2>2. PICK k \in T : \A y \in T : k <= y
    BY <2>1, LeastNumber
  <2>3. k \in Nat /\ k <= m /\ ~ Upto(k)
    OBVIOUS
  <2>4. k # 0
    BY <1>2, <2>3
  <2>5. k - 1 \in Nat /\ k - 1 <= m /\ k - 1 \notin T
    BY <2>2, <2>3, <2>4
  <2>6. Upto(k - 1)
    BY <2>5
  <2> QED BY <1>3, <2>3, <2>4, <2>6
<1>5. PICK f \in [0 .. m -> Nat] : /\ f[0] = 0
                                  /\ \A i \in 1 .. m : f[i] = f[i - 1] + Size[items[i]]
    BY <1>4
<1> DEFINE D(h) == [n \in 0 .. Len(items) |-> IF n = 0 THEN 0 ELSE h[n - 1] + Size[items[n]]]
<1>6. f = D(f)
    BY <1>0, <1>5
<1>7. Sizes(items) = CHOOSE h : h = D(h)
    BY DEF Sizes
<1>8. Sizes(items) = D(Sizes(items))
    BY <1>6, <1>7
\* There is no other such function.
<1>9. PICK g : g = Sizes(items)
    OBVIOUS
<1>10. /\ DOMAIN g = 0 .. m /\ g[0] = 0
       /\ \A i \in 1 .. m : g[i] = g[i - 1] + Size[items[i]]
  <2>1. g = D(g)
    BY <1>8, <1>9
  <2>2. DOMAIN g = 0 .. m
    BY <1>0, <2>1
  <2>3. \A i \in 0 .. m : g[i] = IF i = 0 THEN 0 ELSE g[i - 1] + Size[items[i]]
    BY <1>0, <2>1
  <2> QED BY <2>2, <2>3
<1>11. \A i \in 0 .. m : g[i] = f[i]
  <2> DEFINE U == {k \in Nat : k <= m /\ g[k] # f[k]}
  <2> SUFFICES ASSUME NEW i \in 0 .. m, g[i] # f[i] PROVE FALSE
    OBVIOUS
  <2>0. i \in Nat /\ i <= m /\ g[i] # f[i]
    OBVIOUS
  <2>1. U \subseteq Nat /\ i \in U
    BY <2>0
  <2>2. PICK k \in U : \A y \in U : k <= y
    BY <2>1, LeastNumber
  <2>3. k \in Nat /\ k <= m /\ g[k] # f[k]
    OBVIOUS
  <2>4. k # 0
    BY <1>5, <1>10, <2>3
  <2>5. k - 1 \in Nat /\ k - 1 <= m /\ k - 1 \notin U
    BY <2>2, <2>3, <2>4
  <2>6. g[k - 1] = f[k - 1] /\ k \in 1 .. m
    BY <2>3, <2>4, <2>5
  <2> QED BY <1>5, <1>10, <2>3, <2>6
<1>12. g \in [0 .. m -> Nat]
  <2>1. \A i \in 0 .. m : g[i] \in Nat
    BY <1>5, <1>11
  <2>2. g = [i \in 0 .. m |-> g[i]]
    <3>1. D(g) = g
      BY <1>8, <1>9
    <3> HIDE DEF D
    <3>2. g = [n \in 0 .. Len(items) |-> IF n = 0 THEN 0 ELSE g[n - 1] + Size[items[n]]]
      BY <3>1 DEF D
    <3> QED BY <1>10, <3>2
  <2> QED BY <2>1, <2>2
<1> QED BY <1>0, <1>9, <1>10, <1>12

-----------------------------------------------------------------------------
(* The response.                                                            *)

\* What the assumption says of a whole response R of n items, h of them the head.
Shape(R, h, n, sized) ==
    /\ R \in Seq(Item) /\ h \in Nat \ {0} /\ n \in Nat /\ h <= n /\ Len(R) = n
    /\ \A i \in 1 .. h : /\ R[i] \in {"status", "length", "coding", "blank"}
                         /\ R[i] = "blank" <=> i = h
    /\ \A i \in h + 1 .. n : /\ R[i] \in {"size", "data", "blank", "last", "tail", "byte"}
                             /\ R[i] = "byte" <=> sized
                             /\ R[i] = "last" => i + 1 = n /\ R[n] = "blank"
                             /\ R[i] = "tail" => i = n
    /\ sized <=> \E i \in 1 .. h : R[i] = "length"
    /\ sized => n - h < Uint

LEMMA Kinds ==
    ASSUME NEW R, NEW h, NEW n, NEW sized, Shape(R, h, n, sized), NEW i \in 1 .. n
    PROVE  /\ R[i] \in Item /\ R[i] # "tailnul"
           /\ R[i] = "last" => i + 1 = n /\ R[n] = "blank"
           /\ R[i] = "tail" => i = n
           /\ R[i] = "length" => sized
<1>1. h \in Nat /\ n \in Nat
    BY DEF Shape
<1>2. CASE i \in 1 .. h
    BY <1>2, ItemSizes DEF Shape
<1>3. CASE i \in h + 1 .. n
    BY <1>3, ItemSizes DEF Shape
<1> QED BY <1>1, <1>2, <1>3

LEMMA ResponseShape ==
    ASSUME res \in Responses
    PROVE  /\ Shape(Response, Len(res.head), Len(Response), HasLength(res))
           /\ Len(res.body) = Len(Response) - Len(res.head)
           /\ HasLength(res) => Announced = Len(res.body)
           /\ \A i \in 1 .. Len(Response) : Response[i] = "tail" => "tail" \in ToSet(res.body)
<1>1. /\ res.head \in Seq(Item) /\ res.body \in Seq(Item) /\ Truthful(res)
    BY RelayAssumption
<1>2. PICK h \in Nat, m \in Nat : h = Len(res.head) /\ m = Len(res.body)
    BY <1>1
<1>3. /\ Response \in Seq(Item) /\ Len(Response) = h + m
      /\ \A i \in 1 .. h + m : Response[i] = IF i <= h THEN res.head[i] ELSE res.body[i - h]
    BY ONLY <1>1, <1>2, ConcatProperties DEF Response
<1>4. /\ \A i \in 1 .. h : Response[i] = res.head[i]
      /\ \A i \in h + 1 .. h + m : i - h \in 1 .. m /\ Response[i] = res.body[i - h]
  <2>1. ASSUME NEW i \in 1 .. h PROVE Response[i] = res.head[i]
    <3>1. i \in 1 .. h + m /\ i <= h
      OBVIOUS
    <3> QED BY <1>3, <3>1
  <2>2. ASSUME NEW i \in h + 1 .. h + m
        PROVE  i - h \in 1 .. m /\ Response[i] = res.body[i - h]
    <3>1. i \in 1 .. h + m /\ ~ (i <= h) /\ i - h \in 1 .. m
      OBVIOUS
    <3> QED BY <1>3, <3>1
  <2> QED BY <2>1, <2>2
<1>5. /\ h > 0
      /\ \A i \in 1 .. h : /\ res.head[i] \in {"status", "length", "coding", "blank"}
                           /\ res.head[i] = "blank" <=> i = h
      /\ HasLength(res) => m < Uint
      /\ \A i \in 1 .. m :
            /\ res.body[i] \in {"size", "data", "blank", "last", "tail", "byte"}
            /\ res.body[i] = "byte" <=> HasLength(res)
            /\ res.body[i] = "last" => i + 1 = m /\ res.body[m] = "blank"
            /\ res.body[i] = "tail" => i = m
    BY <1>1, <1>2 DEF Truthful
<1>6. HasLength(res) <=> \E i \in 1 .. h : Response[i] = "length"
    BY <1>1, <1>2, <1>4 DEF HasLength
<1>7. ASSUME HasLength(res) PROVE Announced = m
  <2>1. {i \in DOMAIN res.body : res.body[i] = "byte"} = 1 .. m
    BY <1>1, <1>2, <1>5, <1>7
  <2>2. Cardinality(1 .. m) = m
    BY <1>2, FS_Interval
  <2> QED BY <2>1, <2>2 DEF Announced
<1>8. ASSUME NEW i \in h + 1 .. h + m
      PROVE  /\ Response[i] \in {"size", "data", "blank", "last", "tail", "byte"}
             /\ Response[i] = "byte" <=> HasLength(res)
             /\ Response[i] = "last" => i + 1 = h + m /\ Response[h + m] = "blank"
             /\ Response[i] = "tail" => i = h + m
  <2>1. i - h \in 1 .. m /\ Response[i] = res.body[i - h]
    BY <1>4
  <2>2. h + m \in h + 1 .. h + m /\ (h + m) - h = m
    OBVIOUS
  <2>3. Response[h + m] = res.body[m]
    BY <1>4, <2>2
  <2> QED BY <1>5, <2>1, <2>3
<1>9. /\ \A i \in 1 .. h : /\ Response[i] \in {"status", "length", "coding", "blank"}
                           /\ Response[i] = "blank" <=> i = h
      /\ HasLength(res) => Announced = m /\ m < Uint
    BY <1>4, <1>5, <1>7
<1>10. Len(res.head) = h /\ Len(res.body) = m /\ Len(Response) = h + m /\ h > 0
    BY <1>2, <1>3, <1>5
<1>11. PICK R \in Seq(Item), n \in Nat : R = Response /\ n = h + m
    BY <1>3
<1>12. /\ \A i \in h + 1 .. n : /\ R[i] \in {"size", "data", "blank", "last", "tail", "byte"}
                                /\ R[i] = "byte" <=> HasLength(res)
                                /\ R[i] = "last" => i + 1 = n /\ R[n] = "blank"
                                /\ R[i] = "tail" => i = n
       /\ n - h = m /\ h <= n
    BY <1>8, <1>11
<1>13. Shape(R, h, n, HasLength(res))
    BY <1>3, <1>6, <1>9, <1>10, <1>11, <1>12 DEF Shape
<1>14. ASSUME NEW i \in 1 .. n, R[i] = "tail" PROVE "tail" \in ToSet(res.body)
  <2>1. i \in h + 1 .. n
    BY <1>9, <1>11, <1>14
  <2>2. i - h \in 1 .. m /\ Response[i] = res.body[i - h]
    BY <1>4, <1>11, <2>1
  <2>3. DOMAIN res.body = 1 .. m
    BY <1>1, <1>2
  <2> QED BY <1>11, <1>14, <2>2, <2>3 DEF ToSet
<1> QED BY <1>9, <1>10, <1>11, <1>12, <1>13, <1>14

\* Bytes count one each.
LEMMA BytesCount ==
    ASSUME res \in Responses, NEW p \in Nat, NEW q \in Nat, p + q <= Len(Response),
           \A i \in p + 1 .. p + q : Response[i] = "byte"
    PROVE  Sizes(Response)[p + q] = Sizes(Response)[p] + q
<1>1. /\ Response \in Seq(Item) /\ Len(Response) \in Nat
    BY ResponseShape DEF Shape
<1>2. PICK f : f = Sizes(Response)
    OBVIOUS
<1>3. /\ \A i \in 0 .. Len(Response) : f[i] \in Nat
      /\ \A i \in 1 .. Len(Response) : f[i] = f[i - 1] + Size[Response[i]]
    BY <1>1, <1>2, SizesDef
<1> DEFINE P(k) == f[p + k] = f[p] + k
           T == {k \in Nat : k <= q /\ ~ P(k)}
<1>4. P(0)
    BY <1>1, <1>3
<1>5. ASSUME NEW k \in 1 .. q, P(k - 1) PROVE P(k)
  <2>1. p + k \in 1 .. Len(Response) /\ p + k \in p + 1 .. p + q
    BY <1>1
  <2>2. f[p + k] = f[p + k - 1] + Size[Response[p + k]]
    BY <1>3, <2>1
  <2>3. Size[Response[p + k]] = 1
    BY <2>1, ItemSizes
  <2>4. p + k - 1 = p + (k - 1) /\ f[p] \in Nat
    BY <1>3, <1>1, <2>1
  <2> QED BY <1>5, <2>2, <2>3, <2>4
<1>6. P(q)
  <2> SUFFICES ASSUME ~ P(q) PROVE FALSE
    OBVIOUS
  <2> HIDE DEF P
  <2>1. T \subseteq Nat /\ T # {}
    OBVIOUS
  <2>2. PICK k \in T : \A y \in T : k <= y
    BY <2>1, LeastNumber
  <2>3. k \in Nat /\ k <= q /\ ~ P(k)
    OBVIOUS
  <2>4. k # 0
    BY <1>4, <2>3
  <2>5. k - 1 \in Nat /\ k - 1 <= q /\ k - 1 \notin T
    BY <2>2, <2>3, <2>4
  <2>6. P(k - 1)
    BY <2>5
  <2> QED BY <1>5, <2>3, <2>4, <2>6
<1> QED BY <1>2, <1>6

-----------------------------------------------------------------------------
(* The invariant.                                                           *)

\* The server is gone in the middle of the head.
Cut == srv # "open" /\ read = sent /\ read < Len(res.head)

\* Where doit is, and what it knows there of the length: it is out of the head too soon
\* only if the server has gone, and then there is nothing left to read.
Stage ==
    /\ pc = "request" => read = 0
    /\ pc = "head" => read < Len(res.head)
    /\ pc # "log" => (chunked <=> \A i \in 1 .. read : Response[i] # "length")
    /\ pc = "lines" => chunked
    /\ pc = "bytes" => ~ chunked /\ read_size = Smaller(content_length)
    /\ pc = "head" /\ ~ chunked => content_length = Len(res.body)
    /\ pc \in {"lines", "bytes"} /\ read < Len(res.head) => Cut
    /\ pc = "bytes" /\ read >= Len(res.head) => content_length = Len(Response) - read
    /\ ~ clienton => cli = "closed"

\* The first n items as doit writes them: a last line without a newline gets a NUL byte.
Relayed(g, n) ==
    /\ Len(g) = n
    /\ \A i \in 1 .. n : g[i] = IF Response[i] = "tail" THEN "tailnul" ELSE Response[i]

\* What the client has, if it stayed: all that was read, and the last chunk again.
Received ==
    cli = "open" =>
        \/ Relayed(got, read)
        \/ /\ pc = "log" /\ read > 0 /\ Response[read] = "last"
           /\ \E g \in Seq(Item) : Relayed(g, read) /\ got = Append(g, "last")

\* What is counted so far: the blank line of the head is not, and what the loop over the
\* lines adds at the end of the body makes up for it at most.
Counted ==
    /\ recv_len <= Sizes(Response)[read]
    /\ pc = "lines" /\ Len(res.head) <= read /\ read < Len(Response) =>
          recv_len + Size["blank"] <= Sizes(Response)[read]

Inv == TypeOK /\ Stage /\ Received /\ Counted

\* The four properties are parts of the invariant.
LEMMA StageMeans == Inv => NoUnderflow
BY DEF Inv, Stage, NoUnderflow

LEMMA CountedMeans == Inv => NeverOvercounts
BY DEF Inv, Counted, NeverOvercounts

LEMMA ReceivedMeans == Inv => ForwardedButEnd
<1> SUFFICES ASSUME Inv, cli = "open" PROVE ForwardedButEnd
    BY DEF ForwardedButEnd
<1>1. got \in Seq(Item) /\ res \in Responses /\ read \in 0 .. sent /\ sent \in 0 .. Len(Response)
    BY DEF Inv, TypeOK
<1>2. PICK R, h, m : /\ R = Response /\ m = Len(Response)
                     /\ Shape(R, h, m, HasLength(res))
    BY <1>1, ResponseShape
<1>a. R \in Seq(Item) /\ h \in Nat \ {0} /\ m \in Nat /\ Len(R) = m
    BY <1>2 DEF Shape
<1>3. /\ read \in 0 .. m
      /\ \A i \in 1 .. m : R[i] \in Item /\ R[i] # "tailnul"
      /\ \A i \in 1 .. m : R[i] = "last" => i + 1 = m /\ R[m] = "blank"
      /\ \A i \in 1 .. m : R[i] = "tail" => i = m
    BY <1>1, <1>2, <1>a, Kinds
<1> DEFINE n == Len(got)
           twice == n > 1 /\ got[n] = "last" /\ got[n - 1] = "last"
           mapped == [i \in 1 .. n |-> IF got[i] = "tailnul" THEN "tail" ELSE got[i]]
           plain == IF twice THEN Front(got) ELSE mapped
<1>4. ASSUME NEW g \in Seq(Item), Relayed(g, read)
      PROVE  /\ Len(g) = read
             /\ \A i \in 1 .. read : /\ g[i] = "tailnul" => R[i] = "tail"
                                     /\ g[i] # "tailnul" => g[i] = R[i]
    BY <1>2, <1>3, <1>4 DEF Relayed
\* A sequence that is item by item a beginning of the response.
<1>5. ASSUME NEW g \in Seq(Item), Len(g) = read, \A i \in 1 .. read : g[i] = R[i]
      PROVE  IsPrefix(g, Response)
  <2>1. SubSeq(g, 1, read) = g
    BY <1>5, SubSeqFull
  <2>2. /\ SubSeq(R, 1, read) \in Seq(Item) /\ Len(SubSeq(R, 1, read)) = read
        /\ \A i \in 1 .. read : SubSeq(R, 1, read)[i] = R[i]
    <3>1. \A i \in 1 .. read : R[i] \in Item
      BY <1>3, <1>a
    <3>2. read \in Int /\ 1 \in Int
      BY <1>3
    <3>3. /\ SubSeq(R, 1, read) \in Seq(Item)
          /\ Len(SubSeq(R, 1, read)) = IF 1 <= read THEN read - 1 + 1 ELSE 0
          /\ \A i \in 1 .. read - 1 + 1 : SubSeq(R, 1, read)[i] = R[1 + i - 1]
      BY ONLY <3>1, <3>2, SubSeqProperties
    <3> QED BY <1>3, <3>3
  <2>3. g = SubSeq(R, 1, read)
    BY ONLY <1>5, <2>2, SeqEqual
  <2> QED BY <1>2, <1>3, <1>5, <2>1, <2>3 DEF IsPrefix
<1>6. CASE Relayed(got, read)
  <2>1. /\ n = read
        /\ \A i \in 1 .. read : /\ got[i] = "tailnul" => R[i] = "tail"
                                /\ got[i] # "tailnul" => got[i] = R[i]
    BY <1>1, <1>4, <1>6
  <2>2. ~ twice
    BY <1>3, <1>a, <2>1
  <2>3. ASSUME NEW i \in 1 .. read PROVE mapped[i] = R[i]
    <3>1. mapped[i] = IF got[i] = "tailnul" THEN "tail" ELSE got[i]
      BY <2>1
    <3> HIDE DEF mapped
    <3> QED BY <2>1, <3>1
  <2>4. mapped \in Seq(Item) /\ Len(mapped) = read
    <3>1. \A i \in 1 .. n : mapped[i] \in Item
      <4> HIDE DEF mapped
      <4> QED BY <1>3, <1>a, <2>1, <2>3
    <3>2. mapped \in [1 .. n -> Item] /\ n \in Nat
      BY <1>1, <3>1
    <3> QED BY <2>1, <3>2
  <2>5. IsPrefix(mapped, Response)
    BY <1>5, <2>3, <2>4
  <2> HIDE DEF mapped, n
  <2> QED BY <2>1, <2>2, <2>4, <2>5 DEF ForwardedButEnd, n, mapped
<1>7. CASE ~ Relayed(got, read)
  <2>1. /\ pc = "log" /\ read > 0 /\ R[read] = "last"
        /\ \E g \in Seq(Item) : Relayed(g, read) /\ got = Append(g, "last")
    BY <1>2, <1>7 DEF Inv, Received
  <2>2. PICK g \in Seq(Item) : Relayed(g, read) /\ got = Append(g, "last")
    BY <2>1
  <2>3. /\ Len(g) = read /\ \A i \in 1 .. read : g[i] = R[i]
    BY <1>3, <1>4, <2>1, <2>2
  <2>4. /\ n = read + 1 /\ got[n] = "last" /\ got[n - 1] = "last"
    BY <1>3, <2>1, <2>2, <2>3
  <2>5. Front(got) = g
    BY <2>2 DEF Front
  <2>6. IsPrefix(g, Response)
    BY <1>5, <2>3
  <2> HIDE DEF n
  <2> QED BY <1>3, <2>1, <2>4, <2>5, <2>6 DEF ForwardedButEnd, n
<1> QED BY <1>6, <1>7

-----------------------------------------------------------------------------
(* The steps.                                                               *)

\* The response R, with its sums S, in numbers.
Known(R, h, m, S) ==
    /\ R = Response /\ h = Len(res.head) /\ m = Len(Response) /\ S = Sizes(Response)
    /\ Len(res.body) = m - h
    /\ Shape(R, h, m, HasLength(res))

LEMMA Facts ==
    ASSUME Inv
    PROVE  \E R, h, m, S : Known(R, h, m, S)
BY ResponseShape DEF Inv, TypeOK, Known

LEMMA Sums ==
    ASSUME res \in Responses, NEW R, NEW h, NEW m, NEW S, Known(R, h, m, S)
    PROVE  /\ R \in Seq(Item) /\ h \in Nat \ {0} /\ m \in Nat /\ h <= m /\ Len(R) = m
           /\ S \in [0 .. m -> Nat] /\ S[0] = 0 /\ SizeOf(Response) = S[m]
           /\ \A i \in 1 .. m : S[i] = S[i - 1] + Size[R[i]]
           /\ \A i \in 1 .. h : R[i] = "blank" <=> i = h
           /\ "tail" \notin ToSet(res.body) => \A i \in 1 .. m : R[i] # "tail"
<1>1. R \in Seq(Item) /\ h \in Nat \ {0} /\ m \in Nat /\ h <= m /\ Len(R) = m
    BY DEF Known, Shape
<1>2. /\ S \in [0 .. m -> Nat] /\ S[0] = 0
      /\ \A i \in 1 .. m : S[i] = S[i - 1] + Size[R[i]]
    BY <1>1, SizesDef DEF Known
<1>3. SizeOf(Response) = S[m]
    BY DEF Known, SizeOf
<1>4. \A i \in 1 .. h : R[i] = "blank" <=> i = h
    BY DEF Known, Shape
<1>5. ASSUME NEW i \in 1 .. m, R[i] = "tail" PROVE "tail" \in ToSet(res.body)
    BY <1>5, ResponseShape DEF Known
<1> QED BY <1>1, <1>2, <1>3, <1>4, <1>5

\* The response stays what it is, whatever the step.
LEMMA Same ==
    ASSUME res' = res
    PROVE  /\ Response' = Response /\ HasLength(res)' = HasLength(res)
           /\ Sizes(Response)' = Sizes(Response) /\ SizeOf(Response)' = SizeOf(Response)
           /\ ToSet(res.body)' = ToSet(res.body)
           /\ \A g, n : Relayed(g, n)' <=> Relayed(g, n)
BY DEF Response, HasLength, Sizes, SizeOf, ToSet, Relayed

\* A step of doit that neither reads nor writes: it goes on in another loop.
LEMMA QuietReceived ==
    ASSUME Inv, res' = res, got' = got, read' = read,
           cli' = "open" => cli = "open",
           pc = "log" => pc' = "log"
    PROVE  Received'
<1>1. \A g, n : Relayed(g, n)' <=> Relayed(g, n)
    BY Same
<1>2. PICK g, n, R : g = got /\ n = read /\ R = Response
    OBVIOUS
<1>3. g = got' /\ n = read' /\ R = Response'
    BY <1>2, Same
<1> QED BY <1>1, <1>2, <1>3 DEF Inv, Received

\* The client and the server only bring data, or go.
LEMMA EnvironmentKeeps ==
    ASSUME Inv, ClientLeaves \/ ServerSends \/ ServerEnds
    PROVE  Inv'
<1>1. /\ UNCHANGED <<req, res, toSrv, got, pc, read, flags, content_length, read_size, recv_len>>
      /\ cli' = "open" => cli = "open"
      /\ cli' \in {"open", "closed"} /\ srv' \in {"open", "closed", "reset"}
      /\ sent' \in sent .. Len(Response)
      /\ srv # "open" => srv' # "open" /\ sent' = sent
      /\ cli = "closed" => cli' = "closed"
    BY DEF ClientLeaves, ServerSends, ServerEnds, Inv, TypeOK
<1>2. /\ Response' = Response /\ Sizes(Response)' = Sizes(Response)
      /\ SizeOf(Response)' = SizeOf(Response) /\ ToSet(res.body)' = ToSet(res.body)
    BY <1>1, Same
<1>3. PICK m \in Nat : m = Len(Response)
    BY Facts, Sums DEF Inv, TypeOK, Known
<1>4. TypeOK'
    BY <1>1, <1>2, <1>3 DEF Inv, TypeOK, flags
<1>5. Stage'
    BY <1>1, <1>2 DEF Inv, Stage, Cut, Smaller, flags
<1>6. Counted'
    BY <1>1, <1>2, <1>3 DEF Inv, TypeOK, Counted, flags
<1>7. Received'
    BY <1>1, QuietReceived
<1> QED BY <1>4, <1>5, <1>6, <1>7 DEF Inv

\* The loop of the request reads nothing of the response.
LEMMA RequestKeeps ==
    ASSUME Inv, ForwardLine \/ RequestEnds
    PROVE  Inv'
<1>1. /\ pc = "request" /\ pc' \in {"request", "head"}
      /\ UNCHANGED <<res, cli, srv, sent, got, read, chunked, serveron, content_length,
                     read_size, recv_len>>
      /\ clienton' \in BOOLEAN /\ (clienton' = clienton \/ cli = "closed")
    BY DEF ForwardLine, RequestEnds, environment, flags, Inv, TypeOK
<1>2. req' \in Seq(Item) /\ toSrv' \in Seq(Item)
  <2>1. CASE ForwardLine
    <3>1. /\ req \in Seq(Item) /\ req # <<>> /\ toSrv \in Seq(Item)
          /\ req' = Tail(req) /\ toSrv' \in {toSrv, Append(toSrv, Head(req))}
      BY <2>1 DEF ForwardLine, Inv, TypeOK
    <3>2. Head(req) \in Item
      BY <3>1
    <3> QED BY <3>1, <3>2
  <2>2. CASE RequestEnds
    BY <2>2 DEF RequestEnds, environment, Inv, TypeOK
  <2> QED BY <2>1, <2>2
<1>3. /\ Response' = Response /\ Sizes(Response)' = Sizes(Response)
      /\ SizeOf(Response)' = SizeOf(Response) /\ ToSet(res.body)' = ToSet(res.body)
    BY <1>1, Same
<1>4. Len(res.head) \in Nat \ {0}
    BY Facts, Sums DEF Inv, TypeOK, Known
<1>5. TypeOK'
    BY <1>1, <1>2, <1>3 DEF Inv, TypeOK
<1>6. Stage'
    BY <1>1, <1>3, <1>4 DEF Inv, Stage, Cut, Smaller
<1>7. Counted'
    BY <1>1, <1>3 DEF Inv, Counted
<1>8. Received'
    BY <1>1, QuietReceived
<1> QED BY <1>5, <1>6, <1>7, <1>8 DEF Inv

\* What comes next of the response, and the sum with it.
LEMMA NextItem ==
    ASSUME Inv, Available, NEW R, NEW h, NEW m, NEW S, Known(R, h, m, S)
    PROVE  /\ read \in Nat /\ read + 1 \in 1 .. m /\ read + 1 <= sent /\ Line = R[read + 1]
           /\ Line \in Item /\ Size[Line] \in Nat
           /\ S[read] \in Nat /\ S[read + 1] = S[read] + Size[Line]
           /\ read < h => (Line = "blank" <=> read + 1 = h)
<1>1. read \in 0 .. sent /\ sent \in 0 .. m /\ res \in Responses /\ read < sent
    BY DEF Inv, TypeOK, Known, Available
<1>2. m \in Nat /\ h \in Nat
    BY <1>1, Sums
<1>3. read + 1 \in 1 .. m /\ read + 1 <= sent /\ read \in 0 .. m /\ (read < h => read + 1 \in 1 .. h)
    BY <1>1, <1>2
<1>4. Line = R[read + 1] /\ R[read + 1] \in Item
    BY <1>1, <1>3, Sums, ElementOfSeq DEF Line, Known
<1>5. S[read + 1] = S[read] + Size[R[read + 1]]
    BY <1>1, <1>2, <1>3, Sums
<1>6. S[read] \in Nat
  <2>1. S \in [0 .. m -> Nat]
    BY <1>1, Sums
  <2> QED BY <1>3, <2>1
<1>7. read < h => (R[read + 1] = "blank" <=> read + 1 = h)
    BY <1>1, <1>3, Sums
<1> QED BY <1>1, <1>3, <1>4, <1>5, <1>6, <1>7, ItemSizes

\* One item more, written as it is relayed.
LEMMA OneMore ==
    ASSUME Inv, Available, pc # "log", cli = "open", NEW x \in Item,
           x = IF Line = "tail" THEN "tailnul" ELSE Line
    PROVE  Append(got, x) \in Seq(Item) /\ Relayed(Append(got, x), read + 1)
<1>1. PICK R, h, m, S : Known(R, h, m, S)
    BY Facts
<1>2. /\ read \in Nat /\ read + 1 \in 1 .. m /\ Line = R[read + 1]
    BY <1>1, NextItem
<1>3. /\ got \in Seq(Item) /\ Len(got) = read
      /\ \A i \in 1 .. read : got[i] = IF R[i] = "tail" THEN "tailnul" ELSE R[i]
    BY <1>1 DEF Inv, TypeOK, Received, Relayed, Known
<1>4. PICK g : g = Append(got, x)
    OBVIOUS
<1>5. g \in Seq(Item) /\ Len(g) = read + 1 /\ g[read + 1] = x
      /\ \A i \in 1 .. read : g[i] = got[i]
    BY <1>3, <1>4
<1>6. ASSUME NEW i \in 1 .. read + 1 PROVE g[i] = IF R[i] = "tail" THEN "tailnul" ELSE R[i]
    BY <1>2, <1>3, <1>5
<1> QED BY <1>1, <1>4, <1>5, <1>6 DEF Relayed, Known

\* The types after a step that reads.
LEMMA ReadTypes ==
    ASSUME Inv, UNCHANGED <<req, res, cli, srv, sent, toSrv>>, read' \in 0 .. sent,
           got' \in Seq(Item), pc' \in {"head", "lines", "bytes", "log"},
           chunked' \in BOOLEAN, clienton' \in BOOLEAN, serveron' \in BOOLEAN,
           content_length' \in 0 .. Uint - 1, read_size' \in 0 .. MaxLine, recv_len' \in Nat
    PROVE  TypeOK'
<1>1. Response' = Response
    BY Same
<1> QED BY <1>1 DEF Inv, TypeOK

LEMMA SmallerType ==
    ASSUME NEW n \in Nat
    PROVE  Smaller(n) \in 0 .. MaxLine
BY RelayAssumption DEF Smaller

\* The head, line by line.
LEMMA HeadKeeps ==
    ASSUME Inv, HeadLine \/ HeadEnd \/ HeadStops
    PROVE  Inv'
<1>1. PICK R, h, m, S : Known(R, h, m, S)
    BY Facts
<1>2. /\ R \in Seq(Item) /\ h \in Nat \ {0} /\ m \in Nat /\ h <= m /\ Len(R) = m
      /\ R = Response /\ h = Len(res.head) /\ m = Len(Response) /\ S = Sizes(Response)
    BY <1>1, Sums DEF Inv, TypeOK, Known
<1>3. /\ pc = "head" /\ Available /\ read' = read + 1
      /\ UNCHANGED <<req, res, cli, srv, sent, toSrv, clienton, serveron>>
    BY DEF HeadLine, HeadEnd, HeadStops, environment, flags
<1>4. /\ read \in Nat /\ read + 1 \in 1 .. m /\ read + 1 <= sent /\ Line = R[read + 1]
      /\ Line \in Item /\ Size[Line] \in Nat /\ sent \in Nat
      /\ S[read] \in Nat /\ S[read + 1] = S[read] + Size[Line]
      /\ read < h /\ (Line = "blank" <=> read + 1 = h)
    BY <1>1, <1>2, <1>3, NextItem DEF Inv, TypeOK, Stage
<1>5. /\ Response' = R /\ Len(res.head)' = h /\ Len(Response)' = m /\ Sizes(Response)' = S
      /\ SizeOf(Response)' = SizeOf(Response) /\ ToSet(res.body)' = ToSet(res.body)
      /\ \A g, n : Relayed(g, n)' <=> Relayed(g, n)
    BY <1>2, <1>3, Same
<1>6. Line # "tail" /\ (Line = "length" => HasLength(res))
  <2>1. read + 1 \in 1 .. h
    BY <1>2, <1>4
  <2> QED BY <1>1, <1>4, <2>1 DEF Known, Shape
<1>7. recv_len <= S[read] /\ recv_len \in Nat /\ (~ clienton => cli = "closed")
    BY <1>2, <1>3 DEF Inv, TypeOK, Counted, Stage
<1>8. cli = "open" => Append(got, Line) \in Seq(Item) /\ Relayed(Append(got, Line), read + 1)
    BY <1>3, <1>4, <1>6, OneMore
<1>9. Line = "length" => /\ Announced = m - h /\ Announced \in 0 .. Uint - 1
  <2>1. HasLength(res) => Announced = m - h /\ m - h < Uint
    BY <1>1, <1>2, ResponseShape DEF Known, Shape, Inv, TypeOK
  <2> QED BY <1>2, <1>6, <2>1, RelayAssumption
<1>10. Len(res.body) = m - h
    BY <1>1 DEF Known
\* The flag after one line more.
<1>11. (chunked /\ Line # "length") <=> \A i \in 1 .. read + 1 : Response[i] # "length"
  <2>1. chunked <=> \A i \in 1 .. read : R[i] # "length"
    BY <1>2, <1>3 DEF Inv, Stage
  <2>2. \A i \in 1 .. read + 1 : i \in 1 .. read \/ i = read + 1
    BY <1>4
  <2> QED BY <1>2, <1>4, <2>1, <2>2
<1>12. CASE HeadLine
  <2>1. /\ Line # "blank" /\ pc' = pc /\ read_size' = read_size
        /\ content_length' = (IF Line = "length" THEN Announced ELSE content_length)
        /\ chunked' = (IF Line = "length" THEN FALSE ELSE chunked)
        /\ recv_len' = recv_len + Size[Line] /\ Write(<<Line>>)
    BY <1>12 DEF HeadLine, Noted
  <2>2. got' \in Seq(Item) /\ (cli = "open" => Relayed(got', read + 1))
    <3>1. got \in Seq(Item) /\ got' = IF cli = "open" THEN got \o <<Line>> ELSE got
      BY <2>1 DEF Write, Inv, TypeOK
    <3>2. got \o <<Line>> = Append(got, Line)
      BY <1>4, <3>1
    <3> QED BY <1>8, <3>1, <3>2
  <2>3. TypeOK'
    <3>1. read' \in 0 .. sent /\ recv_len' \in Nat
      BY <1>3, <1>4, <1>7, <2>1
    <3>2. content_length' \in 0 .. Uint - 1
      BY <1>9, <2>1 DEF Inv, TypeOK
    <3>3. chunked' \in BOOLEAN
      BY <2>1 DEF Inv, TypeOK
    <3> QED BY <1>3, <2>1, <2>2, <3>1, <3>2, <3>3, ReadTypes DEF Inv, TypeOK
  <2>4. Stage'
    BY <1>2, <1>3, <1>4, <1>5, <1>7, <1>9, <1>10, <1>11, <2>1 DEF Inv, Stage, Cut
  <2>5. Received'
    BY <1>3, <1>5, <2>2 DEF Received
  <2>6. Counted'
    BY <1>3, <1>4, <1>5, <1>7, <2>1 DEF Counted
  <2> QED BY <2>3, <2>4, <2>5, <2>6 DEF Inv
<1>13. CASE HeadEnd
  <2>1. /\ Line = "blank" /\ pc' = Body(chunked, serveron) /\ clienton
        /\ read_size' = Smaller(content_length)
        /\ UNCHANGED <<chunked, content_length, recv_len>> /\ Write(<<Line>>)
    BY <1>13 DEF HeadEnd, flags
  <2>2. got' \in Seq(Item) /\ (cli = "open" => Relayed(got', read + 1))
    <3>1. got \in Seq(Item) /\ got' = IF cli = "open" THEN got \o <<Line>> ELSE got
      BY <2>1 DEF Write, Inv, TypeOK
    <3>2. got \o <<Line>> = Append(got, Line)
      BY <1>4, <3>1
    <3> QED BY <1>8, <3>1, <3>2
  <2>3. /\ pc' = "lines" => chunked /\ serveron
        /\ pc' = "bytes" => ~ chunked
        /\ pc' = "log" => ~ serveron
        /\ pc' \in {"lines", "bytes", "log"}
    BY <2>1 DEF Body
  <2>4. TypeOK'
    <3>1. content_length \in Nat /\ read' \in 0 .. sent
      BY <1>3, <1>4, RelayAssumption DEF Inv, TypeOK
    <3>2. read_size' \in 0 .. MaxLine
      BY <2>1, <3>1, SmallerType
    <3> QED BY <1>3, <2>1, <2>2, <2>3, <3>1, <3>2, ReadTypes DEF Inv, TypeOK
  <2>5. Stage'
    BY <1>2, <1>3, <1>4, <1>5, <1>7, <1>10, <1>11, <2>1, <2>3 DEF Inv, Stage, Cut, Smaller
  <2>6. Received'
    BY <1>3, <1>5, <2>2 DEF Received
  <2>7. Counted'
    <3>1. recv_len' + Size["blank"] <= S[read'] /\ recv_len' <= S[read']
      BY <1>3, <1>4, <1>7, <2>1, ItemSizes
    <3> QED BY <1>5, <3>1 DEF Counted
  <2> QED BY <2>4, <2>5, <2>6, <2>7 DEF Inv
<1>14. CASE HeadStops
  <2>1. /\ ~ clienton /\ pc' = "log"
        /\ UNCHANGED <<got, chunked, content_length, read_size, recv_len>>
    BY <1>14 DEF HeadStops, flags
  <2>2. cli = "closed"
    BY <1>7, <2>1
  <2>3. TypeOK'
    <3>1. read' \in 0 .. sent
      BY <1>3, <1>4
    <3> QED BY <1>3, <2>1, <3>1, ReadTypes DEF Inv, TypeOK
  <2>4. Stage' /\ Received'
    BY <1>3, <2>1, <2>2 DEF Stage, Received
  <2>5. Counted'
    BY <1>3, <1>4, <1>5, <1>7, <2>1 DEF Counted
  <2> QED BY <2>3, <2>4, <2>5 DEF Inv
<1> QED BY <1>12, <1>13, <1>14

\* The body that is taken to be chunked.
LEMMA LineKeeps ==
    ASSUME Inv, BodyLine \/ BodyTail
    PROVE  Inv'
<1>1. PICK R, h, m, S : Known(R, h, m, S)
    BY Facts
<1>0. res \in Responses
    BY DEF Inv, TypeOK
<1>2. /\ R \in Seq(Item) /\ h \in Nat \ {0} /\ m \in Nat /\ h <= m /\ Len(R) = m
      /\ R = Response /\ h = Len(res.head) /\ m = Len(Response) /\ S = Sizes(Response)
      /\ S \in [0 .. m -> Nat] /\ SizeOf(Response) = S[m]
      /\ \A i \in 1 .. m : S[i] = S[i - 1] + Size[R[i]]
      /\ "tail" \notin ToSet(res.body) => \A i \in 1 .. m : R[i] # "tail"
  <2>1. R = Response /\ h = Len(res.head) /\ m = Len(Response) /\ S = Sizes(Response)
    BY <1>1 DEF Known
  <2>2. R \in Seq(Item) /\ h \in Nat \ {0} /\ m \in Nat /\ h <= m /\ Len(R) = m
    BY <1>1 DEF Known, Shape
  <2>3. S \in [0 .. m -> Nat] /\ SizeOf(Response) = S[m]
    BY <1>0, <1>1, Sums
  <2>4. \A i \in 1 .. m : S[i] = S[i - 1] + Size[R[i]]
    BY <1>0, <1>1, Sums
  <2>5. "tail" \notin ToSet(res.body) => \A i \in 1 .. m : R[i] # "tail"
    BY <1>0, <1>1, Sums
  <2> QED BY <2>1, <2>2, <2>3, <2>4, <2>5, Zenon
<1>3. /\ pc = "lines" /\ Available /\ read' = read + 1 /\ pc' \in {"lines", "log"}
      /\ UNCHANGED <<req, res, cli, srv, sent, toSrv, chunked, clienton, serveron,
                     content_length, read_size>>
    BY DEF BodyLine, BodyTail, environment, flags
<1>4. /\ read \in Nat /\ read + 1 \in 1 .. m /\ read + 1 <= sent /\ Line = R[read + 1]
      /\ Line \in Item /\ Size[Line] \in Nat /\ sent \in Nat
      /\ S[read] \in Nat /\ S[read + 1] = S[read] + Size[Line]
    BY <1>1, <1>3, NextItem DEF Inv, TypeOK
<1>5. /\ Response' = R /\ Len(res.head)' = h /\ Len(Response)' = m /\ Sizes(Response)' = S
      /\ SizeOf(Response)' = SizeOf(Response) /\ ToSet(res.body)' = ToSet(res.body)
      /\ \A g, n : Relayed(g, n)' <=> Relayed(g, n)
    BY <1>2, <1>3, Same
<1>6. h <= read
    BY <1>2, <1>3, <1>4 DEF Inv, Stage, Cut, Available
<1>7. /\ Line = "last" => read + 2 = m /\ R[m] = "blank"
      /\ Line # "tailnul" /\ Line # "length"
  <2>1. read + 1 \in h + 1 .. m
    BY <1>2, <1>4, <1>6
  <2>2. /\ R[read + 1] \in {"size", "data", "blank", "last", "tail", "byte"}
        /\ R[read + 1] = "last" => (read + 1) + 1 = m /\ R[m] = "blank"
    BY <1>1, <2>1 DEF Known, Shape
  <2> QED BY <1>4, <2>2
<1>8. recv_len \in Nat /\ recv_len + Size["blank"] <= S[read]
  <2>1. read < m
    BY <1>2, <1>4
  <2> QED BY <1>2, <1>3, <1>6, <2>1 DEF Inv, TypeOK, Counted
<1>9. got \in Seq(Item) /\ (cli = "open" => Relayed(got, read))
    BY <1>3 DEF Inv, TypeOK, Received
<1>10. Stage'
  <2>1. chunked <=> \A i \in 1 .. read : R[i] # "length"
    BY <1>2, <1>3 DEF Inv, Stage
  <2>2. chunked <=> \A i \in 1 .. read + 1 : R[i] # "length"
    <3>1. \A i \in 1 .. read + 1 : i \in 1 .. read \/ i = read + 1
      BY <1>4
    <3> QED BY <1>4, <1>7, <2>1, <3>1
  <2>3. chunked /\ (~ clienton => cli = "closed")
    BY <1>3 DEF Inv, Stage
  <2> QED BY <1>3, <1>4, <1>5, <1>6, <2>2, <2>3 DEF Stage
<1>11. ASSUME NEW x \in Item, x = IF Line = "tail" THEN "tailnul" ELSE Line,
              Write(<<x>>), recv_len' = recv_len + Size[x], Line # "last", pc' = pc
       PROVE  Inv'
  <2>1. Size[x] \in Nat
    BY ItemSizes
  <2>2. cli = "open" => got' = Append(got, x)
    BY <1>9, <1>11 DEF Write
  <2>3. got' \in Seq(Item) /\ (cli = "open" => Relayed(got', read + 1))
    BY <1>3, <1>9, <1>11, <2>2, OneMore DEF Write
  <2>4. read' \in 0 .. sent /\ recv_len' \in Nat
    BY <1>3, <1>4, <1>8, <1>11, <2>1
  <2>5. TypeOK'
    BY <1>3, <2>3, <2>4, ReadTypes DEF Inv, TypeOK
  <2>6. Received'
    BY <1>3, <1>5, <2>3 DEF Received
  <2>7. recv_len' <= S[read'] /\ (read + 1 < m => recv_len' + Size["blank"] <= S[read'])
    <3>1. CASE Line = "tail"
      <4>1. Size[x] = 2 /\ Size[Line] = 1 /\ Size["blank"] = 2
        BY <1>11, <3>1, ItemSizes
      <4>2. read + 1 = m
        <5>1. read + 1 \in h + 1 .. m
          BY <1>2, <1>4, <1>6
        <5> QED BY <1>1, <1>4, <3>1, <5>1 DEF Known, Shape
      <4> QED BY <1>3, <1>4, <1>8, <1>11, <2>4, <4>1, <4>2
    <3>2. CASE Line # "tail"
      <4>1. x = Line
        BY <1>11, <3>2
      <4>2. Size["blank"] = 2
        BY ItemSizes
      <4> QED BY <1>3, <1>4, <1>8, <1>11, <2>4, <4>1, <4>2
    <3> QED BY <3>1, <3>2
  <2>8. Counted'
    BY <1>3, <1>5, <2>7 DEF Counted
  <2> QED BY <1>10, <2>5, <2>6, <2>8 DEF Inv
<1>12. CASE BodyTail
  <2>1. /\ Line = "tail" /\ Write(<<"tailnul">>) /\ recv_len' = recv_len + Size["tailnul"]
        /\ pc' = pc
    BY <1>12 DEF BodyTail
  <2> QED BY <1>11, <2>1, ItemSizes
<1>13. CASE BodyLine /\ Line # "last"
  <2>1. /\ Line # "tail" /\ Write(<<Line>>) /\ recv_len' = recv_len + Size[Line] /\ pc' = pc
    BY <1>13 DEF BodyLine
  <2> QED BY <1>4, <1>11, <1>13, <2>1
\* The last chunk is written twice and counted with 2 more.
<1>14. CASE BodyLine /\ Line = "last"
  <2>1. /\ Write(<<Line, Line>>) /\ recv_len' = recv_len + Size[Line] + 2 /\ pc' = "log"
    BY <1>14 DEF BodyLine
  <2>2. PICK g : g = Append(got, Line)
    OBVIOUS
  <2>3. g \in Seq(Item) /\ (cli = "open" => Relayed(g, read + 1))
    BY <1>3, <1>4, <1>9, <1>14, <2>2, OneMore
  <2>4. got \o <<Line, Line>> = Append(g, Line)
    BY <1>4, <1>9, <2>2
  <2>5. got' \in Seq(Item) /\ (cli = "open" => got' = Append(g, "last"))
    BY <1>4, <1>9, <1>14, <2>1, <2>3, <2>4 DEF Write
  <2>6. read' \in 0 .. sent /\ recv_len' \in Nat
    BY <1>3, <1>4, <1>8, <2>1
  <2>7. TypeOK'
    BY <1>3, <2>5, <2>6, ReadTypes DEF Inv, TypeOK
  <2>8. Received'
    BY <1>3, <1>4, <1>5, <1>14, <2>1, <2>3, <2>5 DEF Received
  <2>9. recv_len' <= S[read']
    <3>1. Size[Line] = 3 /\ Size["blank"] = 2
      BY <1>14, ItemSizes
    <3> QED BY <1>3, <1>4, <1>8, <2>1, <3>1
  <2>10. Counted'
    BY <1>3, <1>5, <2>1, <2>9 DEF Counted
  <2> QED BY <1>10, <2>7, <2>8, <2>10 DEF Inv
<1> QED BY <1>12, <1>13, <1>14

\* The bytes of one turn, behind what the client has.
LEMMA BytesRelayed ==
    ASSUME Inv, Relayed(got, read), NEW n \in Nat \ {0}, read + n <= Len(Response),
           \A i \in read + 1 .. read + n : Response[i] = "byte"
    PROVE  /\ got \o SubSeq(Response, read + 1, read + n) \in Seq(Item)
           /\ Relayed(got \o SubSeq(Response, read + 1, read + n), read + n)
<1>1. PICK R, h, m, S : Known(R, h, m, S)
    BY Facts
<1>2. res \in Responses /\ got \in Seq(Item) /\ R = Response
    BY <1>1 DEF Inv, TypeOK, Known
<1>3. R \in Seq(Item) /\ m \in Nat /\ Len(R) = m /\ m = Len(Response)
    BY <1>1 DEF Known, Shape
<1>4. PICK a \in Nat, b \in Nat : a = read /\ b = read + n
    BY <1>3 DEF Inv, TypeOK
<1>5. a < b /\ b - a = n /\ b <= m
    BY <1>3, <1>4
<1>6. PICK q : q = SubSeq(R, a + 1, b)
    OBVIOUS
<1>7. q \in Seq(Item) /\ Len(q) = b - a /\ \A i \in 1 .. b - a : q[i] = R[a + i]
  <2>1. \A i \in a + 1 .. b : R[i] \in Item
    BY <1>3, <1>4, <1>5, ElementOfSeq
  <2>2. a + 1 \in Int /\ b \in Int
    BY <1>4
  <2>3. /\ q \in Seq(Item)
        /\ Len(q) = IF a + 1 <= b THEN b - (a + 1) + 1 ELSE 0
        /\ \A i \in 1 .. b - (a + 1) + 1 : q[i] = R[a + 1 + i - 1]
    BY ONLY <1>6, <2>1, <2>2, SubSeqProperties
  <2>4. b - (a + 1) + 1 = b - a /\ a + 1 <= b
    BY <1>4, <1>5
  <2>5. ASSUME NEW i \in 1 .. b - a PROVE q[i] = R[a + i]
    <3>1. q[i] = R[a + 1 + i - 1] /\ a + 1 + i - 1 = a + i
      BY <1>4, <2>3, <2>4
    <3> QED BY <3>1
  <2> QED BY <2>3, <2>4, <2>5
<1>8. Len(got) = a /\ \A i \in 1 .. a : got[i] = IF R[i] = "tail" THEN "tailnul" ELSE R[i]
    BY <1>2, <1>4 DEF Relayed
<1>9. PICK g : g = got \o q
    OBVIOUS
<1>10. /\ g \in Seq(Item) /\ Len(g) = a + (b - a)
       /\ \A i \in 1 .. a + (b - a) : g[i] = IF i <= a THEN got[i] ELSE q[i - a]
  <2>1. PICK c : c = Len(q) /\ c = b - a
    BY <1>7
  <2>2. got \in Seq(Item) /\ q \in Seq(Item) /\ Len(got) = a /\ Len(q) = c
    BY <1>2, <1>7, <1>8, <2>1
  <2>3. /\ g \in Seq(Item) /\ Len(g) = a + c
        /\ \A i \in 1 .. a + c : g[i] = IF i <= a THEN got[i] ELSE q[i - a]
    BY ONLY <1>9, <2>2, ConcatProperties
  <2> QED BY <2>1, <2>3
<1>11. a + (b - a) = b
    BY <1>4
<1>12. ASSUME NEW i \in 1 .. b
       PROVE  g[i] = IF R[i] = "tail" THEN "tailnul" ELSE R[i]
  <2>1. CASE i \in 1 .. a
    BY <1>4, <1>8, <1>10, <1>11, <2>1
  <2>2. CASE i \notin 1 .. a
    <3>1. i - a \in 1 .. b - a /\ a + (i - a) = i /\ ~ (i <= a) /\ i \in a + 1 .. b
      BY <1>4, <2>2
    <3>2. g[i] = q[i - a]
      BY <1>10, <1>11, <3>1
    <3>3. q[i - a] = R[i]
      BY <1>7, <3>1
    <3>4. R[i] = "byte"
      BY <1>2, <1>4, <3>1
    <3> QED BY <3>2, <3>3, <3>4
  <2> QED BY <2>1, <2>2
<1>13. g = got \o SubSeq(Response, read + 1, read + n)
    BY <1>2, <1>4, <1>6, <1>9
<1>14. Relayed(g, b)
    BY <1>2, <1>10, <1>11, <1>12 DEF Relayed
<1> QED BY <1>4, <1>10, <1>13, <1>14

\* What one read of a body with a length brings.
LEMMA NextBytes ==
    ASSUME Inv, Fetches, NEW R, NEW h, NEW m, NEW S, Known(R, h, m, S)
    PROVE  /\ Fetched \in Nat \ {0} /\ read + Fetched <= sent /\ h <= read
           /\ (content_length - Fetched) % Uint = m - (read + Fetched)
           /\ (content_length - Fetched) % Uint \in 0 .. Uint - 1
           /\ \A i \in read + 1 .. read + Fetched : R[i] = "byte"
           /\ S[read + Fetched] = S[read] + Fetched
<1>0. res \in Responses /\ R = Response /\ h = Len(res.head) /\ m = Len(Response)
      /\ S = Sizes(Response)
    BY DEF Inv, TypeOK, Known
<1>2. /\ R \in Seq(Item) /\ h \in Nat \ {0} /\ m \in Nat /\ h <= m /\ Len(R) = m
      /\ Shape(R, h, m, HasLength(res))
    BY DEF Known, Shape
<1>4. PICK n : n = Fetched
    OBVIOUS
<1>5. pc = "bytes" /\ read_size > 0 /\ (n = read_size \/ n > 0)
    BY <1>4 DEF Fetches
<1>6. /\ read \in Nat /\ sent \in Nat /\ read <= sent /\ sent <= m
      /\ content_length \in 0 .. Uint - 1 /\ read_size \in Nat
      /\ Uint \in Nat \ {0} /\ MaxLine \in Nat \ {0}
    BY <1>0, <1>2, RelayAssumption DEF Inv, TypeOK
<1>7. n \in Nat \ {0} /\ n <= read_size /\ read + n <= sent /\ n <= sent - read
    BY <1>4, <1>5, <1>6 DEF Fetched
<1>8. h <= read
    BY <1>0, <1>2, <1>5, <1>6, <1>7 DEF Inv, Stage, Cut
<1>9. content_length = m - read /\ read_size = Smaller(content_length) /\ ~ chunked
    BY <1>0, <1>5, <1>8 DEF Inv, Stage
<1>10. n <= content_length
    BY <1>6, <1>7, <1>9 DEF Smaller
<1>11. /\ (content_length - n) % Uint = m - (read + n)
       /\ (content_length - n) % Uint \in 0 .. Uint - 1
  <2>1. content_length - n \in 0 .. Uint - 1
    BY <1>6, <1>7, <1>10
  <2>2. (content_length - n) % Uint = content_length - n
    BY <1>6, <2>1
  <2> QED BY <1>2, <1>6, <1>7, <1>9, <2>1, <2>2
<1>12. \A i \in read + 1 .. read + n : R[i] = "byte"
  <2>1. PICK i \in 1 .. read : R[i] = "length"
    BY <1>0, <1>5, <1>9 DEF Inv, Stage
  <2>2. i \in 1 .. m
    BY <1>2, <1>6
  <2>3. HasLength(res)
    BY <1>2, <2>1, <2>2, Kinds
  <2>4. \A j \in read + 1 .. read + n : j \in h + 1 .. m
    BY <1>2, <1>6, <1>7, <1>8
  <2> QED BY <1>2, <2>3, <2>4 DEF Shape
<1>13. S[read + n] = S[read] + n
  <2>1. /\ read \in Nat /\ n \in Nat /\ read + n <= Len(Response)
        /\ \A i \in read + 1 .. read + n : Response[i] = "byte"
    BY <1>0, <1>2, <1>6, <1>7, <1>12
  <2>2. Sizes(Response)[read + n] = Sizes(Response)[read] + n
    BY <1>0, <2>1, BytesCount
  <2> QED BY <1>0, <2>2
<1> QED BY <1>4, <1>7, <1>8, <1>11, <1>12, <1>13

\* The body that has a length, turn by turn.
LEMMA BytesKeep ==
    ASSUME Inv, BodyBytes
    PROVE  Inv'
<1>1. PICK R, h, m, S : Known(R, h, m, S)
    BY Facts
<1>0. res \in Responses /\ R = Response /\ h = Len(res.head) /\ m = Len(Response)
      /\ S = Sizes(Response)
    BY <1>1 DEF Inv, TypeOK, Known
<1>2. /\ R \in Seq(Item) /\ h \in Nat \ {0} /\ m \in Nat /\ h <= m /\ Len(R) = m
      /\ Shape(R, h, m, HasLength(res))
    BY <1>1 DEF Known, Shape
<1>3. S \in [0 .. m -> Nat]
    BY <1>0, <1>1, Sums
<1>4. PICK n : n = Fetched
    OBVIOUS
<1>5. /\ pc = "bytes" /\ Fetches
      /\ content_length' = (content_length - n) % Uint
      /\ recv_len' = recv_len + n
      /\ Write(SubSeq(Response, read + 1, read + n))
      /\ read' = read + n
      /\ pc' = (IF content_length' = 0 THEN "log" ELSE pc)
      /\ read_size' = Smaller(content_length')
      /\ UNCHANGED <<req, res, cli, srv, sent, toSrv, chunked, clienton, serveron>>
    BY <1>4 DEF BodyBytes, Fetches, environment, flags
<1>6. /\ read \in Nat /\ sent \in Nat /\ read <= sent /\ sent <= m
      /\ content_length \in 0 .. Uint - 1 /\ recv_len \in Nat
      /\ Uint \in Nat \ {0} /\ MaxLine \in Nat \ {0} /\ got \in Seq(Item)
    BY <1>0, <1>2, RelayAssumption DEF Inv, TypeOK
<1>7. n \in Nat \ {0} /\ read + n <= sent
    BY <1>1, <1>4, <1>5, NextBytes
<1>8. h <= read
    BY <1>1, <1>5, NextBytes
<1>9. ~ chunked
    BY <1>5 DEF Inv, Stage
<1>11. content_length' = m - (read + n) /\ content_length' \in 0 .. Uint - 1
    BY <1>1, <1>4, <1>5, NextBytes
<1>12. \A i \in read + 1 .. read + n : R[i] = "byte"
    BY <1>1, <1>4, <1>5, NextBytes
<1>13. got' \in Seq(Item) /\ (cli = "open" => Relayed(got', read + n))
  <2>1. CASE cli = "open"
    <3>1. Relayed(got, read)
      BY <1>5, <2>1 DEF Inv, Received
    <3>2. got' = got \o SubSeq(Response, read + 1, read + n)
      BY <1>5, <2>1 DEF Write
    <3>3. read + n <= Len(Response) /\ \A i \in read + 1 .. read + n : Response[i] = "byte"
      BY <1>0, <1>2, <1>6, <1>7, <1>12
    <3> QED BY <1>7, <3>1, <3>2, <3>3, BytesRelayed
  <2>2. CASE cli # "open"
    BY <1>5, <1>6, <2>2 DEF Write
  <2> QED BY <2>1, <2>2
<1>14. S[read + n] = S[read] + n
    BY <1>1, <1>4, <1>5, NextBytes
<1>15. /\ Response' = R /\ Len(res.head)' = h /\ Len(Response)' = m /\ Sizes(Response)' = S
       /\ SizeOf(Response)' = SizeOf(Response) /\ ToSet(res.body)' = ToSet(res.body)
       /\ \A g, k : Relayed(g, k)' <=> Relayed(g, k)
    BY <1>0, <1>5, Same
<1>16. read' \in 0 .. sent /\ recv_len' \in Nat /\ read_size' \in 0 .. MaxLine
  <2>1. content_length' \in Nat
    BY <1>6, <1>11
  <2>2. Smaller(content_length') \in 0 .. MaxLine
    BY <1>6, <2>1 DEF Smaller
  <2> QED BY <1>5, <1>6, <1>7, <2>2
<1>17. pc' \in {"bytes", "log"} /\ (pc' = "log" <=> read + n = m)
    BY <1>2, <1>5, <1>6, <1>7, <1>11
<1>18. TypeOK'
    BY <1>5, <1>11, <1>13, <1>16, <1>17, ReadTypes DEF Inv, TypeOK
<1>19. Stage'
  <2>1. PICK i \in 1 .. read : R[i] = "length"
    BY <1>0, <1>5, <1>9 DEF Inv, Stage
  <2>2. i \in 1 .. read + n
    BY <1>6, <1>7
  <2>3. ~ chunked' /\ ~ (\A j \in 1 .. read' : R[j] # "length")
    BY <1>5, <1>9, <2>1, <2>2
  <2>4. read' >= h /\ content_length' = m - read'
    BY <1>2, <1>5, <1>6, <1>7, <1>8, <1>11
  <2>5. Smaller(content_length)' = Smaller(content_length')
    BY DEF Smaller
  <2>6. ~ (read' < h) /\ (~ clienton => cli = "closed")
    BY <1>2, <1>16, <1>6, <2>4 DEF Inv, Stage
  <2> QED BY <1>5, <1>15, <1>17, <2>3, <2>4, <2>5, <2>6 DEF Stage
<1>20. Received'
    BY <1>5, <1>13, <1>15 DEF Received
<1>21. Counted'
  <2>1. recv_len <= S[read]
    BY <1>0 DEF Inv, Counted
  <2>2. S[read] \in Nat
    BY <1>2, <1>3, <1>6
  <2>3. recv_len' <= S[read + n]
    BY <1>5, <1>6, <1>7, <1>14, <2>1, <2>2
  <2> QED BY <1>5, <1>15, <1>17, <2>3 DEF Counted
<1> QED BY <1>18, <1>19, <1>20, <1>21 DEF Inv

\* A client that is found to be gone, in each of the loops.
LEMMA GoneKeeps ==
    ASSUME Inv, ClientGone
    PROVE  Inv'
<1>1. PICK R, h, m, S : Known(R, h, m, S)
    BY Facts
<1>2. /\ res \in Responses /\ R = Response /\ h = Len(res.head) /\ m = Len(Response)
      /\ S = Sizes(Response)
    BY <1>1 DEF Inv, TypeOK, Known
<1>3. /\ UNCHANGED <<req, res, cli, srv, sent, toSrv, got, serveron, read_size>>
      /\ cli = "closed" /\ pc' = "log" /\ clienton' \in BOOLEAN
    BY DEF ClientGone, environment
<1>4. /\ Response' = R /\ Sizes(Response)' = S
    BY <1>2, <1>3, Same
<1>5. /\ read \in Nat /\ sent \in Nat /\ recv_len \in Nat /\ recv_len <= S[read]
      /\ content_length \in 0 .. Uint - 1 /\ chunked \in BOOLEAN /\ Uint \in Nat
    BY <1>2, RelayAssumption, Sums, <1>1 DEF Inv, TypeOK, Counted
<1>6. /\ read' \in 0 .. sent /\ recv_len' \in Nat /\ recv_len' <= S[read']
      /\ content_length' \in 0 .. Uint - 1 /\ chunked' \in BOOLEAN
  <2>1. CASE GoneInHead
    <3>1. /\ read' = read + 1 /\ read + 1 <= sent /\ S[read + 1] = S[read] + Size[Line]
          /\ Size[Line] \in Nat /\ S[read] \in Nat /\ recv_len' = recv_len
      BY <1>1, <2>1, NextItem DEF GoneInHead
    <3>2. Line = "length" => Announced \in 0 .. Uint - 1
      <4>1. pc = "head" /\ Available /\ read < h /\ h <= m
        BY <1>1, <1>2, <2>1, Sums DEF GoneInHead, Inv, Stage
      <4>2. Line = R[read + 1] /\ read + 1 \in 1 .. m
        BY <1>1, <4>1, NextItem
      <4>3. Line = "length" => HasLength(res)
        <5>1. h \in Nat /\ m \in Nat /\ read + 1 \in 1 .. h
          BY <1>1, <1>2, <1>5, <4>1, Sums
        <5> QED BY <1>1, <4>2, <5>1 DEF Known, Shape
      <4>4. HasLength(res) => Announced = m - h /\ m - h < Uint
        BY <1>1, <1>2, ResponseShape DEF Known, Shape
      <4>5. m \in Nat /\ h \in Nat /\ h <= m
        BY <1>1, <1>2, Sums
      <4> QED BY <1>5, <4>3, <4>4, <4>5
    <3>3. content_length' \in 0 .. Uint - 1 /\ chunked' \in BOOLEAN
      BY <1>5, <2>1, <3>2 DEF GoneInHead, Noted
    <3> QED BY <1>5, <3>1, <3>3
  <2>2. CASE GoneInLines
    <3>1. /\ read' = read + 1 /\ read + 1 <= sent /\ S[read + 1] = S[read] + Size[Line]
          /\ Size[Line] \in Nat /\ S[read] \in Nat
      BY <1>1, <2>2, NextItem DEF GoneInLines
    <3>2. /\ recv_len' = recv_len \/ recv_len' = recv_len + Size[Line]
          /\ UNCHANGED <<chunked, content_length>>
      BY <2>2 DEF GoneInLines
    <3> QED BY <1>5, <3>1, <3>2
  <2>3. CASE GoneInBytes
    <3>1. PICK n : n = Fetched
      OBVIOUS
    <3>2. /\ n \in Nat /\ read + n <= sent /\ S[read + n] = S[read] + n
          /\ (content_length - n) % Uint \in 0 .. Uint - 1
      BY <1>1, <2>3, <3>1, NextBytes DEF GoneInBytes
    <3>3. /\ content_length' = (content_length - n) % Uint /\ chunked' = chunked
          /\ recv_len' = recv_len + n /\ read' = read + n
      BY <2>3, <3>1 DEF GoneInBytes
    <3>4. S[read] \in Nat
      <4>1. S \in [0 .. m -> Nat] /\ m \in Nat /\ sent <= m
        BY <1>1, <1>2, Sums DEF Inv, TypeOK
      <4> QED BY <1>5, <3>2, <4>1
    <3> QED BY <1>5, <3>2, <3>3, <3>4
  <2> QED BY <2>1, <2>2, <2>3 DEF ClientGone
<1>7. TypeOK'
    BY <1>3, <1>6, ReadTypes DEF Inv, TypeOK
<1>8. Stage' /\ Received'
    BY <1>3 DEF Stage, Received
<1>9. Counted'
    BY <1>3, <1>4, <1>6 DEF Counted
<1> QED BY <1>7, <1>8, <1>9 DEF Inv

\* A read that returns nothing, and one that fails.
LEMMA StopsKeep ==
    ASSUME Inv, ReadsNothing \/ ReadFails
    PROVE  Inv'
<1>1. PICK R, h, m, S : Known(R, h, m, S)
    BY Facts
<1>2. /\ res \in Responses /\ R = Response /\ h = Len(res.head) /\ m = Len(Response)
      /\ S = Sizes(Response)
    BY <1>1 DEF Inv, TypeOK, Known
<1>3. h \in Nat \ {0} /\ m \in Nat /\ h <= m
    BY <1>1 DEF Known, Shape
<1>5. /\ UNCHANGED <<req, res, cli, srv, sent, toSrv, got, read, chunked, content_length, recv_len>>
      /\ pc \in {"head", "lines", "bytes"} /\ pc' \in {"lines", "bytes", "log"}
      /\ clienton' \in BOOLEAN /\ serveron' \in BOOLEAN
    BY DEF ReadsNothing, ReadFails, environment, flags, Inv, TypeOK, Body
<1>6. /\ Response' = R /\ Len(res.head)' = h /\ Len(Response)' = m /\ Sizes(Response)' = S
      /\ SizeOf(Response)' = SizeOf(Response) /\ ToSet(res.body)' = ToSet(res.body)
    BY <1>2, <1>5, Same
<1>7. /\ read \in Nat /\ sent \in Nat /\ read <= sent /\ sent <= m
      /\ content_length \in Nat /\ MaxLine \in Nat \ {0}
    BY <1>2, <1>3, RelayAssumption DEF Inv, TypeOK
<1>8. read_size' \in 0 .. MaxLine
  <2>1. Smaller(content_length) \in 0 .. MaxLine
    BY <1>7, SmallerType
  <2> QED BY <2>1 DEF ReadsNothing, ReadFails, Inv, TypeOK
<1>9. TypeOK'
  <2>1. read' \in 0 .. sent /\ got' \in Seq(Item) /\ recv_len' \in Nat
        /\ content_length' \in 0 .. Uint - 1 /\ chunked' \in BOOLEAN
    BY <1>5, <1>7 DEF Inv, TypeOK
  <2> QED BY <1>5, <1>8, <2>1, ReadTypes
<1>10. Received'
    BY <1>5, QuietReceived
<1>11. CASE ReadsNothing
  <2>1. /\ pc' = (IF pc = "head" THEN Body(chunked, clienton) ELSE "log")
        /\ read_size' = (IF pc = "head" THEN Smaller(content_length) ELSE read_size)
        /\ clienton' = clienton /\ serveron' = serveron
        /\ \/ pc = "bytes" /\ read_size = 0
           \/ srv = "closed" /\ read = sent
    BY <1>7, <1>11 DEF ReadsNothing, flags, Available
  <2>2. Smaller(content_length)' = Smaller(content_length)
    BY <1>5 DEF Smaller
  <2>3. CASE pc = "head"
    <3>1. /\ srv = "closed" /\ read = sent /\ read < h
          /\ pc' = "lines" => chunked
          /\ pc' = "bytes" => ~ chunked
          /\ chunked <=> \A i \in 1 .. read : R[i] # "length"
          /\ ~ clienton => cli = "closed"
      BY <1>2, <2>1, <2>3 DEF Inv, Stage, Body
    <3>2. Stage'
      BY <1>3, <1>5, <1>6, <1>7, <2>1, <2>2, <2>3, <3>1 DEF Stage, Cut
    <3>3. Counted'
      <4>1. read < h
        BY <3>1
      <4>2. recv_len <= S[read]
        BY <1>2 DEF Inv, Counted
      <4> QED BY <1>3, <1>5, <1>6, <1>7, <4>1, <4>2 DEF Counted
    <3> QED BY <1>9, <1>10, <3>2, <3>3 DEF Inv
  <2>4. CASE pc # "head"
    <3>1. pc' = "log" /\ pc \in {"lines", "bytes"}
      BY <1>5, <2>1, <2>4
    <3>2. Stage'
      BY <1>5, <2>1, <3>1 DEF Inv, Stage
    <3>3. Counted'
      BY <1>2, <1>5, <1>6, <3>1 DEF Inv, Counted
    <3> QED BY <1>9, <1>10, <3>2, <3>3 DEF Inv
  <2> QED BY <2>3, <2>4
<1>12. CASE ReadFails
  <2>1. pc' = "log" /\ clienton' = clienton
    BY <1>12 DEF ReadFails
  <2>2. Stage' /\ Counted'
    BY <1>2, <1>5, <1>6, <2>1 DEF Inv, Stage, Counted
  <2> QED BY <1>9, <1>10, <2>2 DEF Inv
<1> QED BY <1>11, <1>12

-----------------------------------------------------------------------------
(* The theorems.                                                            *)

LEMMA InitInv == Init => Inv
<1> SUFFICES ASSUME Init PROVE Inv
    OBVIOUS
<1>1. PICK R, h, m, S : Known(R, h, m, S)
    BY ResponseShape DEF Init, Known
<1>2. res \in Responses /\ h = Len(res.head) /\ m = Len(Response) /\ S = Sizes(Response)
    BY <1>1 DEF Init, Known
<1>3. h \in Nat \ {0} /\ m \in Nat
    BY <1>1 DEF Known, Shape
<1>4. S[0] = 0
    BY <1>1, <1>2, Sums
<1>5. TypeOK
    BY <1>2, <1>3, RelayAssumption DEF Init, TypeOK
<1>6. Stage
    BY <1>2, <1>3 DEF Init, Stage
<1>7. Received
    BY DEF Init, Received, Relayed
<1>8. Counted
    BY <1>2, <1>4 DEF Init, Counted
<1> QED BY <1>5, <1>6, <1>7, <1>8 DEF Inv

LEMMA StepInv == Inv /\ [Next]_vars => Inv'
<1> SUFFICES ASSUME Inv, [Next]_vars PROVE Inv'
    OBVIOUS
<1>1. CASE UNCHANGED vars
  <2>1. /\ UNCHANGED <<req, res, cli, srv, sent, toSrv, got, pc, read, chunked, clienton,
                       serveron, content_length, read_size, recv_len>>
    BY <1>1 DEF vars
  <2>2. /\ Response' = Response /\ Sizes(Response)' = Sizes(Response)
        /\ SizeOf(Response)' = SizeOf(Response) /\ ToSet(res.body)' = ToSet(res.body)
    BY <2>1, Same
  <2>3. TypeOK'
    BY <2>1, <2>2 DEF Inv, TypeOK
  <2>4. Stage'
    BY <2>1, <2>2 DEF Inv, Stage, Cut, Smaller
  <2>5. Received'
    BY <2>1, QuietReceived
  <2>6. Counted'
    BY <2>1, <2>2 DEF Inv, Counted
  <2> QED BY <2>3, <2>4, <2>5, <2>6 DEF Inv
<1>2. CASE ForwardLine \/ RequestEnds
    BY <1>2, RequestKeeps
<1>3. CASE HeadLine \/ HeadEnd \/ HeadStops
    BY <1>3, HeadKeeps
<1>4. CASE BodyLine \/ BodyTail
    BY <1>4, LineKeeps
<1>5. CASE BodyBytes
    BY <1>5, BytesKeep
<1>6. CASE ReadsNothing \/ ReadFails
    BY <1>6, StopsKeep
<1>8. CASE ClientGone
    BY <1>8, GoneKeeps
<1>7. CASE ClientLeaves \/ ServerSends \/ ServerEnds
    BY <1>7, EnvironmentKeeps
<1> QED BY <1>1, <1>2, <1>3, <1>4, <1>5, <1>6, <1>7, <1>8 DEF Next, Doit

\* The invariant of the relay, for every request, every truthful response and every
\* moment at which the client and the server leave.
THEOREM RelayInvariant == Spec => []Inv
BY InitInv, StepInv, PTL DEF Spec

\* Every variable of doit keeps its type: in particular nothing is read that the server
\* has not sent, and no read asks for more than MAXLINE bytes.
THEOREM RelayTypes == Spec => []TypeOK
<1>1. Inv => TypeOK
    BY DEF Inv
<1> QED BY <1>1, RelayInvariant, PTL

\* content_length is what is left of the announced body, however wide an unsigned int
\* and however the body was cut into reads: the subtraction of BodyBytes never wraps.
THEOREM NeverWraps == Spec => []NoUnderflow
BY StageMeans, RelayInvariant, PTL

\* A client that stays has what was read, in order, with nothing left out; only the
\* last chunk comes twice and an unfinished last line with a NUL byte.
THEOREM Forwards == Spec => []ForwardedButEnd
BY ReceivedMeans, RelayInvariant, PTL

\* The size that goes to the log never claims a byte that was not read from the server,
\* for a body of any form, though some of it is written twice or with a NUL byte more.
THEOREM CountsNoMore == Spec => []NeverOvercounts
BY CountedMeans, RelayInvariant, PTL
=============================================================================
