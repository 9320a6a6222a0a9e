----------------------------- MODULE RioProofs -----------------------------
(* The Rio package of csapp.c reads a stream, whatever the length of the   *)
(* stream, the size of its buffer and that of the user's, and whatever     *)
(* pieces read() brings: the proof that Rio implements Stream.             *)
EXTENDS Rio, TLAPS

\* A call goes on only while there is room for more: rio_readlineb keeps a place for
\* the NUL byte.
Room ==
    /\ pc = "line" => want = MaxLine /\ n <= MaxLine - 2
    /\ pc = "bytes" => want \in 1 .. MaxLine /\ n < want
    /\ pc = "write" => written <= want
    /\ InCall => n <= HandedOut
    /\ HandedOut >= 0

\* rio_readlineb goes on only while it has met no newline.
NoNewline ==
    pc = "line" => \A i \in 0 .. n - 1 : HandedOut - n + 1 + i \notin newlines

Inv == TypeOK /\ InOrder /\ Room /\ NoNewline

LEMMA InvInit == Init => Inv
<1> SUFFICES ASSUME Init PROVE Inv
    OBVIOUS
<1>1. gone \in BOOLEAN /\ skipped \in BOOLEAN
    BY DEF Init
<1>2. TypeOK
    BY <1>1, RioAssumption DEF Init, TypeOK, Byte
<1>3. InOrder /\ Room /\ NoNewline
    BY RioAssumption DEF Init, InOrder, Room, NoNewline, InCall, HandedOut, Unread
<1> QED BY <1>2, <1>3 DEF Inv

\* What the invariant says of the numbers alone.
Numbers ==
    /\ Length \in Nat /\ BufSize \in Nat \ {0} /\ MaxLine \in Nat \ {0, 1}
    /\ fetched \in 0 .. Length /\ rio_cnt \in -1 .. BufSize
    /\ rio_bufptr \in 0 .. BufSize /\ rio_bufptr + rio_cnt <= BufSize
    /\ n \in 0 .. MaxLine /\ want \in 0 .. MaxLine /\ ret \in -1 .. MaxLine
    /\ written \in 0 .. MaxLine
    /\ Unread \in 0 .. BufSize /\ HandedOut \in Nat
    /\ rio_cnt <= 0 => Unread = 0 /\ HandedOut = fetched
    /\ rio_cnt > 0 => Unread = rio_cnt /\ HandedOut = fetched - rio_cnt

LEMMA InvNumbers == Inv => Numbers
    BY RioAssumption DEF Inv, TypeOK, InOrder, Room, Unread, HandedOut, Byte, Numbers

LEMMA FillKeeps == Inv /\ Fill => Inv'
<1> SUFFICES ASSUME Inv, Fill PROVE Inv'
    OBVIOUS
<1>0. Numbers
    BY InvNumbers
<1>1. PICK k \in 1 .. BufSize : fetched + k <= Length /\ Refill(k)
    BY DEF Fill
<1>2. /\ rio_cnt <= 0 /\ InCall
      /\ UNCHANGED <<newlines, usrbuf, n, want, ret, loop, pc, written, gone, out, skipped>>
    BY DEF Fill, sink
<1>3. /\ fetched' = fetched + k /\ rio_cnt' = k /\ rio_bufptr' = 0
      /\ rio_buf' = [i \in 0 .. BufSize - 1 |-> IF i < k THEN fetched + 1 + i ELSE rio_buf[i]]
    BY <1>1 DEF Refill
<1>4. Unread' = k /\ HandedOut' = HandedOut /\ HandedOut = fetched
    BY <1>0, <1>2, <1>3 DEF Numbers, Unread, HandedOut
<1>5. TypeOK'
  <2>1. rio_buf' \in [0 .. BufSize - 1 -> Byte]
    BY <1>0, <1>1, <1>3 DEF Inv, TypeOK, Byte, Numbers
  <2>2. fetched' \in Byte /\ rio_bufptr' \in 0 .. BufSize /\ rio_cnt' \in -1 .. BufSize
    BY <1>0, <1>1, <1>3 DEF Byte, Numbers
  <2> QED BY <1>2, <2>1, <2>2 DEF Inv, TypeOK
<1>6. InOrder'
  <2>1. rio_bufptr' + Unread' <= BufSize
    BY <1>0, <1>3, <1>4 DEF Numbers
  <2>2. \A i \in 0 .. k - 1 : rio_buf'[0 + i] = fetched + 1 + i
    BY <1>0, <1>1, <1>3 DEF Numbers
  <2>3. InCall' /\ \A i \in 0 .. n' - 1 : usrbuf'[i] = HandedOut' - n' + 1 + i
    BY <1>2, <1>4 DEF Inv, InOrder, InCall
  <2> QED BY <1>3, <1>4, <2>1, <2>2, <2>3 DEF InOrder
<1>7. Room' /\ NoNewline'
    BY <1>2, <1>4 DEF Inv, Room, NoNewline, InCall
<1> QED BY <1>5, <1>6, <1>7 DEF Inv

LEMMA NextByte == Inv /\ rio_cnt > 0 => rio_buf[rio_bufptr] = HandedOut + 1
<1> SUFFICES ASSUME Inv, rio_cnt > 0 PROVE rio_buf[rio_bufptr] = HandedOut + 1
    OBVIOUS
<1>1. Numbers
    BY InvNumbers
<1>2. rio_buf[rio_bufptr + 0] = HandedOut + 1 + 0
    BY <1>1 DEF Inv, InOrder, Numbers
<1> QED BY <1>1, <1>2 DEF Numbers

\* The calls that fail or end leave nothing collected.
LEMMA EndKeeps == Inv /\ (Interrupted \/ EndOfStream \/ ReadFails) => Inv'
<1> SUFFICES ASSUME Inv, Interrupted \/ EndOfStream \/ ReadFails PROVE Inv'
    OBVIOUS
<1>0. Numbers
    BY InvNumbers
<1>1. /\ rio_cnt <= 0 /\ rio_cnt' \in {-1, 0} /\ InCall
      /\ UNCHANGED <<newlines, fetched, rio_buf, rio_bufptr, n, want, loop, written, gone, out, skipped>>
  <2>1. CASE Interrupted
    BY <1>0, <2>1 DEF Interrupted, sink, Numbers
  <2>2. CASE EndOfStream
    BY <2>2 DEF EndOfStream, sink
  <2>3. CASE ReadFails
    BY <2>3 DEF ReadFails, sink
  <2> QED BY <2>1, <2>2, <2>3
<1>2. Unread' = 0 /\ HandedOut' = HandedOut
  <2>1. ~ rio_cnt' > 0
    BY <1>1
  <2>2. Unread' = 0
    BY <2>1 DEF Unread
  <2> QED BY <1>0, <1>1, <2>2 DEF HandedOut, Numbers
<1>3. (pc' = pc /\ usrbuf' = usrbuf /\ ret' = ret) \/ pc' = "back"
    BY DEF Interrupted, EndOfStream, ReadFails, Return
<1>4. usrbuf' \in [0 .. MaxLine - 1 -> Byte] /\ ret' \in -1 .. MaxLine
  <2>1. CASE Interrupted \/ ReadFails
    BY <1>0, <2>1 DEF Interrupted, ReadFails, Return, Inv, TypeOK, Numbers
  <2>2. CASE EndOfStream
    <3>1. usrbuf' \in [0 .. MaxLine - 1 -> Byte]
      <4>1. usrbuf' = usrbuf \/ usrbuf' = [usrbuf EXCEPT ![n] = 0]
        BY <2>2 DEF EndOfStream
      <4>2. usrbuf \in [0 .. MaxLine - 1 -> Byte] /\ 0 \in Byte
        BY <1>0 DEF Inv, TypeOK, Byte, Numbers
      <4> QED BY <4>1, <4>2
    <3>2. ret' = 0 \/ (pc = "line" /\ ret' = n + 1) \/ (pc = "bytes" /\ ret' = n)
      BY <2>2 DEF EndOfStream, Return, LineRet
    <3>3. ret' \in -1 .. MaxLine
      BY <1>0, <3>2 DEF Inv, Room, Numbers
    <3> QED BY <3>1, <3>3
  <2> QED BY <2>1, <2>2
<1>5. TypeOK'
    BY <1>0, <1>1, <1>3, <1>4 DEF Inv, TypeOK, Numbers
<1>6. InOrder'
  <2>1. rio_bufptr' + Unread' <= BufSize
    BY <1>0, <1>1, <1>2 DEF Numbers
  <2>2. \A i \in 0 .. Unread' - 1 : rio_buf'[rio_bufptr' + i] = HandedOut' + 1 + i
    BY <1>2
  <2>3. InCall' => \A i \in 0 .. n' - 1 : usrbuf'[i] = HandedOut' - n' + 1 + i
    BY <1>1, <1>2, <1>3 DEF Inv, InOrder, InCall
  <2> QED BY <2>1, <2>2, <2>3 DEF InOrder
<1>7. Room' /\ NoNewline'
    BY <1>1, <1>2, <1>3 DEF Inv, Room, NoNewline, InCall
<1> QED BY <1>5, <1>6, <1>7 DEF Inv

\* Taking k bytes out of the buffer.
LEMMA Taking ==
    ASSUME Inv, InCall, NEW k \in 1 .. rio_cnt, n + k < MaxLine + 1,
           Advance(k), UNCHANGED <<newlines, fetched, rio_buf>>
    PROVE  /\ rio_bufptr' \in 0 .. BufSize /\ rio_cnt' \in -1 .. BufSize
           /\ n' = n + k /\ n' \in 0 .. MaxLine
           /\ HandedOut' = HandedOut + k /\ rio_bufptr' + Unread' <= BufSize
           /\ \A i \in 0 .. Unread' - 1 : rio_buf'[rio_bufptr' + i] = HandedOut' + 1 + i
           /\ Copied(k) \in [0 .. MaxLine - 1 -> Byte]
           /\ \A i \in 0 .. n' - 1 : Copied(k)[i] = HandedOut' - n' + 1 + i
<1>1. Numbers
    BY InvNumbers
<1>2. rio_cnt \in Int /\ rio_cnt > 0 /\ k \in 1 .. rio_cnt
    BY <1>1 DEF Numbers
<1>3. /\ rio_bufptr' = rio_bufptr + k /\ rio_cnt' = rio_cnt - k /\ n' = n + k
      /\ rio_buf' = rio_buf /\ fetched' = fetched
    BY DEF Advance
<1>4. Unread = rio_cnt /\ HandedOut = fetched - rio_cnt
    BY <1>1, <1>2 DEF Numbers
<1>5. Unread' = rio_cnt - k /\ HandedOut' = HandedOut + k
    BY <1>1, <1>2, <1>3, <1>4 DEF Unread, HandedOut, Numbers
<1>6. \A i \in 0 .. rio_cnt - 1 : rio_buf[rio_bufptr + i] = HandedOut + 1 + i
    BY <1>4 DEF Inv, InOrder
<1>7. \A i \in 0 .. n - 1 : usrbuf[i] = HandedOut - n + 1 + i
    BY DEF Inv, InOrder
<1>8. /\ rio_bufptr' \in 0 .. BufSize /\ rio_cnt' \in -1 .. BufSize
      /\ n' \in 0 .. MaxLine /\ rio_bufptr' + Unread' <= BufSize
    BY <1>1, <1>2, <1>3, <1>5 DEF Numbers
<1>9. \A i \in 0 .. Unread' - 1 : rio_buf'[rio_bufptr' + i] = HandedOut' + 1 + i
  <2> SUFFICES ASSUME NEW i \in 0 .. Unread' - 1
               PROVE  rio_buf'[rio_bufptr' + i] = HandedOut' + 1 + i
    OBVIOUS
  <2>1. k + i \in 0 .. rio_cnt - 1 /\ rio_bufptr' + i = rio_bufptr + (k + i)
    BY <1>1, <1>2, <1>3, <1>5 DEF Numbers
  <2>2. rio_buf[rio_bufptr + (k + i)] = HandedOut + 1 + (k + i)
    BY <1>6, <2>1
  <2> QED BY <1>1, <1>2, <1>3, <1>5, <2>1, <2>2 DEF Numbers
<1>10. Copied(k) \in [0 .. MaxLine - 1 -> Byte]
  <2> SUFFICES ASSUME NEW i \in 0 .. MaxLine - 1
               PROVE  (IF i \in n .. n + k - 1 THEN rio_buf[rio_bufptr + i - n]
                       ELSE usrbuf[i]) \in Byte
    BY DEF Copied
  <2>1. usrbuf[i] \in Byte
    BY DEF Inv, TypeOK
  <2>2. ASSUME i \in n .. n + k - 1 PROVE rio_buf[rio_bufptr + i - n] \in Byte
    <3>1. rio_bufptr + i - n \in 0 .. BufSize - 1
      BY <1>1, <1>2, <2>2 DEF Numbers
    <3> QED BY <3>1 DEF Inv, TypeOK
  <2> QED BY <2>1, <2>2
<1>11. \A i \in 0 .. n' - 1 : Copied(k)[i] = HandedOut' - n' + 1 + i
  <2> SUFFICES ASSUME NEW i \in 0 .. n' - 1
               PROVE  Copied(k)[i] = HandedOut' - n' + 1 + i
    OBVIOUS
  <2>1. i \in 0 .. MaxLine - 1 /\ i < n + k
    BY <1>1, <1>2, <1>3 DEF Numbers
  <2>2. HandedOut' - n' + 1 + i = HandedOut - n + 1 + i
    BY <1>1, <1>2, <1>3, <1>5, <2>1 DEF Numbers
  <2>3. CASE i < n
    <3>1. i \in 0 .. n - 1 /\ i \notin n .. n + k - 1
      BY <1>1, <1>2, <2>1, <2>3 DEF Numbers
    <3>2. Copied(k)[i] = usrbuf[i]
      BY <2>1, <3>1 DEF Copied
    <3> QED BY <1>7, <2>2, <3>1, <3>2
  <2>4. CASE ~ i < n
    <3>1. i \in n .. n + k - 1 /\ i - n \in 0 .. rio_cnt - 1
          /\ rio_bufptr + i - n = rio_bufptr + (i - n)
      BY <1>1, <1>2, <2>1, <2>4 DEF Numbers
    <3>2. Copied(k)[i] = rio_buf[rio_bufptr + (i - n)]
      BY <2>1, <3>1 DEF Copied
    <3>3. rio_buf[rio_bufptr + (i - n)] = HandedOut + 1 + (i - n)
      BY <1>6, <3>1
    <3> QED BY <1>1, <2>1, <2>2, <3>2, <3>3 DEF Numbers
  <2> QED BY <2>3, <2>4
<1> QED BY <1>3, <1>5, <1>8, <1>9, <1>10, <1>11

LEMMA TakeByteKeeps == Inv /\ TakeByte => Inv'
<1> SUFFICES ASSUME Inv, TakeByte PROVE Inv'
    OBVIOUS
<1> DEFINE newline == rio_buf[rio_bufptr] \in newlines
<1>0. Numbers
    BY InvNumbers
<1>1. /\ pc = "line" /\ rio_cnt > 0 /\ InCall /\ Advance(1)
      /\ UNCHANGED <<newlines, fetched, rio_buf, want, loop, written, gone, out, skipped>>
    BY DEF TakeByte, InCall, sink
<1>2. want = MaxLine /\ n <= MaxLine - 2 /\ n <= HandedOut
    BY <1>1 DEF Inv, Room
<1>3. /\ rio_bufptr' \in 0 .. BufSize /\ rio_cnt' \in -1 .. BufSize
      /\ n' = n + 1 /\ n' \in 0 .. MaxLine
      /\ HandedOut' = HandedOut + 1 /\ rio_bufptr' + Unread' <= BufSize
      /\ \A i \in 0 .. Unread' - 1 : rio_buf'[rio_bufptr' + i] = HandedOut' + 1 + i
      /\ Copied(1) \in [0 .. MaxLine - 1 -> Byte]
      /\ \A i \in 0 .. n' - 1 : Copied(1)[i] = HandedOut' - n' + 1 + i
  <2>1. 1 \in 1 .. rio_cnt /\ n + 1 < MaxLine + 1
    BY <1>0, <1>1, <1>2 DEF Numbers
  <2> HIDE DEF newline
  <2> QED BY <1>1, <2>1, Taking
<1>4. rio_buf[rio_bufptr] = HandedOut + 1
    BY <1>1, NextByte
<1>5. CASE newline \/ n + 1 = want - 1
  <2>1. /\ usrbuf' = [Copied(1) EXCEPT ![n + 1] = 0]
        /\ ret' = LineRet(n + 1, newline) /\ pc' = "back"
    BY <1>5 DEF TakeByte, Return
  <2>2. usrbuf' \in [0 .. MaxLine - 1 -> Byte]
    <3>1. 0 \in Byte
      BY <1>0 DEF Byte, Numbers
    <3> QED BY <1>3, <2>1, <3>1
  <2>3. ret' \in -1 .. MaxLine
    BY <1>0, <1>2, <2>1 DEF LineRet, Numbers
  <2>4. TypeOK'
    BY <1>1, <1>3, <2>1, <2>2, <2>3 DEF Inv, TypeOK
  <2> QED BY <1>0, <1>3, <2>1, <2>4 DEF Inv, InOrder, Room, NoNewline, InCall, Numbers
<1>6. CASE ~ newline /\ n + 1 # want - 1
  <2>1. usrbuf' = Copied(1) /\ UNCHANGED <<ret, pc>>
    BY <1>6 DEF TakeByte
  <2>2. TypeOK'
    BY <1>1, <1>3, <2>1 DEF Inv, TypeOK
  <2>3. InOrder'
    BY <1>3, <2>1 DEF InOrder
  <2>4. Room'
    BY <1>0, <1>1, <1>2, <1>3, <1>6, <2>1 DEF Inv, Room, InCall, Numbers
  <2>5. NoNewline'
    <3> SUFFICES ASSUME NEW i \in 0 .. n' - 1 PROVE HandedOut' - n' + 1 + i \notin newlines
        BY <1>1 DEF NoNewline
    <3>1. HandedOut' - n' + 1 + i = HandedOut - n + 1 + i /\ i \in 0 .. n
      BY <1>0, <1>3 DEF Numbers
    <3>2. CASE i \in 0 .. n - 1
      BY <1>1, <3>1, <3>2 DEF Inv, NoNewline
    <3>3. CASE i = n
      BY <1>0, <1>4, <1>6, <3>1, <3>3 DEF Numbers
    <3> QED BY <1>0, <3>1, <3>2, <3>3 DEF Numbers
  <2> QED BY <2>2, <2>3, <2>4, <2>5 DEF Inv
<1> QED BY <1>5, <1>6

LEMMA TakeBytesKeeps == Inv /\ TakeBytes => Inv'
<1> SUFFICES ASSUME Inv, TakeBytes PROVE Inv'
    OBVIOUS
<1> DEFINE k == Least(rio_cnt, want - n)
<1>0. Numbers
    BY InvNumbers
<1>1. /\ pc = "bytes" /\ rio_cnt > 0 /\ InCall /\ Advance(k) /\ usrbuf' = Copied(k)
      /\ UNCHANGED <<newlines, fetched, rio_buf, want, loop, written, gone, out, skipped>>
    BY DEF TakeBytes, InCall, sink
<1>2. want \in 1 .. MaxLine /\ n < want /\ n <= HandedOut
    BY <1>1 DEF Inv, Room
<1>3. k \in 1 .. rio_cnt /\ n + k <= want
    BY <1>0, <1>1, <1>2 DEF Least, Numbers
<1>4. IF n + k = want THEN ret' = want /\ pc' = "back" ELSE UNCHANGED <<ret, pc>>
    BY DEF TakeBytes, Return
<1> HIDE DEF k
<1>5. /\ rio_bufptr' \in 0 .. BufSize /\ rio_cnt' \in -1 .. BufSize
      /\ n' = n + k /\ n' \in 0 .. MaxLine
      /\ HandedOut' = HandedOut + k /\ rio_bufptr' + Unread' <= BufSize
      /\ \A i \in 0 .. Unread' - 1 : rio_buf'[rio_bufptr' + i] = HandedOut' + 1 + i
      /\ Copied(k) \in [0 .. MaxLine - 1 -> Byte]
      /\ \A i \in 0 .. n' - 1 : Copied(k)[i] = HandedOut' - n' + 1 + i
  <2>1. n + k < MaxLine + 1
    BY <1>0, <1>2, <1>3 DEF Numbers
  <2> QED BY <1>1, <1>3, <2>1, Taking
<1>6. ret' \in -1 .. MaxLine /\ pc' \in {"bytes", "back"} /\ (pc' = "bytes" => n + k # want)
    BY <1>0, <1>1, <1>2, <1>4 DEF Numbers
<1>7. TypeOK'
    BY <1>1, <1>5, <1>6 DEF Inv, TypeOK
<1>8. InOrder'
    BY <1>1, <1>5 DEF InOrder
<1>9. Room' /\ NoNewline'
    BY <1>0, <1>1, <1>2, <1>3, <1>5, <1>6 DEF Room, NoNewline, InCall, Numbers
<1> QED BY <1>7, <1>8, <1>9 DEF Inv

\* The loops of doit read nothing.
Apart == UNCHANGED <<newlines, fetched, rio_buf, rio_bufptr, rio_cnt>>

LEMMA ApartKeeps ==
    ASSUME Inv, Apart, TypeOK', InCall' => n' = 0, Room'
    PROVE  Inv'
<1>0. Numbers
    BY InvNumbers
<1>1. Unread' = Unread /\ HandedOut' = HandedOut
    BY DEF Apart, Unread, HandedOut
<1>2. InOrder'
    BY <1>1 DEF Inv, InOrder, Apart
<1>3. NoNewline'
    BY DEF NoNewline, InCall
<1> QED BY <1>2, <1>3 DEF Inv

LEMMA TurnKeeps == Inv /\ Turn => Inv'
<1> SUFFICES ASSUME Inv, Turn PROVE Inv'
    OBVIOUS
<1>0. Numbers
    BY InvNumbers
<1>1. PICK kind \in {"line", "bytes"}, size \in 1 .. MaxLine :
         (kind = "line" => size = MaxLine) /\ Call(kind, size)
    BY <1>0 DEF Turn, AskLine, AskBytes, Numbers
<1>2. /\ pc' = kind /\ want' = size /\ n' = 0 /\ Apart
      /\ UNCHANGED <<usrbuf, ret, loop, written, gone, out, skipped>>
    BY <1>1 DEF Call, Apart, rio, sink
<1>3. TypeOK'
    BY <1>0, <1>1, <1>2 DEF Inv, TypeOK, Apart, Numbers
<1>4. HandedOut' = HandedOut
    BY <1>2 DEF Apart, HandedOut, Unread
<1>5. Room'
    BY <1>0, <1>1, <1>2, <1>4 DEF Room, InCall, Numbers
<1> QED BY <1>2, <1>3, <1>5, ApartKeeps

LEMMA WriteKeeps == Inv /\ Write => Inv'
<1> SUFFICES ASSUME Inv, Write PROVE Inv'
    OBVIOUS
<1>0. Numbers
    BY InvNumbers
<1>1. PICK k \in 1 .. want - written :
         /\ out' = out \o [i \in 1 .. k |-> usrbuf[written + i - 1]]
         /\ written' = written + k
    BY DEF Write
<1>2. /\ pc = "write" /\ Apart
      /\ UNCHANGED <<usrbuf, n, want, ret, loop, pc, gone, skipped>>
    BY DEF Write, Apart, rio
<1>3. out' \in Seq(Byte)
  <2> DEFINE part == [i \in 1 .. k |-> usrbuf[written + i - 1]]
  <2>1. \A i \in 1 .. k : usrbuf[written + i - 1] \in Byte
    <3> SUFFICES ASSUME NEW i \in 1 .. k PROVE usrbuf[written + i - 1] \in Byte
        OBVIOUS
    <3>1. written + i - 1 \in 0 .. MaxLine - 1
      BY <1>0 DEF Numbers
    <3> QED BY <3>1 DEF Inv, TypeOK
  <2>2. k \in Nat
    BY <1>0 DEF Numbers
  <2>3. part \in Seq(Byte)
    BY <2>1, <2>2
  <2>4. out \in Seq(Byte)
    BY DEF Inv, TypeOK
  <2> HIDE DEF part
  <2> QED BY <1>1, <2>3, <2>4 DEF part
<1>4. written' \in 0 .. MaxLine /\ written' <= want
    BY <1>0, <1>1 DEF Numbers
<1>5. TypeOK'
    BY <1>2, <1>3, <1>4 DEF Inv, TypeOK, Apart
<1>6. HandedOut' = HandedOut
    BY <1>2 DEF Apart, HandedOut, Unread
<1>7. Room' /\ ~ InCall'
    BY <1>2, <1>4, <1>6 DEF Inv, Room, InCall
<1> QED BY <1>2, <1>5, <1>7, ApartKeeps

\* The steps of the loops that neither call nor write.
LEMMA LoopKeeps == Inv /\ (LoopEnds \/ StartWrite \/ WriteEnds \/ WriteFails) => Inv'
<1> SUFFICES ASSUME Inv, LoopEnds \/ StartWrite \/ WriteEnds \/ WriteFails PROVE Inv'
    OBVIOUS
<1>0. Numbers
    BY InvNumbers
<1>1. /\ Apart /\ UNCHANGED <<usrbuf, n, ret, out>>
      /\ (pc' = "turn" /\ UNCHANGED <<want, written>>) \/ StartWrite
    BY DEF LoopEnds, StartWrite, WriteEnds, WriteFails, Apart, rio, sink
<1>2. loop' \in {"request", "head", "lines", "bytes", "asked", "done"} /\ gone' \in BOOLEAN
  <2>1. /\ loop \in {"request", "head", "lines", "bytes", "asked", "done"}
        /\ gone \in BOOLEAN
    BY DEF Inv, TypeOK
  <2>2. CASE LoopEnds
    BY <2>1, <2>2 DEF LoopEnds, End, sink
  <2>3. CASE StartWrite
    BY <2>1, <2>3 DEF StartWrite
  <2>4. CASE WriteEnds
    <3>1. gone' = gone
      BY <2>4 DEF WriteEnds, sink
    <3>2. \/ loop' \in {"asked", "lines", "bytes", "done"}
          \/ loop' = loop
      BY <2>4 DEF WriteEnds, GoesOn
    <3> QED BY <2>1, <3>1, <3>2
  <2>5. CASE WriteFails
    <3>1. gone' = TRUE
      BY <2>5 DEF WriteFails
    <3>2. \/ loop' \in {"asked", "lines", "bytes", "done"}
          \/ loop' = loop
      BY <2>5 DEF WriteFails, GoesOn, End
    <3> QED BY <2>1, <3>1, <3>2
  <2> QED BY <2>2, <2>3, <2>4, <2>5
<1>3. /\ pc' \in {"turn", "write"} /\ want' \in 0 .. MaxLine /\ written' \in 0 .. MaxLine
      /\ pc' = "write" => written' <= want'
  <2>1. CASE StartWrite
    <3>1. pc' = "write" /\ want' \in {ret, ret - 1} /\ ret > 0 /\ written' = 0
      BY <2>1 DEF StartWrite, Fixed
    <3> QED BY <1>0, <3>1 DEF Numbers
  <2> QED BY <1>0, <1>1, <2>1 DEF Numbers
<1>7. skipped' \in BOOLEAN
  <2>1. skipped \in BOOLEAN
    BY DEF Inv, TypeOK
  <2>2. CASE LoopEnds
    <3>1. skipped' = skipped \/ skipped' = (skipped \/ ret # 0)
      BY <2>2 DEF LoopEnds
    <3> QED BY ONLY <2>1, <3>1, Zenon
  <2>3. CASE StartWrite \/ WriteEnds \/ WriteFails
    <3>1. skipped' = skipped
      BY <2>3 DEF StartWrite, WriteEnds, WriteFails, sink
    <3> QED BY <2>1, <3>1
  <2> QED BY <2>2, <2>3
<1>4. TypeOK'
    BY <1>1, <1>2, <1>3, <1>7 DEF Inv, TypeOK, Apart
<1>5. HandedOut' = HandedOut
    BY <1>1 DEF Apart, HandedOut, Unread
<1>6. Room' /\ ~ InCall'
    BY <1>3, <1>5 DEF Inv, Room, InCall
<1> QED BY <1>1, <1>4, <1>6, ApartKeeps

LEMMA InvStep == Inv /\ [Next]_vars => Inv'
<1>1. Inv /\ UNCHANGED vars => Inv'
    BY DEF Inv, TypeOK, InOrder, Room, NoNewline, InCall, HandedOut, Unread, vars
<1> QED BY <1>1, FillKeeps, EndKeeps, TakeByteKeeps, TakeBytesKeeps, TurnKeeps, WriteKeeps,
           LoopKeeps DEF Next, Reading, Doit

LEMMA InvHolds == Spec => []Inv
<1> QED BY InvInit, InvStep, PTL DEF Spec

\* The types, which say that no copy and no NUL byte lands outside its buffer.
THEOREM TypeCorrect == Spec => []TypeOK
<1>1. Inv => TypeOK
    BY DEF Inv
<1> QED BY <1>1, InvHolds, PTL

\* No byte of the peer's stream is lost, doubled or moved between read() and doit.
THEOREM BytesInOrder == Spec => []InOrder
<1>1. Inv => InOrder
    BY DEF Inv
<1> QED BY <1>1, InvHolds, PTL

-----------------------------------------------------------------------------
(* The refinement: where a call stands and what it has collected are hidden. *)

LEMMA InitReads == Init => Reads!Init
    BY DEF Init, Reads!Init, Reads!NoCall, Calling, Taken, InCall, HandedOut, Unread

\* Steps that Stream does not see: no call begins or ends, and what is handed out is
\* collected.
LEMMA Unseen ==
    ASSUME Calling' = Calling, Taken' = Taken, UNCHANGED <<newlines, ret>>
    PROVE  UNCHANGED Reads!vars
    BY DEF Reads!vars

LEMMA FillReads == Inv /\ (Fill \/ Interrupted) => UNCHANGED Reads!vars
<1> SUFFICES ASSUME Inv, Fill \/ Interrupted PROVE UNCHANGED Reads!vars
    OBVIOUS
<1>0. Numbers
    BY InvNumbers
<1>1. UNCHANGED <<newlines, n, want, ret, pc>> /\ rio_cnt <= 0
    BY <1>0 DEF Fill, Interrupted, sink, Numbers
<1>2. HandedOut' = HandedOut
  <2>1. CASE Fill
    <3>1. PICK k \in 1 .. BufSize : Refill(k)
      BY <2>1 DEF Fill
    <3>2. fetched' = fetched + k /\ rio_cnt' = k /\ k > 0
      BY <1>0, <3>1 DEF Refill, Numbers
    <3> QED BY <1>0, <1>1, <3>2 DEF HandedOut, Unread, Numbers
  <2>2. CASE Interrupted
    <3>1. fetched' = fetched /\ ~ rio_cnt' > 0
      BY <2>2 DEF Interrupted
    <3> QED BY <1>0, <1>1, <3>1 DEF HandedOut, Unread, Numbers
  <2> QED BY <2>1, <2>2
<1>3. Calling' = Calling /\ Taken' = Taken
    BY <1>1, <1>2 DEF Calling, Taken, InCall
<1> QED BY <1>1, <1>3, Unseen

\* No byte is handed out by the calls that end here.
LEMMA NothingTaken ==
    ASSUME Inv, EndOfStream \/ ReadFails
    PROVE  /\ InCall /\ rio_cnt <= 0 /\ HandedOut' = HandedOut /\ HandedOut = fetched
           /\ UNCHANGED <<newlines, n, want>>
           /\ Calling = <<pc, want>> /\ Taken = fetched - n
<1>0. Numbers
    BY InvNumbers
<1>1. InCall /\ rio_cnt <= 0 /\ ~ rio_cnt' > 0 /\ UNCHANGED <<newlines, fetched, n, want>>
  <2>1. CASE EndOfStream
    BY <2>1 DEF EndOfStream
  <2>2. CASE ReadFails
    BY <2>2 DEF ReadFails
  <2> QED BY <2>1, <2>2
<1>2. HandedOut' = HandedOut /\ HandedOut = fetched
    BY <1>0, <1>1 DEF HandedOut, Unread, Numbers
<1> QED BY <1>1, <1>2 DEF Calling, Taken

LEMMA EndReads == Inv /\ EndOfStream => Reads!Next
<1> SUFFICES ASSUME Inv, EndOfStream PROVE Reads!Next
    OBVIOUS
<1>0. Numbers
    BY InvNumbers
<1>1. /\ InCall /\ rio_cnt <= 0 /\ HandedOut' = HandedOut /\ HandedOut = fetched
      /\ UNCHANGED <<newlines, n, want>>
      /\ Calling = <<pc, want>> /\ Taken = fetched - n /\ fetched = Length
    BY NothingTaken DEF EndOfStream
<1>2. pc' = "back" /\ Calling' = Reads!NoCall /\ Taken' = Length
  <2>1. pc' = "back"
    BY DEF EndOfStream, Return
  <2> QED BY <1>0, <1>1, <2>1 DEF Calling, Taken, InCall, Reads!NoCall, Numbers
<1>3. CASE pc = "line" /\ n = 0
  <2>1. ret' = 0 /\ Taken = Length
    BY <1>0, <1>1, <1>3 DEF EndOfStream, Return, Numbers
  <2>2. Reads!AnswerLine
    BY <1>1, <1>2, <1>3, <2>1 DEF Reads!AnswerLine
  <2> QED BY <2>2 DEF Reads!Next
<1>4. CASE pc = "line" /\ n > 0
  <2>1. ret' = n + 1 /\ n <= MaxLine - 2 /\ n <= Length
    BY <1>1, <1>4 DEF EndOfStream, Return, LineRet, Inv, Room
  <2>2. \A i \in Taken + 1 .. Length : i \notin newlines
    <3> SUFFICES ASSUME NEW i \in Taken + 1 .. Length PROVE i \notin newlines
        OBVIOUS
    <3>1. i - (Taken + 1) \in 0 .. n - 1 /\ HandedOut - n + 1 + (i - (Taken + 1)) = i
      BY <1>0, <1>1, <2>1 DEF Numbers
    <3> QED BY <1>4, <3>1 DEF Inv, NoNewline
  <2>3. Length \in Taken + 1 .. Length
    BY <1>0, <1>1, <1>4, <2>1 DEF Numbers
  <2>4. Reads!EndsAt(Taken, Length)
    BY <1>0, <1>1, <2>1, <2>2, <2>3 DEF Reads!EndsAt, Numbers
  <2>5. ret' = Taken' - Taken + 1
    BY <1>0, <1>1, <1>2, <2>1 DEF Numbers
  <2>6. Reads!AnswerLine
    BY <1>1, <1>2, <1>4, <2>2, <2>3, <2>4, <2>5 DEF Reads!AnswerLine
  <2> QED BY <2>6 DEF Reads!Next
<1>5. CASE pc = "bytes"
  <2>1. ret' = n /\ n < want
    BY <1>5 DEF EndOfStream, Return, Inv, Room
  <2>2. ~ Taken + want < Length /\ ret' = Taken' - Taken
    BY <1>0, <1>1, <1>2, <2>1 DEF Numbers
  <2>3. Reads!AnswerBytes
    BY <1>1, <1>2, <1>5, <2>2 DEF Reads!AnswerBytes
  <2> QED BY <2>3 DEF Reads!Next
<1> QED BY <1>0, <1>1, <1>3, <1>4, <1>5 DEF InCall, Numbers

LEMMA FailReads == Inv /\ ReadFails => Reads!Next
<1> SUFFICES ASSUME Inv, ReadFails PROVE Reads!Next
    OBVIOUS
<1>0. Numbers
    BY InvNumbers
<1>1. /\ InCall /\ HandedOut' = HandedOut /\ HandedOut = fetched
      /\ UNCHANGED <<newlines, n, want>>
      /\ Calling = <<pc, want>> /\ Taken = fetched - n
    BY NothingTaken
<1>2. pc' = "back" /\ ret' = -1
    BY DEF ReadFails, Return
<1>3. Calling' = Reads!NoCall /\ Taken' = fetched /\ Calling # Reads!NoCall
    BY <1>0, <1>1, <1>2 DEF Calling, Taken, InCall, Reads!NoCall, Numbers
<1>4. n <= fetched
    BY <1>1 DEF Inv, Room
<1>5. Taken' \in Taken .. Length
    BY <1>0, <1>1, <1>3, <1>4 DEF Numbers
<1> QED BY <1>1, <1>2, <1>3, <1>5 DEF Reads!Fail, Reads!Next

\* The byte that is taken ends the line, in the sense of Stream, exactly when
\* rio_readlineb returns.
LEMMA TakeByteReads == Inv /\ TakeByte => Reads!Next \/ UNCHANGED Reads!vars
<1> SUFFICES ASSUME Inv, TakeByte PROVE Reads!Next \/ UNCHANGED Reads!vars
    OBVIOUS
<1> DEFINE newline == rio_buf[rio_bufptr] \in newlines
<1>0. Numbers
    BY InvNumbers
<1>1. /\ pc = "line" /\ rio_cnt > 0 /\ InCall /\ n' = n + 1
      /\ rio_cnt' = rio_cnt - 1 /\ UNCHANGED <<newlines, fetched, want>>
    BY DEF TakeByte, InCall, Advance
<1>2. want = MaxLine /\ n <= MaxLine - 2 /\ n <= HandedOut
    BY <1>1 DEF Inv, Room
<1>3. HandedOut' = HandedOut + 1 /\ HandedOut + 1 \in 1 .. Length
    BY <1>0, <1>1 DEF HandedOut, Unread, Numbers
<1>4. rio_buf[rio_bufptr] = HandedOut + 1
    BY <1>1, NextByte
<1>5. Calling = <<"line", MaxLine>> /\ Taken = HandedOut - n
    BY <1>1, <1>2 DEF Calling, Taken
<1>6. CASE newline \/ n + 1 = want - 1
  <2>1. ret' = LineRet(n + 1, newline) /\ pc' = "back"
    BY <1>6 DEF TakeByte, Return
  <2>2. Calling' = Reads!NoCall /\ Taken' = HandedOut + 1
    BY <1>0, <1>3, <2>1 DEF Calling, Taken, InCall, Reads!NoCall, Numbers
  <2>3. Taken' \in Taken + 1 .. Length /\ Taken' - Taken = n + 1
    BY <1>0, <1>2, <1>3, <1>5, <2>2 DEF Numbers
  <2>4. \A i \in Taken + 1 .. Taken' - 1 : i \notin newlines
    <3> SUFFICES ASSUME NEW i \in Taken + 1 .. Taken' - 1 PROVE i \notin newlines
        OBVIOUS
    <3>1. i - (Taken + 1) \in 0 .. n - 1 /\ HandedOut - n + 1 + (i - (Taken + 1)) = i
      BY <1>0, <1>2, <1>5, <2>2 DEF Numbers
    <3> QED BY <1>1, <3>1 DEF Inv, NoNewline
  <2>5. Taken' \in newlines \/ Taken' = Taken + MaxLine - 1
    BY <1>0, <1>2, <1>4, <1>5, <1>6, <2>2 DEF Numbers
  <2>6. Taken' <= Taken + MaxLine - 1
    BY <1>0, <1>2, <1>5, <2>2 DEF Numbers
  <2>7. Reads!EndsAt(Taken, Taken')
    BY <2>3, <2>4, <2>5, <2>6 DEF Reads!EndsAt
  <2>8. ret' = Taken' - Taken + (IF Taken' \in newlines THEN 0 ELSE 1)
    BY <1>0, <1>4, <2>1, <2>2, <2>3 DEF LineRet, Numbers
  <2>9. Reads!AnswerLine
    BY <1>1, <1>5, <2>2, <2>3, <2>7, <2>8 DEF Reads!AnswerLine
  <2> QED BY <2>9 DEF Reads!Next
<1>7. CASE ~ newline /\ n + 1 # want - 1
  <2>1. UNCHANGED <<ret, pc>>
    BY <1>7 DEF TakeByte
  <2>2. Calling' = Calling /\ Taken' = Taken
    BY <1>0, <1>1, <1>3, <1>5, <2>1 DEF Calling, Taken, InCall, Numbers
  <2> QED BY <1>1, <2>1, <2>2, Unseen
<1> QED BY <1>6, <1>7

LEMMA TakeBytesReads == Inv /\ TakeBytes => Reads!Next \/ UNCHANGED Reads!vars
<1> SUFFICES ASSUME Inv, TakeBytes PROVE Reads!Next \/ UNCHANGED Reads!vars
    OBVIOUS
<1> DEFINE k == Least(rio_cnt, want - n)
<1>0. Numbers
    BY InvNumbers
<1>1. /\ pc = "bytes" /\ rio_cnt > 0 /\ InCall /\ n' = n + k
      /\ rio_cnt' = rio_cnt - k /\ UNCHANGED <<newlines, fetched, want>>
    BY DEF TakeBytes, InCall, Advance
<1>2. want \in 1 .. MaxLine /\ n < want /\ n <= HandedOut
    BY <1>1 DEF Inv, Room
<1>3. k \in 1 .. rio_cnt
    BY <1>0, <1>1, <1>2 DEF Least, Numbers
<1>4. IF n + k = want THEN ret' = want /\ pc' = "back" ELSE UNCHANGED <<ret, pc>>
    BY DEF TakeBytes, Return
<1> HIDE DEF k
<1>5. HandedOut' = HandedOut + k /\ HandedOut + k <= Length
    BY <1>0, <1>1, <1>3 DEF HandedOut, Unread, Numbers
<1>6. Calling = <<"bytes", want>> /\ Taken = HandedOut - n
    BY <1>1 DEF Calling, Taken
<1>7. CASE n + k = want
  <2>1. Calling' = Reads!NoCall /\ Taken' = HandedOut + k
    BY <1>0, <1>3, <1>4, <1>5, <1>7 DEF Calling, Taken, InCall, Reads!NoCall, Numbers
  <2>2. Taken' = Taken + want /\ Taken + want <= Length /\ ret' = Taken' - Taken
    BY <1>0, <1>2, <1>3, <1>4, <1>5, <1>6, <1>7, <2>1 DEF Numbers
  <2>3. Taken' = IF Taken + want < Length THEN Taken + want ELSE Length
    BY <1>0, <1>2, <1>6, <2>2 DEF Numbers
  <2>4. Reads!AnswerBytes
    BY <1>1, <1>6, <2>1, <2>2, <2>3 DEF Reads!AnswerBytes
  <2> QED BY <2>4 DEF Reads!Next
<1>8. CASE n + k # want
  <2>1. Calling' = Calling /\ Taken' = Taken /\ UNCHANGED ret
    BY <1>0, <1>1, <1>3, <1>4, <1>5, <1>6, <1>8 DEF Calling, Taken, InCall, Numbers
  <2> QED BY <1>1, <2>1, Unseen
<1> QED BY <1>7, <1>8

LEMMA DoitReads == Inv /\ Doit => Reads!Next \/ UNCHANGED Reads!vars
<1> SUFFICES ASSUME Inv, Doit PROVE Reads!Next \/ UNCHANGED Reads!vars
    OBVIOUS
<1>0. Numbers
    BY InvNumbers
<1>1. CASE Turn
  <2>1. PICK kind \in {"line", "bytes"}, size \in 1 .. MaxLine :
           (kind = "line" => size = MaxLine) /\ Call(kind, size)
    BY <1>0, <1>1 DEF Turn, AskLine, AskBytes, Numbers
  <2>2. /\ pc = "turn" /\ pc' = kind /\ want' = size /\ n' = 0 /\ ret' = ret
        /\ UNCHANGED <<newlines, fetched, rio_cnt>>
    BY <2>1 DEF Call, rio
  <2>3. HandedOut' = HandedOut
    BY <2>2 DEF HandedOut, Unread
  <2>4. Calling = Reads!NoCall /\ Calling' = <<kind, size>> /\ Taken' = Taken
    BY <1>0, <2>2, <2>3 DEF Calling, Taken, InCall, Reads!NoCall, Numbers
  <2>5. <<kind, size>> \in {<<"line", MaxLine>>} \cup ({"bytes"} \X (1 .. MaxLine))
    BY <2>1
  <2>6. Reads!Ask
    BY <2>2, <2>4, <2>5 DEF Reads!Ask
  <2> QED BY <2>6 DEF Reads!Next
<1>2. CASE LoopEnds \/ StartWrite \/ Write \/ WriteEnds \/ WriteFails
  <2>1. /\ UNCHANGED <<newlines, fetched, rio_cnt, ret>>
        /\ pc \in {"back", "write"} /\ pc' \in {"turn", "write"}
    BY <1>2 DEF LoopEnds, StartWrite, Write, WriteEnds, WriteFails, rio
  <2>2. HandedOut' = HandedOut
    BY <2>1 DEF HandedOut, Unread
  <2>3. Calling' = Calling /\ Taken' = Taken
    BY <2>1, <2>2 DEF Calling, Taken, InCall
  <2> QED BY <2>1, <2>3, Unseen
<1> QED BY <1>1, <1>2 DEF Doit

LEMMA StepReads == Inv /\ [Next]_vars => [Reads!Next]_Reads!vars
<1>1. Inv /\ UNCHANGED vars => UNCHANGED Reads!vars
    BY DEF vars, Reads!vars, Calling, Taken, InCall, HandedOut, Unread
<1> QED BY <1>1, FillReads, EndReads, FailReads, TakeByteReads, TakeBytesReads, DoitReads
        DEF Next, Reading

\* The two loops over rio_read implement Stream: whatever the pieces in which the bytes
\* come, each call takes the next line or the next bytes and returns what Stream says.
THEOREM ImplementsStream == Spec => ReadsStream
<1> QED BY InitReads, InvHolds, StepReads, PTL DEF Spec, ReadsStream, Reads!Spec

-----------------------------------------------------------------------------
(* What is sent on.                                                        *)

\* How far sending on has come: to where reading has, but for what a call has collected
\* and was not written yet.
Sent ==
    CASE pc = "turn"  -> HandedOut
      [] pc = "write" -> HandedOut - n + Least(written, n)
      [] OTHER        -> HandedOut - n

\* A call is one of its loop's; a loop that has ended does nothing more.
InLoop ==
    /\ pc = "line" => loop \in {"request", "head", "lines"}
    /\ pc = "bytes" => loop = "bytes"
    /\ Ended => pc = "turn"

\* The line or the bytes that a call has returned, and the NUL byte it counted after a
\* line without a newline.
Collected ==
    /\ pc = "back" /\ ret = 0 => n = 0
    /\ pc \in {"back", "write"} /\ ret > 0 =>
          /\ n \in 1 .. HandedOut /\ \A i \in 0 .. n - 1 : usrbuf[i] = HandedOut - n + 1 + i
          /\ \/ ret = n /\ (loop # "bytes" => n < MaxLine)
             \/ /\ ret = n + 1 /\ usrbuf[n] = 0 /\ loop # "bytes"
                /\ \/ ret = MaxLine /\ usrbuf[MaxLine - 2] \notin newlines
                   \/ ret < MaxLine /\ HandedOut = Length /\ Length \notin newlines

\* Of a response a NUL byte is written at the end of the stream only.
ToWrite ==
    pc = "write" => /\ ret > 0
                    /\ \/ want = n
                       \/ /\ want = n + 1 /\ usrbuf[n] = 0
                          /\ Request \/ (HandedOut = Length /\ Length \notin newlines)

\* The stream has ended, and nothing of it waits to be written.
Drained ==
    /\ HandedOut = Length
    /\ InCall => n = 0
    /\ pc = "back" => ret <= 0
    /\ pc = "write" => written = want

NulEnds == ~ Request => \A j \in 1 .. Len(out) : out[j] = 0 => Drained

UpTo == ~ gone /\ ~ Ended => Reached(Len(out), Sent)

SendInv == Inv /\ Straight /\ InLoop /\ Collected /\ ToWrite /\ NulEnds /\ UpTo

LEMMA SendInit == Init => SendInv
<1> SUFFICES ASSUME Init PROVE SendInv
    OBVIOUS
<1>1. Inv
    BY InvInit
<1>2. out = <<>> /\ Len(out) = 0 /\ pc = "turn" /\ loop \in {"request", "head"}
    BY DEF Init
<1>3. HandedOut = 0
    BY DEF Init, HandedOut, Unread
<1> QED BY <1>1, <1>2, <1>3
        DEF SendInv, Straight, InLoop, Collected, ToWrite, NulEnds, UpTo, Reached, Sent, Ended

\* A step that writes nothing.
LEMMA SendsNothing ==
    ASSUME SendInv, Inv', UNCHANGED <<out, newlines>>, Request' = Request,
           InLoop', Collected', ToWrite', Drained => Drained',
           ~ gone' /\ ~ Ended' => ~ gone /\ ~ Ended /\ Sent' = Sent
    PROVE  SendInv'
<1>1. Straight'
    BY DEF SendInv, Straight, Reached
<1>2. NulEnds'
    BY DEF SendInv, NulEnds
<1>3. UpTo'
    BY DEF SendInv, UpTo, Reached
<1> QED BY <1>1, <1>2, <1>3 DEF SendInv

LEMMA SendFill == SendInv /\ (Fill \/ Interrupted) => SendInv'
<1> SUFFICES ASSUME SendInv, Fill \/ Interrupted PROVE SendInv'
    OBVIOUS
<1>1. Inv /\ Inv'
    BY FillKeeps, EndKeeps DEF SendInv
<1>2. UNCHANGED <<newlines, usrbuf, n, want, ret, loop, pc, written, gone, out>> /\ InCall
    BY DEF Fill, Interrupted, sink
<1>3. HandedOut' = HandedOut
  <2>1. Numbers
    BY <1>1, InvNumbers
  <2>2. CASE Fill
    <3>1. PICK k \in 1 .. BufSize : fetched + k <= Length /\ Refill(k)
      BY <2>2 DEF Fill
    <3>2. rio_cnt <= 0 /\ fetched' = fetched + k /\ rio_cnt' = k /\ k \in Int /\ k > 0
      BY <2>1, <2>2, <3>1 DEF Fill, Refill, Numbers
    <3> QED BY <2>1, <3>2 DEF HandedOut, Unread, Numbers
  <2>3. CASE Interrupted
    BY <2>1, <2>3 DEF Interrupted, HandedOut, Unread, Numbers
  <2> QED BY <2>2, <2>3
<1>4. Request' = Request /\ Ended' = Ended /\ InLoop'
    BY <1>2 DEF SendInv, InLoop, Request, Ended
<1>5. Collected' /\ ToWrite'
    BY <1>2 DEF InCall, Collected, ToWrite
<1>6. Drained => Drained'
    BY <1>2, <1>3 DEF Drained, InCall
<1>7. Sent' = Sent
    BY <1>2, <1>3 DEF Sent
<1> QED BY <1>1, <1>2, <1>4, <1>5, <1>6, <1>7, SendsNothing

LEMMA SendEnd == SendInv /\ (EndOfStream \/ ReadFails) => SendInv'
<1> SUFFICES ASSUME SendInv, EndOfStream \/ ReadFails PROVE SendInv'
    OBVIOUS
<1>1. Inv /\ Inv' /\ Numbers
    BY EndKeeps, InvNumbers DEF SendInv
<1>2. /\ InCall /\ HandedOut' = HandedOut /\ HandedOut = fetched
      /\ UNCHANGED <<newlines, n, want, loop, written, gone, out>> /\ pc' = "back"
    BY <1>1, NothingTaken DEF EndOfStream, ReadFails, Return, sink
<1>3. Request' = Request /\ Ended' = Ended /\ InLoop'
    BY <1>2 DEF SendInv, InLoop, Request, Ended, InCall
<1>4. Sent' = Sent
    BY <1>2 DEF Sent, InCall
<1>5. ToWrite'
    BY <1>2 DEF ToWrite
<1>6. n >= 0 /\ n <= HandedOut
    BY <1>1, <1>2 DEF Inv, Room, Numbers
<1>7. CASE ReadFails \/ (EndOfStream /\ n = 0)
  <2>1. ret' = -1 \/ (ret' = 0 /\ n = 0)
    <3>1. CASE ReadFails
      BY <3>1 DEF ReadFails, Return
    <3>2. CASE EndOfStream /\ n = 0
      <4>1. ~ n > 0
        BY <3>2
      <4> QED BY <3>2, <4>1 DEF EndOfStream, Return
    <3> QED BY <1>7, <3>1, <3>2
  <2>2. Collected' /\ (Drained => Drained')
    BY <1>2, <2>1 DEF Collected, Drained, InCall
  <2> QED BY <1>1, <1>2, <1>3, <1>4, <1>5, <2>2, SendsNothing
<1>8. CASE EndOfStream /\ n # 0
  <2>1. n >= 1 /\ n \in 1 .. HandedOut /\ fetched = Length /\ ~ Drained
    BY <1>1, <1>2, <1>6, <1>8 DEF EndOfStream, Drained, Numbers
  <2>2. \A i \in 0 .. n - 1 : usrbuf[i] = HandedOut - n + 1 + i
    BY <1>1, <1>2 DEF Inv, InOrder
  <2>3. CASE pc = "bytes"
    <3>1. ret' = n /\ usrbuf' = usrbuf /\ loop = "bytes"
      BY <1>8, <2>3 DEF EndOfStream, Return, SendInv, InLoop
    <3>2. Collected'
      BY <1>2, <1>8, <2>1, <2>2, <3>1 DEF Collected
    <3> QED BY <1>1, <1>2, <1>3, <1>4, <1>5, <2>1, <3>2, SendsNothing
  <2>4. CASE pc = "line"
    <3>1. ret' = n + 1 /\ usrbuf' = [usrbuf EXCEPT ![n] = 0] /\ loop # "bytes"
      BY <1>8, <2>4 DEF EndOfStream, Return, LineRet, SendInv, InLoop
    <3>2. n <= MaxLine - 2
      BY <1>1, <2>4 DEF Inv, Room
    <3>3. usrbuf'[n] = 0 /\ \A i \in 0 .. n - 1 : usrbuf'[i] = usrbuf[i]
      BY <1>1, <2>1, <3>1, <3>2 DEF Inv, TypeOK, Numbers
    <3>4. Length \notin newlines
      <4>1. n - 1 \in 0 .. n - 1 /\ HandedOut - n + 1 + (n - 1) = Length
        BY <1>1, <1>2, <2>1 DEF Numbers
      <4> QED BY <1>1, <2>4, <4>1 DEF Inv, NoNewline
    <3>5. ret' < MaxLine /\ HandedOut' = Length /\ ret' # 0
      BY <1>1, <1>2, <2>1, <3>1, <3>2 DEF Numbers
    <3>6. Collected'
      BY <1>2, <1>8, <2>1, <2>2, <3>1, <3>3, <3>4, <3>5 DEF Collected
    <3> QED BY <1>1, <1>2, <1>3, <1>4, <1>5, <2>1, <3>6, SendsNothing
  <2> QED BY <1>2, <2>3, <2>4 DEF InCall
<1> QED BY <1>7, <1>8

\* While bytes are unread not all of the stream was handed out.
LEMMA Undrained == Inv /\ rio_cnt > 0 => HandedOut < Length
<1> SUFFICES ASSUME Inv, rio_cnt > 0 PROVE HandedOut < Length
    OBVIOUS
<1> QED BY InvNumbers DEF Numbers

LEMMA SendTakeByte == SendInv /\ TakeByte => SendInv'
<1> SUFFICES ASSUME SendInv, TakeByte PROVE SendInv'
    OBVIOUS
<1>1. Inv /\ Inv' /\ Numbers
    BY TakeByteKeeps, InvNumbers DEF SendInv
<1>2. /\ pc = "line" /\ InCall /\ rio_cnt > 0 /\ Advance(1)
      /\ UNCHANGED <<newlines, fetched, rio_buf, want, loop, written, gone, out>>
    BY DEF TakeByte, InCall, sink
<1>3. want = MaxLine /\ n <= MaxLine - 2 /\ n <= HandedOut /\ n >= 0
    BY <1>1, <1>2 DEF Inv, Room, Numbers
<1>4. /\ n' = n + 1 /\ HandedOut' = HandedOut + 1
      /\ Copied(1) \in [0 .. MaxLine - 1 -> Byte]
      /\ \A i \in 0 .. n' - 1 : Copied(1)[i] = HandedOut' - n' + 1 + i
  <2>1. 1 \in 1 .. rio_cnt /\ n + 1 < MaxLine + 1
    BY <1>1, <1>2, <1>3 DEF Numbers
  <2> QED BY <1>1, <1>2, <2>1, Taking
<1>5. ~ Drained
    BY <1>1, <1>2, Undrained DEF Drained, Numbers
<1>6. pc' \in {"line", "back"} /\ Request' = Request /\ Ended' = Ended /\ InLoop'
  <2>1. pc' \in {"line", "back"}
    BY <1>2 DEF TakeByte, Return
  <2> QED BY <1>2, <2>1 DEF SendInv, InLoop, Request, Ended
<1>7. Sent' = Sent
  <2>1. HandedOut' - n' = HandedOut - n
    BY <1>1, <1>4 DEF Numbers
  <2> QED BY <1>2, <1>6, <2>1 DEF Sent
<1>8. ToWrite'
    BY <1>6 DEF ToWrite
<1>9. Collected'
  <2>1. CASE pc' = "line"
    BY <2>1 DEF Collected
  <2>2. CASE pc' = "back"
    <3> DEFINE newline == rio_buf[rio_bufptr] \in newlines
    <3>1. /\ newline \/ n + 1 = MaxLine - 1
          /\ usrbuf' = [Copied(1) EXCEPT ![n + 1] = 0] /\ ret' = LineRet(n + 1, newline)
      BY <1>2, <1>3, <2>2 DEF TakeByte, Return
    <3>2. n + 1 \in 0 .. MaxLine - 1 /\ n + 1 \in Nat
      BY <1>1, <1>3 DEF Numbers
    <3>3. /\ usrbuf'[n + 1] = 0
          /\ \A i \in 0 .. n : i # n + 1 /\ i \in 0 .. MaxLine - 1 /\ usrbuf'[i] = Copied(1)[i]
      BY <1>1, <1>3, <1>4, <3>1, <3>2 DEF Numbers
    <3>4. \A i \in 0 .. n' - 1 : usrbuf'[i] = HandedOut' - n' + 1 + i
      BY <1>1, <1>4, <3>3 DEF Numbers
    <3>5. loop' # "bytes" /\ n' \in 1 .. HandedOut' /\ n' < MaxLine /\ ret' # 0
      BY <1>1, <1>2, <1>3, <1>4, <3>1 DEF SendInv, InLoop, LineRet, Numbers
    <3>6. CASE newline
      BY <1>4, <3>1, <3>4, <3>5, <3>6 DEF Collected, LineRet
    <3>7. CASE ~ newline
      <4>1. ret' = n' + 1 /\ ret' = MaxLine /\ n = MaxLine - 2
        BY <1>1, <1>3, <1>4, <3>1, <3>7 DEF LineRet, Numbers
      <4>2. usrbuf'[MaxLine - 2] = HandedOut + 1
        BY <1>1, <1>3, <1>4, <3>4, <4>1 DEF Numbers
      <4>3. rio_buf[rio_bufptr] = HandedOut + 1
        BY <1>1, <1>2, NextByte
      <4>4. usrbuf'[MaxLine - 2] \notin newlines' /\ usrbuf'[n'] = 0
        BY <1>2, <1>4, <3>3, <3>7, <4>2, <4>3
      <4> QED BY <3>4, <3>5, <4>1, <4>4 DEF Collected
    <3> QED BY <3>6, <3>7
  <2> QED BY <1>6, <2>1, <2>2
<1> QED BY <1>1, <1>2, <1>5, <1>6, <1>7, <1>8, <1>9, SendsNothing

LEMMA SendTakeBytes == SendInv /\ TakeBytes => SendInv'
<1> SUFFICES ASSUME SendInv, TakeBytes PROVE SendInv'
    OBVIOUS
<1> DEFINE k == Least(rio_cnt, want - n)
<1>1. Inv /\ Inv' /\ Numbers
    BY TakeBytesKeeps, InvNumbers DEF SendInv
<1>2. /\ pc = "bytes" /\ InCall /\ rio_cnt > 0 /\ Advance(k) /\ usrbuf' = Copied(k)
      /\ UNCHANGED <<newlines, fetched, rio_buf, want, loop, written, gone, out>>
      /\ IF n + k = want THEN ret' = want /\ pc' = "back" ELSE UNCHANGED <<ret, pc>>
    BY DEF TakeBytes, InCall, sink, Return
<1>3. want \in 1 .. MaxLine /\ n < want /\ n <= HandedOut /\ n >= 0
    BY <1>1, <1>2 DEF Inv, Room, Numbers
<1>4. k \in 1 .. rio_cnt /\ n + k <= want
    BY <1>1, <1>2, <1>3 DEF Least, Numbers
<1> HIDE DEF k
<1>5. /\ n' = n + k /\ HandedOut' = HandedOut + k
      /\ \A i \in 0 .. n' - 1 : Copied(k)[i] = HandedOut' - n' + 1 + i
  <2>1. n + k < MaxLine + 1
    BY <1>1, <1>3, <1>4 DEF Numbers
  <2> QED BY <1>1, <1>2, <1>4, <2>1, Taking
<1>6. ~ Drained
    BY <1>1, <1>2, Undrained DEF Drained, Numbers
<1>7. pc' \in {"bytes", "back"} /\ Request' = Request /\ Ended' = Ended /\ InLoop'
    BY <1>2 DEF SendInv, InLoop, Request, Ended
<1>8. Sent' = Sent
  <2>1. HandedOut' - n' = HandedOut - n
    BY <1>1, <1>4, <1>5 DEF Numbers
  <2> QED BY <1>2, <1>7, <2>1 DEF Sent
<1>9. ToWrite'
    BY <1>7 DEF ToWrite
<1>10. Collected'
  <2>1. CASE pc' = "bytes"
    BY <2>1 DEF Collected
  <2>2. CASE pc' = "back"
    <3>1. ret' = n' /\ n' \in 1 .. HandedOut' /\ loop' = "bytes"
      BY <1>1, <1>2, <1>3, <1>4, <1>5, <2>2 DEF SendInv, InLoop, Numbers
    <3> QED BY <1>2, <1>5, <2>2, <3>1 DEF Collected
  <2> QED BY <1>7, <2>1, <2>2
<1> QED BY <1>1, <1>2, <1>6, <1>7, <1>8, <1>9, <1>10, SendsNothing

LEMMA SendTurn == SendInv /\ Turn => SendInv'
<1> SUFFICES ASSUME SendInv, Turn PROVE SendInv'
    OBVIOUS
<1>1. Inv /\ Inv' /\ Numbers
    BY TurnKeeps, InvNumbers DEF SendInv
<1>2. /\ pc = "turn" /\ n' = 0 /\ ~ Ended /\ UNCHANGED <<rio, usrbuf, ret, loop, sink>>
      /\ \/ pc' = "line" /\ loop \in {"request", "head", "lines"}
         \/ pc' = "bytes" /\ loop = "bytes"
    BY DEF Turn, AskLine, AskBytes, Call
<1>3. HandedOut' = HandedOut
    BY <1>2 DEF HandedOut, Unread, rio
<1>4. Request' = Request /\ ~ Ended' /\ InLoop'
    BY <1>2 DEF InLoop, Request, Ended
<1>5. Collected' /\ ToWrite' /\ (Drained => Drained')
    BY <1>2, <1>3 DEF Collected, ToWrite, Drained
<1>6. Sent' = Sent
    BY <1>1, <1>2, <1>3 DEF Sent, Numbers
<1>7. UNCHANGED <<out, newlines, gone>>
    BY <1>2 DEF rio, sink
<1> QED BY <1>1, <1>2, <1>4, <1>5, <1>6, <1>7, SendsNothing

\* The steps around a write.
LEMMA SendLoop ==
    ASSUME SendInv, ~ skipped', LoopEnds \/ StartWrite \/ WriteEnds \/ WriteFails
    PROVE  SendInv'
<1>1. Inv /\ Inv' /\ Numbers
    BY LoopKeeps, InvNumbers DEF SendInv
<1>2. UNCHANGED <<rio, usrbuf, n, ret, out>> /\ pc' \in {"turn", "write"} /\ ~ InCall'
    BY DEF LoopEnds, StartWrite, WriteEnds, WriteFails, sink, InCall
<1>3. HandedOut' = HandedOut /\ newlines' = newlines
    BY <1>2 DEF HandedOut, Unread, rio
<1>4. ~ Ended
    BY DEF SendInv, InLoop, LoopEnds, StartWrite, WriteEnds, WriteFails
<1>5. CASE StartWrite
  <2>1. /\ pc = "back" /\ ret > 0 /\ pc' = "write" /\ want' = Fixed(ret) /\ written' = 0
        /\ loop' = loop /\ gone' = gone
    BY <1>5 DEF StartWrite
  <2>2. Request' = Request /\ Ended' = Ended /\ InLoop'
    BY <1>4, <2>1 DEF InLoop, Request, Ended
  <2>3. /\ n \in 1 .. HandedOut /\ \A i \in 0 .. n - 1 : usrbuf[i] = HandedOut - n + 1 + i
        /\ \/ ret = n /\ (loop # "bytes" => n < MaxLine)
           \/ /\ ret = n + 1 /\ usrbuf[n] = 0 /\ loop # "bytes"
              /\ \/ ret = MaxLine /\ usrbuf[MaxLine - 2] \notin newlines
                 \/ ret < MaxLine /\ HandedOut = Length /\ Length \notin newlines
    BY <2>1 DEF SendInv, Collected
  <2>4. Collected'
    BY <1>2, <1>3, <2>1, <2>3 DEF Collected
  <2>5. ToWrite'
    <3>1. CASE ret = n
      <4>1. Fixed(ret) = ret
        BY <1>1, <2>3, <3>1 DEF Fixed, Numbers
      <4> QED BY <1>2, <2>1, <3>1, <4>1 DEF ToWrite
    <3>2. CASE ret # n
      <4>1. /\ ret = n + 1 /\ usrbuf[n] = 0 /\ loop # "bytes"
            /\ \/ ret = MaxLine /\ usrbuf[MaxLine - 2] \notin newlines
               \/ ret < MaxLine /\ HandedOut = Length /\ Length \notin newlines
        BY <2>3, <3>2
      <4>2. CASE loop \in {"head", "lines"} /\ ret = MaxLine
        <5>1. Fixed(ret) = n
          BY <1>1, <4>1, <4>2 DEF Fixed, Numbers
        <5> QED BY <1>2, <2>1, <5>1 DEF ToWrite
      <4>3. CASE ~ (loop \in {"head", "lines"} /\ ret = MaxLine)
        <5>1. Fixed(ret) = n + 1
          BY <4>1, <4>3 DEF Fixed
        <5>2. Request' \/ (HandedOut' = Length /\ Length \notin newlines')
          <6>1. CASE loop \in {"head", "lines"}
            BY <1>3, <4>1, <4>3, <6>1
          <6>2. CASE loop \notin {"head", "lines"}
            <7>1. loop = "request"
              BY <1>1, <1>4, <4>1, <6>2 DEF Inv, TypeOK, Ended
            <7> QED BY <2>1, <7>1 DEF Request
          <6> QED BY <6>1, <6>2
        <5> QED BY <1>2, <2>1, <4>1, <5>1, <5>2 DEF ToWrite
      <4> QED BY <4>2, <4>3
    <3> QED BY <3>1, <3>2
  <2>6. ~ Drained
    BY <1>1, <2>1 DEF Drained, Numbers
  <2>7. Sent' = Sent
    BY <1>1, <1>2, <1>3, <2>1, <2>3 DEF Sent, Least, Numbers
  <2> QED BY <1>1, <1>2, <1>3, <2>1, <2>2, <2>4, <2>5, <2>6, <2>7, SendsNothing
<1>6. CASE ~ StartWrite
  <2>1. pc' = "turn"
    BY <1>6 DEF LoopEnds, WriteEnds, WriteFails
  <2>2. InLoop' /\ Collected' /\ ToWrite' /\ (Drained => Drained')
    BY <1>2, <1>3, <2>1 DEF InLoop, Collected, ToWrite, Drained, InCall
  <2>3. Request' = Request
    <3>1. CASE LoopEnds
      BY <1>4, <3>1 DEF LoopEnds, Request, End, Ended
    <3>2. GoesOn => Request' = Request
      <4>1. CASE loop = "request"
        BY <4>1 DEF GoesOn, Request
      <4>2. CASE loop # "request"
        BY <1>4, <4>2 DEF GoesOn, Request, Ended
      <4> QED BY <4>1, <4>2
    <3>3. CASE WriteEnds
      BY <3>2, <3>3 DEF WriteEnds
    <3>4. CASE WriteFails
      <4>1. (loop # "request" /\ loop' = "done") \/ GoesOn
        BY <3>4 DEF WriteFails, End
      <4> QED BY <1>4, <3>2, <4>1 DEF Request, Ended
    <3> QED BY <1>6, <3>1, <3>3, <3>4
  <2>4. ~ gone' /\ ~ Ended' => ~ gone /\ Sent' = Sent
    <3>1. CASE LoopEnds
      <4>1. gone' = gone /\ pc = "back" /\ (Ended' \/ ret = 0)
        BY <3>1 DEF LoopEnds, End, Ended, sink
      <4>2. ret = 0 => n = 0
        BY <4>1 DEF SendInv, Collected
      <4>3. ret = 0 => HandedOut - n = HandedOut
        BY <1>1, <4>2 DEF Numbers
      <4> QED BY <1>3, <2>1, <4>1, <4>3 DEF Sent
    <3>2. CASE WriteEnds
      <4>1. gone' = gone /\ pc = "write" /\ written = want
        BY <3>2 DEF WriteEnds, sink
      <4>2. want = n \/ want = n + 1
        BY <4>1 DEF SendInv, ToWrite
      <4>3. HandedOut - n + Least(written, n) = HandedOut
        BY <1>1, <4>1, <4>2 DEF Least, Numbers
      <4> QED BY <1>3, <2>1, <4>1, <4>3 DEF Sent
    <3>3. CASE WriteFails
      BY <3>3 DEF WriteFails
    <3> QED BY <1>6, <3>1, <3>2, <3>3
  <2> QED BY <1>1, <1>2, <1>3, <1>4, <2>2, <2>3, <2>4, SendsNothing
<1> QED BY <1>5, <1>6

\* Reached of any sequence.
LastIs(q, m, x) ==
    IF x = 0 THEN \A i \in 1 .. m : q[i] = 0
    ELSE \E i \in 1 .. m : q[i] = x /\ \A j \in i + 1 .. m : q[j] = 0

\* Each of the first m bytes that is no NUL byte follows the one before it.
Chained(q, m) == \A i \in 1 .. m : q[i] # 0 => LastIs(q, i - 1, q[i] - 1)

LEMMA Joined ==
    ASSUME NEW S, NEW s \in Seq(S), NEW t \in Seq(S)
    PROVE  /\ s \o t \in Seq(S) /\ Len(s \o t) = Len(s) + Len(t)
           /\ \A i \in 1 .. Len(s) : (s \o t)[i] = s[i]
           /\ \A i \in 1 .. Len(t) : (s \o t)[Len(s) + i] = t[i]
OBVIOUS

\* Bytes that continue the stream, and then perhaps NUL bytes, are written after the
\* bytes up to s.
LEMMA Continues ==
    ASSUME NEW S, NEW o \in Seq(S), NEW l \in Nat, l = Len(o),
           NEW s \in Nat, LastIs(o, l, s),
           Chained(o, l),
           NEW k \in Nat, NEW p \in 0 .. k, NEW f \in Seq(S), Len(f) = k,
           \A i \in 1 .. k : f[i] = IF i <= p THEN s + i ELSE 0,
           NEW t, t = o \o f
    PROVE  LastIs(t, l + k, s + p) /\ Chained(t, l + k)
<1>1. o \in Seq(S) /\ f \in Seq(S) /\ l \in Nat /\ k \in Nat
    OBVIOUS
<1>2. /\ t \in Seq(S) /\ Len(t) = l + k /\ \A j \in 1 .. l : t[j] = o[j]
      /\ \A i \in 1 .. k : t[l + i] = f[i]
  <2>1. /\ o \o f \in Seq(S) /\ Len(o \o f) = Len(o) + Len(f)
        /\ \A i \in 1 .. Len(o) : (o \o f)[i] = o[i]
        /\ \A i \in 1 .. Len(f) : (o \o f)[Len(o) + i] = f[i]
    BY ONLY <1>1, Joined
  <2> QED BY ONLY <2>1, l = Len(o), Len(f) = k, t = o \o f
<1>3. ASSUME NEW m \in 0 .. l, NEW x, LastIs(o, m, x) PROVE LastIs(t, m, x)
  <2>1. \A i \in 1 .. m : i \in 1 .. l
    OBVIOUS
  <2>2. \A i \in 1 .. m : t[i] = o[i]
    BY <1>2, <2>1
  <2>3. CASE x = 0
    BY <1>3, <2>2, <2>3 DEF LastIs
  <2>4. CASE x # 0
    <3>1. PICK i \in 1 .. m : o[i] = x /\ \A j \in i + 1 .. m : o[j] = 0
      BY <1>3, <2>4 DEF LastIs
    <3>2. \A j \in i + 1 .. m : j \in 1 .. m
      OBVIOUS
    <3>3. t[i] = x /\ \A j \in i + 1 .. m : t[j] = 0
      BY <2>2, <3>1, <3>2
    <3> QED BY <2>4, <3>3 DEF LastIs
  <2> QED BY <2>3, <2>4
<1>4. LastIs(t, l, s)
  <2>1. l \in 0 .. l
    OBVIOUS
  <2> QED BY <1>3, <2>1
<1>5. \A i \in 1 .. k : t[l + i] = IF i <= p THEN s + i ELSE 0
    BY <1>2
\* After the first i of them, the last one is s + i.
<1>6. ASSUME NEW i \in 0 .. p PROVE LastIs(t, l + i, s + i)
  <2>1. CASE i = 0
    BY <1>4, <2>1
  <2>2. CASE i # 0
    <3>1. /\ i \in 1 .. k /\ l + i \in 1 .. l + i /\ s + i # 0
          /\ \A j \in l + i + 1 .. l + i : FALSE
      BY <2>2
    <3>2. t[l + i] = s + i
      BY <1>5, <3>1
    <3> QED BY <3>1, <3>2 DEF LastIs
  <2> QED BY <2>1, <2>2
<1>7. LastIs(t, l + k, s + p)
  <2>1. LastIs(t, l + p, s + p)
    <3>1. p \in 0 .. p
      OBVIOUS
    <3> QED BY <1>6, <3>1
  <2>2. \A j \in l + p + 1 .. l + k : t[j] = 0
    <3> SUFFICES ASSUME NEW j \in l + p + 1 .. l + k PROVE t[j] = 0
      OBVIOUS
    <3>1. j - l \in 1 .. k /\ ~ j - l <= p /\ l + (j - l) = j
      OBVIOUS
    <3> QED BY <1>5, <3>1
  <2>3. CASE s + p = 0
    <3>1. \A j \in 1 .. l + k : j \in 1 .. l + p \/ j \in l + p + 1 .. l + k
      OBVIOUS
    <3> QED BY <2>1, <2>2, <2>3, <3>1 DEF LastIs
  <2>4. CASE s + p # 0
    <3>1. PICK i \in 1 .. l + p : t[i] = s + p /\ \A j \in i + 1 .. l + p : t[j] = 0
      BY <2>1, <2>4 DEF LastIs
    <3>2. /\ i \in 1 .. l + k
          /\ \A j \in i + 1 .. l + k : j \in i + 1 .. l + p \/ j \in l + p + 1 .. l + k
      OBVIOUS
    <3>3. \A j \in i + 1 .. l + k : t[j] = 0
      BY <2>2, <3>1, <3>2
    <3> QED BY <2>4, <3>1, <3>2, <3>3 DEF LastIs
  <2> QED BY <2>3, <2>4
<1>8. ASSUME NEW j \in 1 .. l + k, t[j] # 0 PROVE LastIs(t, j - 1, t[j] - 1)
  <2>1. CASE j <= l
    <3>1. j \in 1 .. l /\ j - 1 \in 0 .. l
      BY <2>1
    <3>2. t[j] = o[j]
      BY <1>2, <3>1
    <3>3. LastIs(o, j - 1, o[j] - 1)
      BY <1>8, <3>1, <3>2 DEF Chained
    <3> QED BY <1>3, <3>1, <3>2, <3>3, Zenon
  <2>2. CASE ~ j <= l
    <3>1. PICK i \in 1 .. k : i = j - l /\ j = l + i
      <4>1. j - l \in 1 .. k /\ j = l + (j - l)
        BY <2>2
      <4> QED BY <4>1
    <3>2. i <= p /\ t[j] = s + i
      BY <1>5, <1>8, <3>1
    <3>3. i - 1 \in 0 .. p /\ l + (i - 1) = j - 1 /\ s + (i - 1) = t[j] - 1
      BY <3>1, <3>2
    <3>4. LastIs(t, l + (i - 1), s + (i - 1))
      BY <1>6, <3>3
    <3> QED BY <3>3, <3>4
  <2> QED BY <2>1, <2>2
<1> QED BY <1>7, <1>8 DEF Chained

LEMMA SendWrite == SendInv /\ Write => SendInv'
<1> SUFFICES ASSUME SendInv, Write PROVE SendInv'
    OBVIOUS
<1>1. Inv /\ Inv' /\ Numbers
    BY WriteKeeps, InvNumbers DEF SendInv
<1>2. /\ pc = "write" /\ written < want /\ ~ gone
      /\ UNCHANGED <<rio, usrbuf, n, want, ret, loop, pc, gone>>
    BY DEF Write
<1>3. PICK k \in 1 .. want - written :
          out' = out \o [i \in 1 .. k |-> usrbuf[written + i - 1]] /\ written' = written + k
    BY DEF Write
<1>4. HandedOut' = HandedOut /\ newlines' = newlines
    BY <1>2 DEF HandedOut, Unread, rio
<1>5. ~ Ended /\ Request' = Request /\ Ended' = Ended /\ InLoop'
    BY <1>2 DEF SendInv, InLoop, Request, Ended
<1>6. /\ n \in 1 .. HandedOut /\ \A i \in 0 .. n - 1 : usrbuf[i] = HandedOut - n + 1 + i
      /\ \/ want = n
         \/ /\ want = n + 1 /\ usrbuf[n] = 0
            /\ Request \/ (HandedOut = Length /\ Length \notin newlines)
    BY <1>2 DEF SendInv, Collected, ToWrite
<1>7. Collected' /\ ToWrite'
    BY <1>2, <1>4, <1>5 DEF SendInv, Collected, ToWrite
<1>8. PICK h \in Nat : h = HandedOut
    BY <1>1 DEF Numbers
<1>9. /\ n \in Nat /\ written \in Nat /\ want \in 0 .. MaxLine /\ MaxLine \in Nat
      /\ Length \in Nat /\ k \in Nat /\ k >= 1 /\ written + k <= want
    BY <1>1, <1>3 DEF Numbers
<1>10. written <= n /\ want <= n + 1 /\ n <= h /\ n >= 1
    BY <1>2, <1>6, <1>8, <1>9
<1>11. PICK s \in Nat : s = h - n + written
    BY <1>9, <1>10
<1>12. Reached(Len(out), s)
  <2>1. Sent = s
    BY <1>2, <1>8, <1>9, <1>10, <1>11 DEF Sent, Least
  <2> QED BY <1>2, <1>5, <2>1 DEF SendInv, UpTo
<1>13. PICK p \in 0 .. k : p = IF written + k <= n THEN k ELSE k - 1
    BY <1>9
<1>14. PICK f : f = [i \in 1 .. k |-> usrbuf[written + i - 1]]
    OBVIOUS
<1>15. \A i \in 1 .. k : f[i] = IF i <= p THEN s + i ELSE 0
  <2> SUFFICES ASSUME NEW i \in 1 .. k PROVE f[i] = IF i <= p THEN s + i ELSE 0
    OBVIOUS
  <2>1. f[i] = usrbuf[written + i - 1]
    BY <1>14
  <2>2. CASE i <= p
    <3>1. written + i - 1 \in 0 .. n - 1
      BY <1>9, <1>10, <1>13, <2>2
    <3>2. usrbuf[written + i - 1] = h - n + 1 + (written + i - 1)
      BY <1>6, <1>8, <3>1
    <3> QED BY <1>9, <1>11, <2>1, <2>2, <3>2
  <2>3. CASE ~ i <= p
    <3>1. written + i - 1 = n /\ want = n + 1
      BY <1>6, <1>9, <1>10, <1>13, <2>3
    <3> QED BY <1>6, <1>9, <2>1, <2>3, <3>1
  <2> QED BY <2>2, <2>3
<1>16. f \in Seq(Byte) /\ Len(f) = k
  <2>1. ASSUME NEW i \in 1 .. k PROVE usrbuf[written + i - 1] \in Byte
    <3>1. written + i - 1 \in 0 .. MaxLine - 1
      BY <1>9
    <3> QED BY <1>1, <3>1 DEF Inv, TypeOK
  <2> QED BY <1>9, <1>14, <2>1
<1>17. PICK l \in Nat : l = Len(out)
    BY <1>1 DEF Inv, TypeOK
<1>18. out \in Seq(Byte) /\ out' = out \o f
    BY <1>1, <1>3, <1>14 DEF Inv, TypeOK
<1>19. LastIs(out, l, s) /\ Chained(out, l)
    BY <1>12, <1>17 DEF SendInv, Straight, Reached, LastIs, Chained
<1>20. PICK o, t : o = out /\ t = out'
    OBVIOUS
<1>21. /\ t \in Seq(Byte) /\ Len(t) = l + k /\ \A j \in 1 .. l : t[j] = o[j]
       /\ \A i \in 1 .. k : t[l + i] = f[i]
       /\ LastIs(t, l + k, s + p) /\ Chained(t, l + k)
  <2>1. o \in Seq(Byte) /\ f \in Seq(Byte)
    BY <1>16, <1>18, <1>20
  <2>2. l = Len(o) /\ LastIs(o, l, s) /\ Chained(o, l) /\ t = o \o f
    BY <1>17, <1>18, <1>19, <1>20
  <2>3. l \in Nat /\ s \in Nat /\ k \in Nat /\ p \in 0 .. k
    BY <1>9
  <2>4. /\ t \in Seq(Byte) /\ Len(t) = l + k /\ \A j \in 1 .. l : t[j] = o[j]
        /\ \A i \in 1 .. k : t[l + i] = f[i]
    <3>1. /\ o \o f \in Seq(Byte) /\ Len(o \o f) = Len(o) + Len(f)
          /\ \A i \in 1 .. Len(o) : (o \o f)[i] = o[i]
          /\ \A i \in 1 .. Len(f) : (o \o f)[Len(o) + i] = f[i]
      BY ONLY <2>1, Joined
    <3> QED BY ONLY <1>16, <2>2, <3>1
  <2>5. LastIs(t, l + k, s + p)
    BY ONLY <1>15, <1>16, <2>1, <2>2, <2>3, Continues
  <2>6. Chained(t, l + k)
    BY ONLY <1>15, <1>16, <2>1, <2>2, <2>3, Continues
  <2> QED BY <2>4, <2>5, <2>6
\* A NUL byte of a response is the last one.
<1>22. ASSUME ~ Request, NEW j \in 1 .. l + k, t[j] = 0
       PROVE  /\ j > 1 /\ j = l + k /\ t[j - 1] = Length /\ Length \notin newlines
              /\ HandedOut = Length /\ written + k = want
  <2>1. ~ Drained
    BY <1>2, <1>9 DEF Drained
  <2>2. \A i \in 1 .. l : o[i] # 0
    BY <1>17, <1>20, <1>22, <2>1 DEF SendInv, NulEnds
  <2>3. ~ j <= l
    BY <1>21, <1>22, <2>2
  <2>4. PICK i \in 1 .. k : i = j - l /\ j = l + i
    <3>1. j - l \in 1 .. k /\ j = l + (j - l)
      BY <2>3
    <3> QED BY <3>1
  <2>5. f[i] = 0 /\ ~ i <= p
    <3>1. f[i] = 0
      BY <1>21, <1>22, <2>4
    <3>2. i <= p => f[i] # 0
      BY <1>15
    <3> QED BY <3>1, <3>2
  <2>6. i = k /\ p = k - 1 /\ written + k = want /\ want = n + 1
    BY <1>6, <1>9, <1>10, <1>13, <2>5
  <2>7. h = Length /\ Length \notin newlines /\ s + p = Length /\ Length >= 1
    BY <1>6, <1>8, <1>9, <1>10, <1>11, <1>22, <2>6
  <2>8. j > 1 /\ t[j - 1] = Length
    <3>1. CASE p = 0
      <4>1. LastIs(o, l, Length)
        BY <1>19, <1>20, <2>7, <3>1
      <4>2. PICK m \in 1 .. l : o[m] = Length /\ \A q \in m + 1 .. l : o[q] = 0
        BY <1>9, <2>7, <4>1 DEF LastIs
      <4>3. m = l
        <5>1. ~ (l \in m + 1 .. l)
          BY <2>2, <4>2
        <5> QED BY <5>1
      <4> QED BY <1>21, <2>4, <2>6, <3>1, <4>2, <4>3
    <3>2. CASE p # 0
      <4>1. k - 1 \in 1 .. k /\ k - 1 <= p /\ j - 1 = l + (k - 1) /\ j > 1
        BY <2>4, <2>6, <3>2
      <4>2. f[k - 1] = s + (k - 1)
        BY <1>15, <4>1
      <4> QED BY <1>21, <2>6, <2>7, <4>1, <4>2
    <3> QED BY <3>1, <3>2
  <2> QED BY <1>8, <2>4, <2>6, <2>7, <2>8
<1>23. Straight'
  <2>1. Len(out') = l + k /\ out' = t
    BY <1>20, <1>21
  <2>2. ASSUME NEW j \in 1 .. Len(out')
        PROVE  /\ out'[j] # 0 => LastIs(out', j - 1, out'[j] - 1)
               /\ ~ Request' /\ out'[j] = 0 =>
                    j > 1 /\ j = Len(out') /\ out'[j - 1] = Length /\ Length \notin newlines'
    BY <1>4, <1>5, <1>21, <1>22, <2>1 DEF Chained
  <2> QED BY ONLY <2>2 DEF Straight, Reached, LastIs
<1>24. NulEnds'
  <2> SUFFICES ASSUME ~ Request', NEW j \in 1 .. Len(out'), out'[j] = 0
               PROVE  Drained'
    BY DEF NulEnds
  <2>1. j \in 1 .. l + k /\ t[j] = 0 /\ ~ Request
    BY <1>5, <1>20, <1>21
  <2>2. HandedOut = Length /\ written + k = want
    BY <1>22, <2>1
  <2> QED BY <1>2, <1>3, <1>4, <2>2 DEF Drained, InCall
<1>25. UpTo'
  <2>1. Sent' = s + p
    <3>1. written' = written + k /\ n' = n /\ HandedOut' = h /\ pc' = "write"
      BY <1>2, <1>3, <1>4, <1>8
    <3> QED BY <1>9, <1>10, <1>11, <1>13, <3>1 DEF Sent, Least
  <2>2. Reached(Len(out), s + p)'
    <3>1. Len(out') = l + k
      BY <1>20, <1>21
    <3> QED BY <1>20, <1>21, <3>1 DEF Reached, LastIs
  <2> QED BY <2>1, <2>2 DEF UpTo
<1> QED BY <1>1, <1>5, <1>7, <1>23, <1>24, <1>25 DEF SendInv

\* What is skipped cannot be got back.
LEMMA SkippedStays == Inv /\ [Next]_vars /\ skipped => skipped'
<1> SUFFICES ASSUME Inv, [Next]_vars, skipped PROVE skipped'
    OBVIOUS
<1>1. CASE UNCHANGED vars
    BY <1>1 DEF vars
<1>2. CASE Reading \/ Interrupted \/ ReadFails
    BY <1>2 DEF Reading, Fill, EndOfStream, TakeByte, TakeBytes, Interrupted, ReadFails, sink
<1>3. CASE Turn
    BY <1>3 DEF Turn, AskLine, AskBytes, Call, sink
<1>4. CASE LoopEnds \/ StartWrite \/ Write \/ WriteEnds \/ WriteFails
    BY <1>4 DEF LoopEnds, StartWrite, Write, WriteEnds, WriteFails, sink
<1> QED BY <1>1, <1>2, <1>3, <1>4 DEF Next, Doit

\* Nothing was skipped so far, and what was sent on is what it should be.
AllSent == Inv /\ (~ skipped => SendInv)

LEMMA SendStep == AllSent /\ [Next]_vars => AllSent'
<1> SUFFICES ASSUME AllSent, [Next]_vars PROVE AllSent'
    OBVIOUS
<1>1. Inv /\ Inv'
    BY InvStep DEF AllSent
<1>2. ASSUME ~ skipped' PROVE SendInv'
  <2>1. SendInv
    BY <1>1, <1>2, SkippedStays DEF AllSent
  <2>2. CASE UNCHANGED vars
    <3>1. /\ Request' = Request /\ Ended' = Ended /\ Sent' = Sent /\ HandedOut' = HandedOut
          /\ UNCHANGED <<out, newlines, gone, usrbuf, n, want, ret, loop, pc, written>>
      BY <2>2 DEF vars, Request, Ended, Sent, HandedOut, Unread
    <3>2. InLoop' /\ Collected' /\ ToWrite' /\ (Drained => Drained')
      BY <2>1, <3>1 DEF SendInv, InLoop, Collected, ToWrite, Drained, InCall
    <3> QED BY <1>1, <2>1, <3>1, <3>2, SendsNothing
  <2>3. CASE Reading \/ Interrupted \/ ReadFails
    BY <2>1, <2>3, SendFill, SendEnd, SendTakeByte, SendTakeBytes DEF Reading
  <2>4. CASE Turn \/ Write
    BY <2>1, <2>4, SendTurn, SendWrite
  <2>5. CASE LoopEnds \/ StartWrite \/ WriteEnds \/ WriteFails
    BY <1>2, <2>1, <2>5, SendLoop
  <2> QED BY <2>2, <2>3, <2>4, <2>5 DEF Next, Doit
<1> QED BY <1>1, <1>2 DEF AllSent

\* What the loops of doit send on is the peer's stream from its first byte, in order and
\* without a gap, whatever pieces read() and write() take; of a response at most one NUL
\* byte goes out, after a last line without a newline.  That is as long as no read of the
\* head failed in a way that doit passes over.
THEOREM StreamSentOn == Spec => []SentOn
<1>1. Init => AllSent
    BY SendInit DEF AllSent, SendInv
<1>2. AllSent => SentOn
    BY DEF AllSent, SendInv, SentOn
<1> QED BY <1>1, <1>2, SendStep, PTL DEF Spec
=============================================================================
