----------------------------- MODULE SmtpProofs -----------------------------
(***************************************************************************)
(* Proofs about Smtp, for any credentials and any files, of any length:    *)
(* that replies stay in step with the requests although nothing but their  *)
(* order connects them, that success is reported of a mail the server has, *)
(* and that either of the two decoders of the repository gives back what   *)
(* was put into the mail.                                                  *)
(***************************************************************************)
EXTENDS Smtp, FiniteSetTheorems, WellFoundedInduction, TLAPS

-----------------------------------------------------------------------------
(* Three bytes and four digits.                                            *)

\* The digits that three bytes are spelled with.
LEMMA DigitsOf ==
    ASSUME NEW x \in Byte, NEW y \in Byte, NEW z \in Byte
    PROVE  LET c == x * 65536 + y * 256 + z IN
           /\ (c \div 262144) % 64 = x \div 4
           /\ (c \div 4096) % 64 = (x % 4) * 16 + y \div 16
           /\ (c \div 64) % 64 = (y % 16) * 4 + z \div 64
           /\ (c \div 1) % 64 = z % 64
<1>1. PICK c \in Nat : c = x * 65536 + y * 256 + z
    BY DEF Byte
<1>2. c \div 262144 = x \div 4
    BY <1>1 DEF Byte
<1>3. (x \div 4) % 64 = x \div 4
    BY DEF Byte
<1>4. c \div 4096 = 16 * x + y \div 16
    BY <1>1 DEF Byte
<1>5. (16 * x + y \div 16) % 64 = (x % 4) * 16 + y \div 16
    BY DEF Byte
<1>6. c \div 64 = 1024 * x + 4 * y + z \div 64
    BY <1>1 DEF Byte
<1>7. (1024 * x + 4 * y + z \div 64) % 64 = (y % 16) * 4 + z \div 64
    BY DEF Byte
<1>8. c \div 1 = c
    BY <1>1
<1>9. c % 64 = z % 64
    BY <1>1 DEF Byte
<1> QED BY <1>1, <1>2, <1>3, <1>4, <1>5, <1>6, <1>7, <1>8, <1>9

\* And back.
LEMMA BytesOf ==
    ASSUME NEW x \in Byte, NEW y \in Byte, NEW z \in Byte
    PROVE  LET c == x * 65536 + y * 256 + z IN
           /\ (x \div 4) * 262144 + ((x % 4) * 16 + y \div 16) * 4096
                + ((y % 16) * 4 + z \div 64) * 64 + (z % 64) = c
           /\ (c \div 65536) % 256 = x /\ (c \div 256) % 256 = y /\ (c \div 1) % 256 = z
<1>1. PICK c \in Nat : c = x * 65536 + y * 256 + z
    BY DEF Byte
<1>2. /\ x = 4 * (x \div 4) + (x % 4) /\ y = 16 * (y \div 16) + (y % 16)
      /\ z = 64 * (z \div 64) + (z % 64)
    BY DEF Byte
<1>3. /\ x \in Nat /\ y \in Nat /\ z \in Nat /\ x \div 4 \in Nat /\ x % 4 \in Nat
      /\ y \div 16 \in Nat /\ y % 16 \in Nat /\ z \div 64 \in Nat /\ z % 64 \in Nat
    BY DEF Byte
<1>4. (x \div 4) * 262144 + ((x % 4) * 16 + y \div 16) * 4096
                + ((y % 16) * 4 + z \div 64) * 64 + (z % 64) = c
    BY <1>1, <1>2, <1>3
<1>5. c \div 65536 = x /\ x % 256 = x
    BY <1>1 DEF Byte
<1>6. c \div 256 = 256 * x + y /\ (256 * x + y) % 256 = y
    BY <1>1 DEF Byte
<1>7. c \div 1 = c /\ c % 256 = z
    BY <1>1 DEF Byte
<1> QED BY <1>1, <1>4, <1>5, <1>6, <1>7

\* A byte is its eight bits.
LEMMA FromBits ==
    ASSUME NEW x \in Byte, NEW y \in Byte,
           \A s \in 0 .. 7 : (x \div Pow2[8 - s]) % 2 = (y \div Pow2[8 - s]) % 2
    PROVE  x = y
<1>1. /\ (x \div Pow2[8]) % 2 = (y \div Pow2[8]) % 2 /\ (x \div Pow2[7]) % 2 = (y \div Pow2[7]) % 2
      /\ (x \div Pow2[6]) % 2 = (y \div Pow2[6]) % 2 /\ (x \div Pow2[5]) % 2 = (y \div Pow2[5]) % 2
      /\ (x \div Pow2[4]) % 2 = (y \div Pow2[4]) % 2 /\ (x \div Pow2[3]) % 2 = (y \div Pow2[3]) % 2
      /\ (x \div Pow2[2]) % 2 = (y \div Pow2[2]) % 2 /\ (x \div Pow2[1]) % 2 = (y \div Pow2[1]) % 2
  <2>1. /\ 0 \in 0 .. 7 /\ 1 \in 0 .. 7 /\ 2 \in 0 .. 7 /\ 3 \in 0 .. 7
        /\ 4 \in 0 .. 7 /\ 5 \in 0 .. 7 /\ 6 \in 0 .. 7 /\ 7 \in 0 .. 7
        /\ 8 - 0 = 8 /\ 8 - 1 = 7 /\ 8 - 2 = 6 /\ 8 - 3 = 5
        /\ 8 - 4 = 4 /\ 8 - 5 = 3 /\ 8 - 6 = 2 /\ 8 - 7 = 1
    OBVIOUS
  <2> QED BY <2>1
<1>2. ASSUME NEW v \in Byte
      PROVE  v = 128 * ((v \div 128) % 2) + 64 * ((v \div 64) % 2) + 32 * ((v \div 32) % 2)
                 + 16 * ((v \div 16) % 2) + 8 * ((v \div 8) % 2) + 4 * ((v \div 4) % 2)
                 + 2 * ((v \div 2) % 2) + ((v \div 1) % 2)
    BY DEF Byte
<1>3. /\ Pow2[1] = 1 /\ Pow2[2] = 2 /\ Pow2[3] = 4 /\ Pow2[4] = 8
      /\ Pow2[5] = 16 /\ Pow2[6] = 32 /\ Pow2[7] = 64 /\ Pow2[8] = 128
    BY DEF Pow2
<1> QED BY <1>1, <1>2, <1>3

\* The bits of the digits are those of the bytes.
LEMMA SameBits ==
    ASSUME NEW x \in Byte, NEW y \in Byte, NEW z \in Byte, NEW r \in 0 .. 23
    PROVE  LET d == <<x \div 4, (x % 4) * 16 + y \div 16, (y % 16) * 4 + z \div 64, z % 64>>
               b == <<x, y, z>>
           IN  (d[1 + (r \div 6)] \div Pow2[6 - (r % 6)]) % 2
                  = (b[1 + (r \div 8)] \div Pow2[8 - (r % 8)]) % 2
<1> DEFINE d1 == x \div 4
           d2 == (x % 4) * 16 + y \div 16
           d3 == (y % 16) * 4 + z \div 64
           d4 == z % 64
<1>1. /\ (d1 \div 32) % 2 = (x \div 128) % 2 /\ (d1 \div 16) % 2 = (x \div 64) % 2
      /\ (d1 \div 8) % 2 = (x \div 32) % 2 /\ (d1 \div 4) % 2 = (x \div 16) % 2
      /\ (d1 \div 2) % 2 = (x \div 8) % 2 /\ (d1 \div 1) % 2 = (x \div 4) % 2
    BY DEF Byte
<1>2. /\ (d2 \div 32) % 2 = (x \div 2) % 2 /\ (d2 \div 16) % 2 = (x \div 1) % 2
      /\ (d2 \div 8) % 2 = (y \div 128) % 2 /\ (d2 \div 4) % 2 = (y \div 64) % 2
      /\ (d2 \div 2) % 2 = (y \div 32) % 2 /\ (d2 \div 1) % 2 = (y \div 16) % 2
  <2>1. (d2 \div 32) % 2 = (x \div 2) % 2 /\ (d2 \div 16) % 2 = (x \div 1) % 2
    BY DEF Byte
  <2>2. (d2 \div 8) % 2 = (y \div 128) % 2
    BY DEF Byte
  <2>3. (d2 \div 4) % 2 = (y \div 64) % 2
    BY DEF Byte
  <2>4. (d2 \div 2) % 2 = (y \div 32) % 2
    BY DEF Byte
  <2>5. (d2 \div 1) % 2 = (y \div 16) % 2
    BY DEF Byte
  <2> QED BY <2>1, <2>2, <2>3, <2>4, <2>5
<1>3. /\ (d3 \div 32) % 2 = (y \div 8) % 2 /\ (d3 \div 16) % 2 = (y \div 4) % 2
      /\ (d3 \div 8) % 2 = (y \div 2) % 2 /\ (d3 \div 4) % 2 = (y \div 1) % 2
      /\ (d3 \div 2) % 2 = (z \div 128) % 2 /\ (d3 \div 1) % 2 = (z \div 64) % 2
  <2>1. (d3 \div 32) % 2 = (y \div 8) % 2
    BY DEF Byte
  <2>2. (d3 \div 16) % 2 = (y \div 4) % 2
    BY DEF Byte
  <2>3. (d3 \div 8) % 2 = (y \div 2) % 2
    BY DEF Byte
  <2>4. (d3 \div 4) % 2 = (y \div 1) % 2
    BY DEF Byte
  <2>5. (d3 \div 2) % 2 = (z \div 128) % 2
    BY DEF Byte
  <2>6. (d3 \div 1) % 2 = (z \div 64) % 2
    BY DEF Byte
  <2> QED BY <2>1, <2>2, <2>3, <2>4, <2>5, <2>6
<1>4. /\ (d4 \div 32) % 2 = (z \div 32) % 2 /\ (d4 \div 16) % 2 = (z \div 16) % 2
      /\ (d4 \div 8) % 2 = (z \div 8) % 2 /\ (d4 \div 4) % 2 = (z \div 4) % 2
      /\ (d4 \div 2) % 2 = (z \div 2) % 2 /\ (d4 \div 1) % 2 = (z \div 1) % 2
    BY DEF Byte
<1>5. /\ Pow2[1] = 1 /\ Pow2[2] = 2 /\ Pow2[3] = 4 /\ Pow2[4] = 8
      /\ Pow2[5] = 16 /\ Pow2[6] = 32 /\ Pow2[7] = 64 /\ Pow2[8] = 128
    BY DEF Pow2
<1> QED BY <1>1, <1>2, <1>3, <1>4, <1>5

-----------------------------------------------------------------------------
(* What base64_encode makes of a.                                          *)

\* The bytes of a, and zeros; the groups; their digits.
Filled(a, i)  == IF i < Len(a) THEN a[i + 1] ELSE 0
Groups(a)     == (Len(a) + 2) \div 3
Triple(a, g)  == <<Filled(a, 3 * g), Filled(a, 3 * g + 1), Filled(a, 3 * g + 2)>>
Spelled(b)    == <<b[1] \div 4, (b[1] % 4) * 16 + b[2] \div 16,
                   (b[2] % 16) * 4 + b[3] \div 64, b[3] % 64>>

LEMMA FilledByte ==
    ASSUME NEW a \in Seq(Byte), NEW i \in Nat
    PROVE  Filled(a, i) \in Byte
<1>1. CASE i < Len(a)
  <2>1. i + 1 \in 1 .. Len(a)
    BY <1>1
  <2> QED BY <1>1, <2>1 DEF Filled
<1> QED BY <1>1 DEF Filled, Byte

LEMMA DigitsAre ==
    ASSUME NEW a \in Seq(Byte), NEW g \in Nat, NEW j \in 1 .. 4
    PROVE  Spelled(Triple(a, g))[j] \in Digit
<1>1. PICK x \in Byte : x = Filled(a, 3 * g)
    BY FilledByte
<1>2. PICK y \in Byte : y = Filled(a, 3 * g + 1)
    BY FilledByte
<1>3. PICK z \in Byte : z = Filled(a, 3 * g + 2)
    BY FilledByte
<1>4. Triple(a, g) = <<x, y, z>>
    BY <1>1, <1>2, <1>3 DEF Triple
<1>5. /\ x \div 4 \in Digit /\ (x % 4) * 16 + y \div 16 \in Digit
      /\ (y % 16) * 4 + z \div 64 \in Digit /\ z % 64 \in Digit
    BY DEF Byte, Digit
<1> QED BY <1>4, <1>5 DEF Spelled

LEMMA Encoded ==
    ASSUME NEW a \in Seq(Byte)
    PROVE  LET t == base64_encode(a) IN
           /\ Len(t) = 4 * Groups(a) /\ Groups(a) \in Nat
           /\ t \in Seq(Digit \cup {Pad})
           /\ \A g \in 0 .. Groups(a) - 1, j \in 1 .. 4 :
                 t[4 * g + j] = IF Padded(3 * (g + 1), Len(a), j) THEN Pad
                                ELSE Spelled(Triple(a, g))[j]
<1> DEFINE n == Len(a)
           c(g) == Filled(a, 3 * g) * 65536 + Filled(a, 3 * g + 1) * 256 + Filled(a, 3 * g + 2)
           e(k) == LET g == (k - 1) \div 4
                       j == ((k - 1) % 4) + 1
                   IN  IF Padded(3 * (g + 1), n, j) THEN Pad ELSE (c(g) \div Pow64[j]) % 64
<1>1. n \in Nat /\ Groups(a) \in Nat
    BY DEF Groups
<1>2. PICK t : t = base64_encode(a)
    OBVIOUS
<1>3. t = [k \in 1 .. 4 * Groups(a) |-> e(k)]
    BY <1>2 DEF base64_encode, Filled, Groups
<1>4. ASSUME NEW g \in Nat, NEW j \in 1 .. 4
      PROVE  (c(g) \div Pow64[j]) % 64 = Spelled(Triple(a, g))[j]
  <2>1. PICK x \in Byte : x = Filled(a, 3 * g)
    BY FilledByte
  <2>2. PICK y \in Byte : y = Filled(a, 3 * g + 1)
    BY FilledByte
  <2>3. PICK z \in Byte : z = Filled(a, 3 * g + 2)
    BY FilledByte
  <2>4. Triple(a, g) = <<x, y, z>> /\ c(g) = x * 65536 + y * 256 + z
    BY <2>1, <2>2, <2>3 DEF Triple
  <2>5. Spelled(Triple(a, g)) = <<x \div 4, (x % 4) * 16 + y \div 16,
                                  (y % 16) * 4 + z \div 64, z % 64>>
    BY <2>4 DEF Spelled
  <2>6. j = 1 \/ j = 2 \/ j = 3 \/ j = 4
    OBVIOUS
  <2>7. Pow64[1] = 262144 /\ Pow64[2] = 4096 /\ Pow64[3] = 64 /\ Pow64[4] = 1
    BY DEF Pow64
  <2> QED BY <2>4, <2>5, <2>6, <2>7, DigitsOf
<1>5. ASSUME NEW g \in 0 .. Groups(a) - 1, NEW j \in 1 .. 4
      PROVE  /\ 4 * g + j \in 1 .. 4 * Groups(a)
             /\ t[4 * g + j] = IF Padded(3 * (g + 1), n, j) THEN Pad
                               ELSE Spelled(Triple(a, g))[j]
  <2>1. /\ 4 * g + j \in 1 .. 4 * Groups(a) /\ (4 * g + j - 1) \div 4 = g
        /\ ((4 * g + j - 1) % 4) + 1 = j
    BY <1>1
  <2>2. t[4 * g + j] = e(4 * g + j)
    BY <1>3, <2>1
  <2>3. t[4 * g + j] = IF Padded(3 * (g + 1), n, j) THEN Pad ELSE (c(g) \div Pow64[j]) % 64
    BY <2>1, <2>2
  <2> HIDE DEF c, e
  <2>4. (c(g) \div Pow64[j]) % 64 = Spelled(Triple(a, g))[j]
    <3>1. g \in Nat
        BY <1>1
    <3> QED BY <3>1, <1>4
  <2> QED BY <2>1, <2>3, <2>4
<1>6. ASSUME NEW k \in 1 .. 4 * Groups(a) PROVE t[k] \in Digit \cup {Pad}
  <2>1. PICK g \in 0 .. Groups(a) - 1, j \in 1 .. 4 : k = 4 * g + j
    <3>1. /\ (k - 1) \div 4 \in 0 .. Groups(a) - 1 /\ 1 + ((k - 1) % 4) \in 1 .. 4
          /\ k = 4 * ((k - 1) \div 4) + (1 + ((k - 1) % 4))
        BY <1>1
    <3> QED BY <3>1
  <2>2. Spelled(Triple(a, g))[j] \in Digit
    BY <1>1, DigitsAre
  <2> QED BY <2>1, <2>2, <1>5
<1>7. DOMAIN t = 1 .. 4 * Groups(a) /\ 4 * Groups(a) \in Nat
    BY <1>1, <1>3
<1>8. t \in [1 .. 4 * Groups(a) -> Digit \cup {Pad}]
    BY <1>3, <1>6
<1>9. t \in Seq(Digit \cup {Pad}) /\ Len(t) = 4 * Groups(a)
    BY <1>7, <1>8
<1> HIDE DEF c, e
<1> QED BY <1>1, <1>2, <1>5, <1>9

\* Where the '=' are: the last group lacks what a lacks of three bytes.
LEMMA Lengths ==
    ASSUME NEW a \in Seq(Byte)
    PROVE  LET n == Len(a)
               G == Groups(a)
               D == (8 * n + 5) \div 6
           IN  /\ 4 * G - D \in 0 .. 2 /\ D \in Nat /\ 3 * G - n = 4 * G - D
               /\ (4 * G) % 4 = 0 /\ 8 * n <= 6 * D
               /\ \A g \in 0 .. G - 1, j \in 1 .. 4 :
                     Padded(3 * (g + 1), n, j) <=> 4 * g + j > D
<1>1. PICK n \in Nat : n = Len(a)
    OBVIOUS
<1>2. PICK m \in Nat : n = 3 * m \/ n = 3 * m + 1 \/ n = 3 * m + 2
  <2>1. n = 3 * (n \div 3) + (n % 3) /\ n % 3 \in {0, 1, 2} /\ n \div 3 \in Nat
    OBVIOUS
  <2> QED BY <2>1
<1>3. PICK G : G = Groups(a)
    OBVIOUS
<1>4. PICK D : D = (8 * n + 5) \div 6
    OBVIOUS
<1>5. CASE n = 3 * m
  <2>1. G = m /\ D = 4 * m
    BY <1>1, <1>3, <1>4, <1>5 DEF Groups
  <2>2. \A g \in 0 .. G - 1, j \in 1 .. 4 : Padded(3 * (g + 1), n, j) <=> 4 * g + j > D
    BY <1>5, <2>1 DEF Padded
  <2> QED BY <1>1, <1>3, <1>4, <1>5, <2>1, <2>2
<1>6. CASE n = 3 * m + 1
  <2>1. G = m + 1 /\ D = 4 * m + 2
    BY <1>1, <1>3, <1>4, <1>6 DEF Groups
  <2>2. \A g \in 0 .. G - 1, j \in 1 .. 4 : Padded(3 * (g + 1), n, j) <=> 4 * g + j > D
    BY <1>6, <2>1 DEF Padded
  <2> QED BY <1>1, <1>3, <1>4, <1>6, <2>1, <2>2
<1>7. CASE n = 3 * m + 2
  <2>1. G = m + 1 /\ D = 4 * m + 3
    BY <1>1, <1>3, <1>4, <1>7 DEF Groups
  <2>2. \A g \in 0 .. G - 1, j \in 1 .. 4 : Padded(3 * (g + 1), n, j) <=> 4 * g + j > D
    BY <1>7, <2>1 DEF Padded
  <2> QED BY <1>1, <1>3, <1>4, <1>7, <2>1, <2>2
<1> QED BY <1>2, <1>5, <1>6, <1>7

LEMMA EncodesBase64 ==
    ASSUME NEW a \in Seq(Byte)
    PROVE  IsBase64(base64_encode(a), a)
<1>1. PICK n \in Nat : n = Len(a)
    OBVIOUS
<1>2. PICK t : t = base64_encode(a)
    OBVIOUS
<1>3. PICK G \in Nat : G = Groups(a)
    BY Encoded
<1>4. PICK D \in Nat : D = (8 * n + 5) \div 6
    BY <1>1
<1>5. /\ Len(t) = 4 * G
      /\ \A g \in 0 .. G - 1, j \in 1 .. 4 :
            t[4 * g + j] = IF Padded(3 * (g + 1), n, j) THEN Pad ELSE Spelled(Triple(a, g))[j]
    BY <1>1, <1>2, <1>3, Encoded
<1>6. /\ 4 * G - D \in 0 .. 2 /\ (4 * G) % 4 = 0 /\ 8 * n <= 6 * D
      /\ \A g \in 0 .. G - 1, j \in 1 .. 4 : Padded(3 * (g + 1), n, j) <=> 4 * g + j > D
    BY <1>1, <1>3, <1>4, Lengths
<1>7. ASSUME NEW k \in 1 .. 4 * G
      PROVE  IF k <= D THEN t[k] \in Digit ELSE t[k] = Pad
  <2>1. PICK g \in 0 .. G - 1, j \in 1 .. 4 : k = 4 * g + j
    <3>1. /\ (k - 1) \div 4 \in 0 .. G - 1 /\ 1 + ((k - 1) % 4) \in 1 .. 4
          /\ k = 4 * ((k - 1) \div 4) + (1 + ((k - 1) % 4))
        OBVIOUS
    <3> QED BY <3>1
  <2>2. Spelled(Triple(a, g))[j] \in Digit
    BY DigitsAre
  <2>3. t[k] = IF 4 * g + j > D THEN Pad ELSE Spelled(Triple(a, g))[j]
    BY <2>1, <1>5, <1>6
  <2>4. k <= D <=> ~ (4 * g + j > D)
    BY <2>1
  <2> QED BY <2>2, <2>3, <2>4
<1>8. ASSUME NEW i \in 0 .. 6 * D - 1
      PROVE  Bit(t, 6, i) = IF i < 8 * n THEN Bit(a, 8, i) ELSE 0
  <2>1. PICK g \in 0 .. G - 1, r \in 0 .. 23 : i = 24 * g + r
    <3>1. /\ i \div 24 \in 0 .. G - 1 /\ i % 24 \in 0 .. 23 /\ i = 24 * (i \div 24) + (i % 24)
        BY <1>6
    <3> QED BY <3>1
  <2>2. /\ 1 + (i \div 6) = 4 * g + (1 + (r \div 6)) /\ i % 6 = r % 6
        /\ i \div 8 = 3 * g + (r \div 8) /\ i % 8 = r % 8
        /\ 1 + (r \div 6) \in 1 .. 4 /\ r \div 8 \in 0 .. 2 /\ 1 + (i \div 6) <= D
    BY <2>1
  <2>3. PICK d : d = Spelled(Triple(a, g))
    OBVIOUS
  <2>4. t[1 + (i \div 6)] = d[1 + (r \div 6)]
    <3>1. ~ Padded(3 * (g + 1), n, 1 + (r \div 6))
        BY <1>6, <2>2
    <3> QED BY <3>1, <1>5, <2>2, <2>3
  <2>5. Triple(a, g)[1 + (r \div 8)] = Filled(a, i \div 8)
    <3>1. r \div 8 = 0 \/ r \div 8 = 1 \/ r \div 8 = 2
        BY <2>2
    <3> QED BY <3>1, <2>2 DEF Triple
  <2>6. (d[1 + (r \div 6)] \div Pow2[6 - (r % 6)]) % 2
           = (Triple(a, g)[1 + (r \div 8)] \div Pow2[8 - (r % 8)]) % 2
    <3>1. PICK x \in Byte : x = Filled(a, 3 * g)
        BY FilledByte
    <3>2. PICK y \in Byte : y = Filled(a, 3 * g + 1)
        BY FilledByte
    <3>3. PICK z \in Byte : z = Filled(a, 3 * g + 2)
        BY FilledByte
    <3>4. Triple(a, g) = <<x, y, z>>
        BY <3>1, <3>2, <3>3 DEF Triple
    <3>5. d = <<x \div 4, (x % 4) * 16 + y \div 16, (y % 16) * 4 + z \div 64, z % 64>>
        BY <2>3, <3>4 DEF Spelled
    <3>6. \A w \in 0 .. 23 :
             (<<x \div 4, (x % 4) * 16 + y \div 16, (y % 16) * 4 + z \div 64, z % 64>>[1 + (w \div 6)]
                  \div Pow2[6 - (w % 6)]) % 2
                = (<<x, y, z>>[1 + (w \div 8)] \div Pow2[8 - (w % 8)]) % 2
        BY SameBits
    <3>7. \A w \in 0 .. 23 : (d[1 + (w \div 6)] \div Pow2[6 - (w % 6)]) % 2
                = (Triple(a, g)[1 + (w \div 8)] \div Pow2[8 - (w % 8)]) % 2
        BY ONLY <3>4, <3>5, <3>6, Zenon
    <3> QED BY ONLY <3>7, <2>1
  <2>7. Bit(t, 6, i) = (Filled(a, i \div 8) \div Pow2[8 - (i % 8)]) % 2
    BY <2>2, <2>4, <2>5, <2>6 DEF Bit
  <2>8. CASE i < 8 * n
    <3>1. i \div 8 < n /\ i \div 8 \in Nat /\ (i \div 8) + 1 = 1 + (i \div 8)
        BY <2>8
    <3>2. Filled(a, i \div 8) = a[1 + (i \div 8)]
        BY <1>1, <3>1 DEF Filled
    <3> QED BY <2>7, <2>8, <3>2 DEF Bit
  <2>9. CASE ~ (i < 8 * n)
    <3>1. ~ (i \div 8 < n)
        BY <2>9
    <3>2. Filled(a, i \div 8) = 0
        BY <1>1, <3>1 DEF Filled
    <3>3. i % 8 \in {0, 1, 2, 3, 4, 5, 6, 7}
        OBVIOUS
    <3>4. (0 \div Pow2[8 - (i % 8)]) % 2 = 0
        BY <3>3 DEF Pow2
    <3> QED BY <2>7, <2>9, <3>2, <3>4
  <2> QED BY <2>8, <2>9
<1>9. Len(t) % 4 = 0 /\ Len(t) - D \in 0 .. 2
    BY <1>5, <1>6
<1>10. \A k \in 1 .. Len(t) : IF k <= D THEN t[k] \in Digit ELSE t[k] = Pad
    BY <1>5, <1>7
<1> QED BY <1>1, <1>2, <1>4, <1>8, <1>9, <1>10 DEF IsBase64

\* A text is the base64 form of one sequence of bytes only.
LEMMA Unique ==
    ASSUME NEW t \in Seq(Digit \cup {Pad}), NEW a \in Seq(Byte), NEW b \in Seq(Byte),
           IsBase64(t, a), IsBase64(t, b)
    PROVE  a = b
<1>1. PICK n \in Nat : n = Len(a)
    OBVIOUS
<1>2. PICK m \in Nat : m = Len(b)
    OBVIOUS
<1>3. PICK N \in Nat : N = Len(t)
    OBVIOUS
<1>4. PICK D \in Nat : D = (8 * n + 5) \div 6
    OBVIOUS
<1>5. PICK E \in Nat : E = (8 * m + 5) \div 6
    OBVIOUS
<1>6. /\ N - D \in 0 .. 2
      /\ \A k \in 1 .. N : IF k <= D THEN t[k] \in Digit ELSE t[k] = Pad
      /\ \A i \in 0 .. 6 * D - 1 : Bit(t, 6, i) = IF i < 8 * n THEN Bit(a, 8, i) ELSE 0
    BY <1>1, <1>3, <1>4 DEF IsBase64
<1>7. /\ N - E \in 0 .. 2
      /\ \A k \in 1 .. N : IF k <= E THEN t[k] \in Digit ELSE t[k] = Pad
      /\ \A i \in 0 .. 6 * E - 1 : Bit(t, 6, i) = IF i < 8 * m THEN Bit(b, 8, i) ELSE 0
    BY <1>2, <1>3, <1>5 DEF IsBase64
<1>8. Pad \notin Digit
    BY DEF Pad, Digit
<1>9. D = E
  <2>1. CASE D < E
    <3>1. E \in 1 .. N /\ ~ (E <= D)
        BY <1>7, <2>1
    <3>2. t[E] = Pad /\ t[E] \in Digit
        BY <3>1, <1>6, <1>7
    <3> QED BY <3>2, <1>8
  <2>2. CASE E < D
    <3>1. D \in 1 .. N /\ ~ (D <= E)
        BY <1>6, <2>2
    <3>2. t[D] = Pad /\ t[D] \in Digit
        BY <3>1, <1>6, <1>7
    <3> QED BY <3>2, <1>8
  <2> QED BY <2>1, <2>2
<1>10. n = m
    BY <1>4, <1>5, <1>9
<1>11. ASSUME NEW k \in 1 .. n PROVE a[k] = b[k]
  <2>1. a[k] \in Byte /\ b[k] \in Byte
    <3>1. k \in 1 .. Len(a) /\ k \in 1 .. Len(b)
        BY <1>1, <1>2, <1>10
    <3> QED BY ONLY <3>1, a \in Seq(Byte), b \in Seq(Byte)
  <2>2. ASSUME NEW s \in 0 .. 7
        PROVE  (a[k] \div Pow2[8 - s]) % 2 = (b[k] \div Pow2[8 - s]) % 2
    <3>1. PICK i \in Int : i = 8 * (k - 1) + s
        OBVIOUS
    <3>2. /\ i \in 0 .. 6 * D - 1 /\ i \in 0 .. 6 * E - 1 /\ i < 8 * n /\ i < 8 * m
        BY <3>1, <1>4, <1>9, <1>10
    <3>3. 1 + (i \div 8) = k /\ i % 8 = s
        BY <3>1
    <3>4. Bit(a, 8, i) = Bit(b, 8, i)
        BY <3>2, <1>6, <1>7
    <3> QED BY <3>3, <3>4 DEF Bit
  <2> QED BY <2>1, <2>2, FromBits
<1>12. Len(a) = Len(b) /\ \A k \in 1 .. Len(a) : a[k] = b[k]
    BY <1>1, <1>2, <1>10, <1>11
<1> QED BY ONLY <1>12, a \in Seq(Byte), b \in Seq(Byte)

\* What is spelled by base64_encode has been spelled by nothing else.
LEMMA EncodedOnce ==
    ASSUME NEW a \in Seq(Byte), NEW b \in Seq(Byte), IsBase64(base64_encode(a), b)
    PROVE  a = b
<1>1. base64_encode(a) \in Seq(Digit \cup {Pad})
    BY Encoded
<1> QED BY <1>1, EncodesBase64, Unique

-----------------------------------------------------------------------------
(* What the two decoders make of it.                                       *)

LEMMA GroupOf ==
    ASSUME NEW S, NEW t \in Seq(S), NEW g \in Nat, 4 * g + 4 <= Len(t)
    PROVE  \A j \in 1 .. 4 : Group(t, 4, g)[j] = t[4 * g + j]
<1>1. PICK m \in Nat : m = 4 * g
    OBVIOUS
<1>2. SubSeq(t, m + 1, m + 4) = [k \in 1 .. (m + 4) - (m + 1) + 1 |-> t[(m + 1) + k - 1]]
    BY <1>1
<1>3. \A j \in 1 .. 4 : j \in 1 .. (m + 4) - (m + 1) + 1 /\ (m + 1) + j - 1 = m + j
    OBVIOUS
<1>4. \A j \in 1 .. 4 : SubSeq(t, m + 1, m + 4)[j] = t[m + j]
    BY <1>2, <1>3
<1> QED BY <1>1, <1>4 DEF Group

\* The digits of a group, '=' where there are no bytes left.
LEMMA Grouped ==
    ASSUME NEW a \in Seq(Byte), NEW g \in 0 .. Groups(a) - 1
    PROVE  LET p == Group(base64_encode(a), 4, g)
               n == Len(a)
           IN  /\ p[1] = Spelled(Triple(a, g))[1] /\ p[2] = Spelled(Triple(a, g))[2]
               /\ p[3] = IF 3 * (g + 1) > n + 1 THEN Pad ELSE Spelled(Triple(a, g))[3]
               /\ p[4] = IF 3 * (g + 1) > n THEN Pad ELSE Spelled(Triple(a, g))[4]
               /\ \A j \in 1 .. 4 : Spelled(Triple(a, g))[j] \in Digit
<1>1. PICK t : t = base64_encode(a)
    OBVIOUS
<1>2. PICK G \in Nat : G = Groups(a)
    BY Encoded
<1>3. g \in Nat /\ Len(t) = 4 * G /\ t \in Seq(Digit \cup {Pad}) /\ 4 * g + 4 <= Len(t)
    BY <1>1, <1>2, Encoded
<1>4. \A j \in 1 .. 4 : Group(t, 4, g)[j] = IF Padded(3 * (g + 1), Len(a), j) THEN Pad
                                            ELSE Spelled(Triple(a, g))[j]
  <2>1. \A j \in 1 .. 4 : Group(t, 4, g)[j] = t[4 * g + j]
    BY <1>3, GroupOf
  <2>2. \A j \in 1 .. 4 : t[4 * g + j] = IF Padded(3 * (g + 1), Len(a), j) THEN Pad
                                         ELSE Spelled(Triple(a, g))[j]
    BY <1>1, Encoded
  <2> QED BY <2>1, <2>2
<1>5. 1 \in 1 .. 4 /\ 2 \in 1 .. 4 /\ 3 \in 1 .. 4 /\ 4 \in 1 .. 4
    OBVIOUS
<1>6. \A j \in 1 .. 4 : Spelled(Triple(a, g))[j] \in Digit
    BY <1>3, DigitsAre
<1>7. ~ Padded(3 * (g + 1), Len(a), 1) /\ ~ Padded(3 * (g + 1), Len(a), 2)
      /\ (Padded(3 * (g + 1), Len(a), 3) <=> 3 * (g + 1) > Len(a) + 1)
      /\ (Padded(3 * (g + 1), Len(a), 4) <=> 3 * (g + 1) > Len(a))
    BY DEF Padded
<1> QED BY <1>1, <1>4, <1>5, <1>6, <1>7

LEMMA ValueIs ==
    ASSUME NEW p
    PROVE  Value(p) = (IF p[1] = Pad THEN 0 ELSE p[1]) * Pow64[1]
                        + (IF p[2] = Pad THEN 0 ELSE p[2]) * Pow64[2]
                        + (IF p[3] = Pad THEN 0 ELSE p[3]) * Pow64[3]
                        + (IF p[4] = Pad THEN 0 ELSE p[4])
BY Zenon DEF Value

LEMMA ValueOf ==
    ASSUME NEW a \in Seq(Byte), NEW g \in 0 .. Groups(a) - 1
    PROVE  Value(Group(base64_encode(a), 4, g))
              = Filled(a, 3 * g) * 65536 + Filled(a, 3 * g + 1) * 256 + Filled(a, 3 * g + 2)
<1>1. PICK p : p = Group(base64_encode(a), 4, g)
    OBVIOUS
<1>2. g \in Nat
    BY Encoded
<1>3. PICK x \in Byte : x = Filled(a, 3 * g)
    BY <1>2, FilledByte
<1>4. PICK y \in Byte : y = Filled(a, 3 * g + 1)
    BY <1>2, FilledByte
<1>5. PICK z \in Byte : z = Filled(a, 3 * g + 2)
    BY <1>2, FilledByte
<1>6. /\ Spelled(Triple(a, g))[1] = x \div 4
      /\ Spelled(Triple(a, g))[2] = (x % 4) * 16 + y \div 16
      /\ Spelled(Triple(a, g))[3] = (y % 16) * 4 + z \div 64
      /\ Spelled(Triple(a, g))[4] = z % 64
    BY <1>3, <1>4, <1>5 DEF Triple, Spelled
<1>7. /\ 3 * (g + 1) > Len(a) + 1 => y = 0 /\ z = 0
      /\ 3 * (g + 1) > Len(a) => z = 0
    BY <1>2, <1>4, <1>5 DEF Filled
<1>8. \A j \in 1 .. 4 : Spelled(Triple(a, g))[j] \in Digit
    BY Grouped
<1>9. /\ (IF p[1] = Pad THEN 0 ELSE p[1]) = x \div 4
      /\ (IF p[2] = Pad THEN 0 ELSE p[2]) = (x % 4) * 16 + y \div 16
      /\ (IF p[3] = Pad THEN 0 ELSE p[3]) = (y % 16) * 4 + z \div 64
      /\ (IF p[4] = Pad THEN 0 ELSE p[4]) = z % 64
  <2>1. /\ p[1] = Spelled(Triple(a, g))[1] /\ p[2] = Spelled(Triple(a, g))[2]
        /\ p[3] = IF 3 * (g + 1) > Len(a) + 1 THEN Pad ELSE Spelled(Triple(a, g))[3]
        /\ p[4] = IF 3 * (g + 1) > Len(a) THEN Pad ELSE Spelled(Triple(a, g))[4]
    BY <1>1, Grouped
  <2>2. x \div 4 # Pad /\ (x % 4) * 16 + y \div 16 # Pad
        /\ (y % 16) * 4 + z \div 64 # Pad /\ z % 64 # Pad
    BY DEF Byte, Pad
  <2>3. y = 0 /\ z = 0 => (y % 16) * 4 + z \div 64 = 0
    OBVIOUS
  <2>4. z = 0 => z % 64 = 0
    OBVIOUS
  <2> QED BY <2>1, <2>2, <2>3, <2>4, <1>6, <1>7
<1>10. Value(p) = (x \div 4) * 262144 + ((x % 4) * 16 + y \div 16) * 4096
                    + ((y % 16) * 4 + z \div 64) * 64 + (z % 64)
  <2>1. PICK d1 \in Int : d1 = x \div 4
    BY DEF Byte
  <2>2. PICK d2 \in Int : d2 = (x % 4) * 16 + y \div 16
    BY DEF Byte
  <2>3. PICK d3 \in Int : d3 = (y % 16) * 4 + z \div 64
    BY DEF Byte
  <2>4. PICK d4 \in Int : d4 = z % 64
    BY DEF Byte
  <2>5. /\ (IF p[1] = Pad THEN 0 ELSE p[1]) = d1 /\ (IF p[2] = Pad THEN 0 ELSE p[2]) = d2
        /\ (IF p[3] = Pad THEN 0 ELSE p[3]) = d3 /\ (IF p[4] = Pad THEN 0 ELSE p[4]) = d4
    BY ONLY <1>9, <2>1, <2>2, <2>3, <2>4, Zenon
  <2>6. Value(p) = d1 * Pow64[1] + d2 * Pow64[2] + d3 * Pow64[3] + d4
    BY ONLY <2>5, ValueIs, Zenon
  <2>7. Pow64[1] = 262144 /\ Pow64[2] = 4096 /\ Pow64[3] = 64
    BY SMT DEF Pow64
  <2> QED BY <2>1, <2>2, <2>3, <2>4, <2>6, <2>7, SMT
<1>11. Value(p) = x * 65536 + y * 256 + z
    BY <1>10, BytesOf
<1> QED BY <1>1, <1>3, <1>4, <1>5, <1>11

\* The bytes that are decoded.
LEMMA Decoded ==
    ASSUME NEW a \in Seq(Byte), NEW m \in Nat, m <= 3 * Groups(a)
    PROVE  /\ Bytes(base64_encode(a), m) \in Seq(Byte) /\ Len(Bytes(base64_encode(a), m)) = m
           /\ \A i \in 1 .. m : Bytes(base64_encode(a), m)[i] = Filled(a, i - 1)
<1>1. PICK t : t = base64_encode(a)
    OBVIOUS
<1>2. PICK G \in Nat : G = Groups(a)
    BY Encoded
<1>3. PICK s : s = Bytes(t, m)
    OBVIOUS
<1>4. s = [i \in 1 .. m |->
             (Value(Group(t, 4, (i - 1) \div 3)) \div Pow256[1 + ((i - 1) % 3)]) % 256]
    BY <1>3 DEF Bytes
<1>5. ASSUME NEW i \in 1 .. m PROVE s[i] = Filled(a, i - 1) /\ s[i] \in Byte
  <2>1. PICK g \in 0 .. G - 1, r \in 0 .. 2 : i - 1 = 3 * g + r
    <3>1. /\ (i - 1) \div 3 \in 0 .. G - 1 /\ (i - 1) % 3 \in 0 .. 2
          /\ i - 1 = 3 * ((i - 1) \div 3) + ((i - 1) % 3)
        BY <1>2
    <3> QED BY <3>1
  <2>2. (i - 1) \div 3 = g /\ (i - 1) % 3 = r
    BY <2>1
  <2>3. g \in Nat
    OBVIOUS
  <2>4. PICK x \in Byte : x = Filled(a, 3 * g)
    BY <2>3, FilledByte
  <2>5. PICK y \in Byte : y = Filled(a, 3 * g + 1)
    BY <2>3, FilledByte
  <2>6. PICK z \in Byte : z = Filled(a, 3 * g + 2)
    BY <2>3, FilledByte
  <2>7. PICK c \in Nat : c = x * 65536 + y * 256 + z
    BY DEF Byte
  <2>8. Value(Group(t, 4, g)) = c
    BY <1>1, <1>2, <2>4, <2>5, <2>6, <2>7, ValueOf
  <2>9. s[i] = (c \div Pow256[1 + r]) % 256
    BY <1>4, <2>2, <2>8
  <2>10. (c \div 65536) % 256 = x /\ (c \div 256) % 256 = y /\ (c \div 1) % 256 = z
    BY <2>7, BytesOf
  <2>11. r = 0 \/ r = 1 \/ r = 2
    OBVIOUS
  <2>12. Pow256[1] = 65536 /\ Pow256[2] = 256 /\ Pow256[3] = 1
    BY DEF Pow256
  <2>13. CASE r = 0
    <3>1. i - 1 = 3 * g /\ s[i] = (c \div Pow256[1]) % 256
        BY <2>1, <2>9, <2>13
    <3> QED BY <3>1, <2>4, <2>10, <2>12
  <2>14. CASE r = 1
    <3>1. i - 1 = 3 * g + 1 /\ s[i] = (c \div Pow256[2]) % 256
        BY <2>1, <2>9, <2>14
    <3> QED BY <3>1, <2>5, <2>10, <2>12
  <2>15. CASE r = 2
    <3>1. i - 1 = 3 * g + 2 /\ s[i] = (c \div Pow256[3]) % 256
        BY <2>1, <2>9, <2>15
    <3> QED BY <3>1, <2>6, <2>10, <2>12
  <2> QED BY <2>11, <2>13, <2>14, <2>15
<1>6. s \in [1 .. m -> Byte]
    BY <1>4, <1>5
<1> QED BY <1>1, <1>3, <1>5, <1>6

\* A set of numbers that is not empty has a least one.
LEMMA LeastNumber ==
    ASSUME NEW T, T \subseteq Nat, T # {}
    PROVE  \E x \in T : \A y \in T : x <= y
<1>1. \A x, y \in Nat : x < y => <<x, y>> \in OpToRel(<, Nat)
  <2> SUFFICES ASSUME NEW x \in Nat, NEW y \in Nat, x < y
               PROVE  <<x, y>> \in OpToRel(<, Nat)
    OBVIOUS
  <2>1. <<x, y>> \in Nat \X Nat /\ <<x, y>>[1] = x /\ <<x, y>>[2] = y
    OBVIOUS
  <2> QED BY <2>1 DEF OpToRel
<1>2. PICK R : IsWellFoundedOn(R, Nat) /\ \A x, y \in Nat : x < y => <<x, y>> \in R
  BY <1>1, NatLessThanWellFounded
<1>3. IsWellFoundedOn(R, Nat)
  BY <1>2
<1>4. \E x \in T : \A y \in T : ~ (<<y, x>> \in R)
  BY <1>3, WFMin, Zenon
<1>5. ASSUME NEW x \in T, \A y \in T : ~ (<<y, x>> \in R), NEW y \in T PROVE x <= y
  <2>1. x \in Nat /\ y \in Nat
    OBVIOUS
  <2>2. y < x => <<y, x>> \in R
    BY <1>2, <2>1, Zenon
  <2>3. ~ (<<y, x>> \in R)
    BY <1>5, Zenon
  <2>4. ~ (y < x)
    BY <2>2, <2>3, Zenon
  <2> QED BY <2>1, <2>4
<1> QED BY <1>4, <1>5

\* What comes before the first NUL.
LEMMA CStringIs ==
    ASSUME NEW S, NEW s \in Seq(S), NEW n \in Nat, n <= Len(s),
           \A i \in 1 .. n : s[i] # NUL, n < Len(s) => s[n + 1] = NUL
    PROVE  CString(s) \in Seq(S) /\ Len(CString(s)) = n /\ \A i \in 1 .. n : CString(s)[i] = s[i]
<1> DEFINE nuls == {i \in DOMAIN s : s[i] = NUL}
<1>1. CASE n = Len(s)
  <2>1. nuls = {}
    BY <1>1
  <2>2. CString(s) = s
    BY <2>1 DEF CString
  <2> QED BY <1>1, <2>2
<1>2. CASE n < Len(s)
  <2>1. n + 1 \in nuls /\ \A i \in nuls : n + 1 <= i
    BY <1>2
  <2>2. Min(nuls) = n + 1
    <3>1. \A x \in nuls : (\A y \in nuls : x <= y) => x = n + 1
        BY <2>1
    <3> QED BY <2>1, <3>1 DEF Min
  <2>3. CString(s) = SubSeq(s, 1, n)
    <3>1. nuls # {}
        BY <2>1
    <3>2. CString(s) = SubSeq(s, 1, Min(nuls) - 1)
        BY <3>1 DEF CString
    <3> HIDE DEF nuls
    <3> QED BY <3>2, <2>2
  <2> QED BY <1>2, <2>3
<1> QED BY <1>1, <1>2

\* There is no NUL in what comes before it.
LEMMA CStringType ==
    ASSUME NEW s \in Seq(Byte)
    PROVE  CString(s) \in Seq(Byte) /\ \A i \in 1 .. Len(CString(s)) : CString(s)[i] # NUL
<1> DEFINE nuls == {i \in DOMAIN s : s[i] = NUL}
<1>1. CASE nuls = {}
    BY <1>1 DEF CString
<1>2. CASE nuls # {}
  <2>1. nuls \subseteq Nat \ {0} /\ nuls \subseteq 1 .. Len(s)
    OBVIOUS
  <2>2. PICK k \in nuls : \A i \in nuls : k <= i
    <3> HIDE DEF nuls
    <3>1. \E k \in nuls : \A i \in nuls : k <= i
        BY <1>2, <2>1, LeastNumber
    <3> QED BY <3>1
  <2>3. /\ k - 1 \in Nat /\ k - 1 <= Len(s) /\ \A i \in 1 .. k - 1 : s[i] # NUL
        /\ k - 1 < Len(s) => s[k - 1 + 1] = NUL
    BY <2>1, <2>2
  <2>4. PICK n \in Nat : n = k - 1
    BY <2>3
  <2> QED BY <2>3, <2>4, CStringIs
<1> QED BY <1>1, <1>2

LEMMA Pop3Reads ==
    ASSUME NEW a \in Seq(Byte), \A i \in 1 .. Len(a) : a[i] # NUL
    PROVE  CString(pop3_decode(base64_encode(a))) = a
<1>1. PICK t : t = base64_encode(a)
    OBVIOUS
<1>2. PICK G \in Nat : G = Groups(a)
    BY Encoded
<1>3. PICK n \in Nat : n = Len(a)
    OBVIOUS
<1>4. Len(t) \div 4 = G /\ n <= 3 * G
    BY <1>1, <1>2, <1>3, Encoded DEF Groups
<1>5. PICK s : s = Bytes(t, 3 * G)
    OBVIOUS
<1>6. s = pop3_decode(t)
    BY <1>4, <1>5 DEF pop3_decode
<1>7. s \in Seq(Byte) /\ Len(s) = 3 * G /\ \A i \in 1 .. 3 * G : s[i] = Filled(a, i - 1)
  <2>1. PICK m \in Nat : m = 3 * G /\ m <= 3 * Groups(a)
    BY <1>2
  <2>2. s = Bytes(base64_encode(a), m)
    BY <1>1, <1>5, <2>1
  <2> QED BY <2>1, <2>2, Decoded
<1>8. /\ \A i \in 1 .. n : s[i] = a[i] /\ a[i] # NUL
      /\ n < 3 * G => s[n + 1] = NUL
    BY <1>3, <1>4, <1>7 DEF Filled, NUL
<1>9. CString(s) \in Seq(Byte) /\ Len(CString(s)) = n /\ \A i \in 1 .. n : CString(s)[i] = s[i]
    BY <1>4, <1>7, <1>8, CStringIs
<1>10. CString(s) = a
    BY <1>3, <1>8, <1>9
<1> QED BY <1>1, <1>6, <1>10

\* The turn of the loop for group g.
LEMMA Turn ==
    ASSUME NEW a \in Seq(Byte), NEW g \in 0 .. Groups(a) - 1
    PROVE  LET p == Group(base64_encode(a), 4, g) IN
           /\ p[1] # Pad /\ ~ Refused(p)
           /\ g < Groups(a) - 1 => Done(p) = 0
           /\ g = Groups(a) - 1 => Done(p) = 3 * Groups(a) - Len(a)
<1>1. PICK p : p = Group(base64_encode(a), 4, g)
    OBVIOUS
<1>2. PICK n \in Nat : n = Len(a)
    OBVIOUS
<1>3. PICK G \in Nat : G = Groups(a) /\ n <= 3 * G /\ 3 * G - n <= 2
    BY <1>2 DEF Groups
<1>4. PICK d1 \in Digit : d1 = Spelled(Triple(a, g))[1]
    BY Grouped
<1>5. PICK d2 \in Digit : d2 = Spelled(Triple(a, g))[2]
    BY Grouped
<1>6. PICK d3 \in Digit : d3 = Spelled(Triple(a, g))[3]
    BY Grouped
<1>7. PICK d4 \in Digit : d4 = Spelled(Triple(a, g))[4]
    BY Grouped
<1>8. /\ p[1] = d1 /\ p[2] = d2
      /\ p[3] = IF 3 * (g + 1) > n + 1 THEN Pad ELSE d3
      /\ p[4] = IF 3 * (g + 1) > n THEN Pad ELSE d4
    BY <1>1, <1>2, <1>4, <1>5, <1>6, <1>7, Grouped
<1>9. d1 # Pad /\ d2 # Pad /\ d3 # Pad /\ d4 # Pad
    BY DEF Digit, Pad
<1>10. p[1] # Pad /\ ~ Refused(p)
    BY <1>8, <1>9 DEF Refused
<1>11. PICK k \in Int : k = 3 * (g + 1)
    OBVIOUS
<1>12. PICK P : P = {j \in 3 .. 4 : p[j] = Pad}
    OBVIOUS
<1>13. Done(p) = Cardinality(P)
    BY <1>10, <1>12 DEF Done
<1>14. /\ 3 \in P <=> k > n + 1
       /\ 4 \in P <=> k > n
       /\ \A j \in P : j = 3 \/ j = 4
    BY <1>8, <1>9, <1>11, <1>12
<1>15. /\ k <= n => Done(p) = 0
       /\ k = n + 1 => Done(p) = 1
       /\ k > n + 1 => Done(p) = 2
  <2>1. CASE k <= n
    <3>1. P = {}
        BY <1>14, <2>1
    <3> QED BY <3>1, <2>1, <1>13, FS_EmptySet
  <2>2. CASE k = n + 1
    <3>1. 3 \notin P /\ 4 \in P
        BY <1>14, <2>2
    <3>2. P = {4}
        BY <3>1, <1>14
    <3>3. Cardinality(P) = 1
        BY <3>2, FS_Singleton, Zenon
    <3> QED BY <3>3, <2>2, <1>13
  <2>3. CASE k > n + 1
    <3>0. 3 \in P /\ 4 \in P
        BY <1>14, <2>3
    <3>1. PICK u \in Int, v \in Int : u = 3 /\ v = 4
        OBVIOUS
    <3>2. P = u .. v
        BY <3>0, <3>1, <1>14
    <3>3. Cardinality(u .. v) = IF u > v THEN 0 ELSE v - u + 1
        BY FS_Interval
    <3> QED BY <3>1, <3>2, <3>3, <2>3, <1>13
  <2> QED BY <2>1, <2>2, <2>3
<1>16. g < G - 1 => k <= n
  <2>1. g < G - 1 => g + 1 <= G - 1 /\ g + 1 \in Nat
    BY <1>3
  <2> QED BY <2>1, <1>3, <1>11
<1>17. g = G - 1 => k = 3 * G
    BY <1>3, <1>11
<1>18. g = G - 1 => Done(p) = 3 * G - n
    BY <1>3, <1>15, <1>17
<1> QED BY <1>1, <1>2, <1>3, <1>10, <1>15, <1>16, <1>18

LEMMA SmtpReads ==
    ASSUME NEW a \in Seq(Byte)
    PROVE  base64_decode(base64_encode(a)) = a
<1>1. PICK t : t = base64_encode(a)
    OBVIOUS
<1>2. PICK G \in Nat : G = Groups(a)
    BY Encoded
<1>3. PICK n \in Nat : n = Len(a)
    OBVIOUS
<1>4. n <= 3 * G /\ 3 * G - n <= 2 /\ Len(t) \div 4 = G
  <2>1. Len(t) = 4 * G
    BY <1>1, <1>2, Encoded
  <2>2. G = (n + 2) \div 3
    BY <1>2, <1>3 DEF Groups
  <2> QED BY <2>1, <2>2
<1> DEFINE p(g) == Group(t, 4, g)
           groups == {g \in 0 .. Len(t) \div 4 - 1 : \A h \in 0 .. g - 1 : Done(p(h)) = 0}
<1>5. ASSUME NEW g \in 0 .. G - 1
      PROVE  /\ p(g)[1] # Pad /\ ~ Refused(p(g))
             /\ g < G - 1 => Done(p(g)) = 0
             /\ g = G - 1 => Done(p(g)) = 3 * G - n
    BY <1>1, <1>2, <1>3, Turn
<1> HIDE DEF p
<1>6. groups = 0 .. G - 1
  <2>1. ASSUME NEW g \in 0 .. G - 1, NEW h \in 0 .. g - 1 PROVE Done(p(h)) = 0
    <3>1. h \in 0 .. G - 1 /\ h < G - 1
        OBVIOUS
    <3> QED BY <3>1, <1>5
  <2> QED BY <2>1, <1>4
<1>7. Cardinality(groups) = G
  <2>1. Cardinality(0 .. G - 1) = IF 0 > G - 1 THEN 0 ELSE G - 1 - 0 + 1
    BY FS_Interval
  <2> HIDE DEF groups
  <2> QED BY <2>1, <1>6
<1>8. ~ \E g \in groups : p(g)[1] # Pad /\ Refused(p(g))
    BY <1>5, <1>6
<1>9. base64_decode(t) = Bytes(t, IF G = 0 THEN 0 ELSE 3 * G - Done(p(G - 1)))
    BY <1>7, <1>8, Zenon DEF base64_decode, p
<1>10. (IF G = 0 THEN 0 ELSE 3 * G - Done(p(G - 1))) = n
  <2>1. CASE G = 0
    BY <2>1, <1>4
  <2>2. CASE G # 0
    <3>1. G - 1 \in 0 .. G - 1
        BY <2>2
    <3>2. Done(p(G - 1)) = 3 * G - n
        BY <3>1, <1>5
    <3> HIDE DEF p
    <3> QED BY <2>2, <3>2
  <2> QED BY <2>1, <2>2
<1>11. base64_decode(t) = Bytes(t, n)
    BY <1>9, <1>10
<1>12. PICK s : s = Bytes(t, n)
    OBVIOUS
<1>13. s \in Seq(Byte) /\ Len(s) = n /\ \A i \in 1 .. n : s[i] = Filled(a, i - 1)
    BY <1>1, <1>2, <1>4, <1>12, Decoded
<1>14. \A i \in 1 .. n : s[i] = a[i]
    BY <1>3, <1>13 DEF Filled
<1> QED BY <1>1, <1>3, <1>11, <1>12, <1>13, <1>14

-----------------------------------------------------------------------------
(* The steps of the dialogue.                                              *)

\* How far a step is in the dialogue.
Pos == [new |-> 0, greeting |-> 1, ehlo |-> 2, auth |-> 3, account |-> 4, password |-> 5,
        mail |-> 6, rcpt |-> 7, data |-> 8, content |-> 9, quit |-> 10, sent |-> 11]

LEMMA StepsAre ==
    Step = {"greeting", "ehlo", "auth", "account", "password",
            "mail", "rcpt", "data", "content", "quit"}
<1>1. Step = {Steps[i] : i \in DOMAIN Steps}
    BY DEF Step, ToSet
<1>2. DOMAIN Steps = 1 .. 10
    BY DEF Steps
<1>3. \A i \in 1 .. 10 : i \in {1, 2, 3, 4, 5, 6, 7, 8, 9, 10}
    OBVIOUS
<1>4. \A s \in Step : s \in {"greeting", "ehlo", "auth", "account", "password",
                             "mail", "rcpt", "data", "content", "quit"}
    BY <1>1, <1>2, <1>3 DEF Steps
<1>5. \A i \in 1 .. 10 : Steps[i] \in Step
    BY <1>1, <1>2
<1>6. {"greeting", "ehlo", "auth", "account", "password",
       "mail", "rcpt", "data", "content", "quit"} \subseteq Step
  <2>1. /\ Steps[1] \in Step /\ Steps[2] \in Step /\ Steps[3] \in Step /\ Steps[4] \in Step
        /\ Steps[5] \in Step /\ Steps[6] \in Step /\ Steps[7] \in Step /\ Steps[8] \in Step
        /\ Steps[9] \in Step /\ Steps[10] \in Step
    BY <1>5
  <2> QED BY <2>1 DEF Steps
<1> QED BY <1>4, <1>6

LEMMA Follows ==
    ASSUME NEW i \in 2 .. 10
    PROVE  NextStep(Steps[i - 1]) = Steps[i]
<1>1. \A j \in 2 .. 10 : Steps[j - 1] = Steps[i - 1] => j = i
  <2> SUFFICES ASSUME NEW j \in 2 .. 10, Steps[j - 1] = Steps[i - 1] PROVE j = i
    OBVIOUS
  <2> QED BY DEF Steps
<1>2. (CHOOSE j \in 2 .. 10 : Steps[j - 1] = Steps[i - 1]) = i
    BY <1>1
<1>3. Steps[i - 1] # "quit"
    BY DEF Steps
<1> QED BY <1>2, <1>3 DEF NextStep

LEMMA NextStepIs ==
    /\ NextStep("greeting") = "ehlo" /\ NextStep("ehlo") = "auth"
    /\ NextStep("auth") = "account" /\ NextStep("account") = "password"
    /\ NextStep("password") = "mail" /\ NextStep("mail") = "rcpt"
    /\ NextStep("rcpt") = "data" /\ NextStep("data") = "content"
    /\ NextStep("content") = "quit" /\ NextStep("quit") = "sent"
<1>1. /\ NextStep(Steps[1]) = Steps[2] /\ NextStep(Steps[2]) = Steps[3]
      /\ NextStep(Steps[3]) = Steps[4] /\ NextStep(Steps[4]) = Steps[5]
      /\ NextStep(Steps[5]) = Steps[6] /\ NextStep(Steps[6]) = Steps[7]
      /\ NextStep(Steps[7]) = Steps[8] /\ NextStep(Steps[8]) = Steps[9]
      /\ NextStep(Steps[9]) = Steps[10]
  <2>1. \A i \in 2 .. 10 : NextStep(Steps[i - 1]) = Steps[i]
    BY Follows
  <2>2. /\ 2 - 1 = 1 /\ 3 - 1 = 2 /\ 4 - 1 = 3 /\ 5 - 1 = 4 /\ 6 - 1 = 5 /\ 7 - 1 = 6
        /\ 8 - 1 = 7 /\ 9 - 1 = 8 /\ 10 - 1 = 9
    OBVIOUS
  <2>3. {2, 3, 4, 5, 6, 7, 8, 9, 10} \subseteq 2 .. 10
    OBVIOUS
  <2> QED BY <2>1, <2>2, <2>3
<1>2. NextStep("quit") = "sent"
    BY DEF NextStep
<1> QED BY <1>1, <1>2 DEF Steps

\* The codes that are expected, and that only these promise anything.
LEMMA Codes ==
    /\ \A s \in Step : Expected[s] \in Nat \ {Text, 500}
    /\ \A s \in Step : Expected[s] = 250 => s # "auth"
    /\ Expected["greeting"] = 220 /\ Expected["ehlo"] = 250
BY StepsAre DEF Expected, Text

\* One step on, and nothing else, is next.
LEMMA OneOn ==
    /\ \A s \in Step : /\ Pos[s] \in 1 .. 10
                       /\ NextStep(s) \in Step \cup {"sent"} /\ NextStep(s) # s
                       /\ Pos[NextStep(s)] = Pos[s] + 1
    /\ \A s, t \in Step \cup {"new"} : Pos[s] = Pos[t] => s = t
    /\ \A s \in Step \cup {"new"} : Pos[s] \in 0 .. 10
    /\ Pos["new"] = 0 /\ Pos["greeting"] = 1 /\ Pos["ehlo"] = 2 /\ Pos["auth"] = 3
    /\ Pos["account"] = 4 /\ Pos["password"] = 5 /\ Pos["content"] = 9 /\ Pos["quit"] = 10
    /\ Pos["sent"] = 11
    /\ "new" \notin Step /\ "sent" \notin Step /\ "failed" \notin Step
<1>1. "sent" \notin Step /\ "failed" \notin Step /\ "new" \notin Step
    BY StepsAre
<1>2. \A s \in Step : /\ NextStep(s) \in Step \cup {"sent"} /\ NextStep(s) # s
                      /\ Pos[NextStep(s)] = Pos[s] + 1
    BY StepsAre, NextStepIs DEF Pos
<1>3. \A s \in Step : Pos[s] \in 1 .. 10
    BY StepsAre DEF Pos
<1>4. \A s, t \in Step \cup {"new"} : Pos[s] = Pos[t] => s = t
    BY StepsAre DEF Pos
<1> QED BY <1>1, <1>2, <1>3, <1>4 DEF Pos

-----------------------------------------------------------------------------
(* The dialogue.                                                           *)

\* The pieces that are on their way, in the order in which GetResponse finds them.
Flow == arrived \o wire

\* What the client sends, and what the server makes of its content.
Ask(step) == [step |-> step, text |-> TextOf(step)]
Asks  == {Ask(step) : step \in Step}
Taken == [user : Registered \cup {None}, file : {Attachment}]

\* What the proofs need of the types.
Typed ==
    /\ cred \in Credentials /\ file \in Files
    /\ pc \in Step \cup {"sent", "failed"} /\ guesses \in Nat
    /\ toSrv \in Seq(Asks) /\ wire \in Seq(Piece) /\ arrived \in Seq(Piece)
    /\ stage \in Step \cup {"new"} /\ user \in Registered \cup {None}
    /\ mails \in Seq(Taken)

\* Of the pieces f, none is of a later step; those of an earlier one promise nothing that
\* is waited for, and what follows a piece of this one is not taken for an answer either.
Orderly(f, p) ==
    \A i \in 1 .. Len(f) :
        /\ Pos[f[i].of] <= Pos[p]
        /\ f[i].of # p => f[i].code = Text \/ (p = "auth" /\ f[i].code = 250)
        /\ f[i].of = p => \A j \in i + 1 .. Len(f) :
                             f[j].code = Text \/ (p = "ehlo" /\ f[j].code = 250)

Unanswered(f, p) == \A i \in 1 .. Len(f) : f[i].of # p

\* The request is on its way, or has been granted, or was refused, or never got away.
Pending(f, p, s, t) ==
    /\ \/ t = <<>>
       \/ /\ t = <<Ask(p)>> /\ p # "greeting"
          /\ Pos[s] = Pos[p] - 1 /\ Unanswered(f, p)
    /\ \/ s = p
       \/ Pos[s] = Pos[p] - 1 /\ \A i \in 1 .. Len(f) : f[i].of = p => f[i].code # Expected[p]
    /\ s = "new" => f = <<>>

Talk ==
    guesses = 0 =>
        /\ pc \in Step => Orderly(Flow, pc) /\ Pending(Flow, pc, stage, toSrv)
        /\ pc = "sent" => stage = "quit" /\ toSrv = <<>>

\* What the server has made of the requests that it granted.
Held ==
    guesses = 0 /\ pc # "failed" =>
        /\ Pos[stage] >= 4 => login = TextOf("account")
        /\ Pos[stage] >= 5 => user = cred
        /\ Pos[stage] < 9 => mails = <<>>
        /\ Pos[stage] >= 9 => mails = <<[user |-> cred, file |-> Attachment]>>

-----------------------------------------------------------------------------
(* Pieces.                                                                 *)

LEMMA FlowType ==
    ASSUME Typed
    PROVE  Flow \in Seq(Piece)
BY DEF Typed, Flow

LEMMA ReplyIs ==
    ASSUME NEW code \in Code, NEW step \in Step
    PROVE  /\ Reply(code, step) \in Seq(Piece) /\ Len(Reply(code, step)) = 2
           /\ Reply(code, step)[1] = [code |-> code, of |-> step]
           /\ Reply(code, step)[2] = [code |-> Text, of |-> step]
BY DEF Reply, Piece

LEMMA CodesAre == 220 \in Code /\ 500 \in Code /\ \A s \in Step : Expected[s] \in Code
<1>1. Code = {Expected[Steps[i]] : i \in 1 .. 10} \cup {500}
    BY DEF Code, ToSet, Steps
<1>2. \A i \in 1 .. 10 : Expected[Steps[i]] \in Code
    BY <1>1
<1>3. Step = {Steps[i] : i \in 1 .. 10}
    BY DEF Step, ToSet, Steps
<1>4. \A s \in Step : Expected[s] \in Code
    BY <1>2, <1>3
<1> QED BY <1>1, <1>4, StepsAre, Codes

LEMMA Joined ==
    ASSUME NEW S, NEW s \in Seq(S), NEW t \in Seq(S)
    PROVE  /\ s \o t \in Seq(S) /\ Len(s \o t) = Len(s) + Len(t)
           /\ \A i \in 1 .. Len(s) : (s \o t)[i] = s[i]
           /\ \A i \in 1 .. Len(t) : (s \o t)[Len(s) + i] = t[i]
OBVIOUS

\* Pieces that answer step p: only the first promises anything, but for EHLO.
Answer(e, p, code) ==
    /\ Len(e) > 0
    /\ \A i \in 1 .. Len(e) : /\ e[i].of = p /\ e[i].code \in {code, Text}
                              /\ i > 1 => e[i].code = Text \/ (p = "ehlo" /\ e[i].code = 250)

LEMMA OneReply ==
    ASSUME NEW code \in Code, NEW p \in Step
    PROVE  Reply(code, p) \in Seq(Piece) /\ Answer(Reply(code, p), p, code)
<1>1. PICK r \in Seq(Piece) : /\ r = Reply(code, p) /\ Len(r) = 2
                              /\ r[1] = [code |-> code, of |-> p]
                              /\ r[2] = [code |-> Text, of |-> p]
    BY ReplyIs
<1>2. \A i \in 1 .. Len(r) : i = 1 \/ i = 2
    BY <1>1
<1>3. Answer(r, p, code)
    BY <1>1, <1>2 DEF Answer
<1> QED BY <1>1, <1>3

LEMMA TwoReplies ==
    LET e == Reply(250, "ehlo") \o Reply(250, "ehlo") IN
    e \in Seq(Piece) /\ Answer(e, "ehlo", 250)
<1>1. 250 \in Code /\ "ehlo" \in Step
    BY CodesAre, Codes, StepsAre
<1>2. PICK r \in Seq(Piece) : r = Reply(250, "ehlo") /\ Answer(r, "ehlo", 250)
    BY <1>1, OneReply
<1>3. PICK n \in Nat : n = Len(r)
    BY <1>2
<1>4. PICK e : e = r \o r
    OBVIOUS
<1>5. /\ e \in Seq(Piece) /\ Len(e) = n + n
      /\ \A i \in 1 .. n : e[i] = r[i] /\ e[n + i] = r[i]
    BY ONLY <1>2, <1>3, <1>4, Joined
<1>6. \A i \in 1 .. n : /\ r[i].of = "ehlo" /\ r[i].code \in {250, Text}
                        /\ n > 0
    BY <1>2, <1>3 DEF Answer
<1>8. ASSUME NEW i \in 1 .. Len(e) PROVE e[i].of = "ehlo" /\ e[i].code \in {250, Text}
  <2>1. CASE i <= n
    BY <2>1, <1>5, <1>6
  <2>2. CASE i > n
    <3>1. i - n \in 1 .. n /\ i = n + (i - n)
        BY <2>2, <1>3, <1>5
    <3>2. PICK k \in 1 .. n : i = n + k
        BY <3>1
    <3> QED BY <3>2, <1>5, <1>6
  <2> QED BY <2>1, <2>2, <1>5
<1>9. Len(e) > 0
    BY <1>2, <1>3, <1>5 DEF Answer
<1> QED BY <1>2, <1>4, <1>5, <1>8, <1>9 DEF Answer

\* What an answer adds.
LEMMA Answering ==
    ASSUME NEW f \in Seq(Piece), NEW p \in Step, NEW code, NEW e \in Seq(Piece),
           Orderly(f, p), Unanswered(f, p), Answer(e, p, code)
    PROVE  /\ f \o e \in Seq(Piece) /\ Orderly(f \o e, p) /\ Len(f \o e) > 0
           /\ \A i \in 1 .. Len(f \o e) : (f \o e)[i].of = p => (f \o e)[i].code \in {code, Text}
<1>1. PICK m \in Nat : m = Len(f)
    OBVIOUS
<1>2. PICK n \in Nat : n = Len(e) /\ n > 0
    BY DEF Answer
<1>3. PICK g : g = f \o e
    OBVIOUS
<1>4. /\ g \in Seq(Piece) /\ Len(g) = m + n
      /\ \A i \in 1 .. m : g[i] = f[i]
      /\ \A i \in 1 .. n : g[m + i] = e[i]
    BY ONLY <1>1, <1>2, <1>3, Joined, f \in Seq(Piece), e \in Seq(Piece)
<1>5. ASSUME NEW i \in 1 .. Len(g) PROVE i \in 1 .. m \/ \E k \in 1 .. n : i = m + k
  <2>1. i > m => i - m \in 1 .. n /\ i = m + (i - m)
    BY <1>1, <1>2, <1>4
  <2> QED BY <2>1, <1>4
<1>6. \A i \in 1 .. n : /\ e[i].of = p /\ e[i].code \in {code, Text}
                        /\ i > 1 => e[i].code = Text \/ (p = "ehlo" /\ e[i].code = 250)
    BY <1>2 DEF Answer
<1>7. \A i \in 1 .. m : /\ Pos[f[i].of] <= Pos[p] /\ f[i].of # p
                        /\ f[i].code = Text \/ (p = "auth" /\ f[i].code = 250)
    BY <1>1 DEF Orderly, Unanswered
<1>8. ASSUME NEW i \in 1 .. Len(g), g[i].of = p
      PROVE  i - m \in 1 .. n /\ g[i].code \in {code, Text}
  <2>1. i \notin 1 .. m
    <3>1. i \in 1 .. m => g[i] = f[i] /\ f[i].of # p
        BY <1>4, <1>7
    <3> QED BY ONLY <3>1, <1>8, Zenon
  <2>2. PICK k \in 1 .. n : i = m + k
    BY <2>1, <1>5
  <2>3. g[i].code = e[k].code /\ i - m = k
    BY <2>2, <1>4
  <2> QED BY <2>3, <1>6
<1>9. ASSUME NEW i \in 1 .. Len(g), g[i].of = p, NEW j \in i + 1 .. Len(g)
      PROVE  g[j].code = Text \/ (p = "ehlo" /\ g[j].code = 250)
  <2>1. i - m \in 1 .. n
    BY <1>8, <1>9
  <2>2. j - m \in 1 .. n /\ j - m > 1 /\ g[j] = e[j - m]
    BY <2>1, <1>1, <1>2, <1>4, <1>9
  <2> QED BY <2>2, <1>6
<1>10. ASSUME NEW i \in 1 .. Len(g)
       PROVE  /\ Pos[g[i].of] <= Pos[p]
              /\ g[i].of # p => g[i].code = Text \/ (p = "auth" /\ g[i].code = 250)
  <2>1. CASE i \in 1 .. m
    BY <2>1, <1>4, <1>7
  <2>2. CASE \E k \in 1 .. n : i = m + k
    <3>1. PICK k \in 1 .. n : i = m + k
        BY <2>2
    <3>2. g[i].of = p
        BY <3>1, <1>4, <1>6
    <3>3. Pos[p] \in 1 .. 10
        BY OneOn
    <3> QED BY <3>2, <3>3
  <2> QED BY <1>5, <2>1, <2>2
<1>11. Orderly(g, p)
    BY <1>9, <1>10 DEF Orderly
<1>12. Len(g) > 0
    BY <1>1, <1>2, <1>4
<1> QED BY <1>3, <1>4, <1>8, <1>11, <1>12

LEMMA TextIs ==
    /\ TextOf("account") = base64_encode(cred.account)
    /\ TextOf("password") = base64_encode(cred.password)
    /\ TextOf("content") = Attachment
BY DEF TextOf

-----------------------------------------------------------------------------
(* Types.                                                                  *)

LEMMA TypedInit == Init => Typed
BY StepsAre DEF Init, Typed

LEMMA Same ==
    ASSUME UNCHANGED <<cred, file>>
    PROVE  Asks' = Asks /\ Taken' = Taken /\ Attachment' = Attachment
           /\ \A s \in Step : TextOf(s)' = TextOf(s)
BY DEF Asks, Ask, Taken, Attachment, TextOf

\* The first of what is on its way.
LEMMA Asking ==
    ASSUME Typed, toSrv # <<>>
    PROVE  /\ Head(toSrv) \in Asks /\ Tail(toSrv) \in Seq(Asks)
           /\ Head(toSrv).step \in Step
           /\ Head(toSrv).text = TextOf(Head(toSrv).step)
<1>1. Head(toSrv) \in Asks /\ Tail(toSrv) \in Seq(Asks)
    BY DEF Typed
<1> QED BY <1>1 DEF Asks, Ask

LEMMA SendsType ==
    ASSUME Typed, NEW step, step \in Step \cup {"sent"}, Sends(step)
    PROVE  toSrv' \in Seq(Asks) /\ (toSrv' = toSrv \/ toSrv' = Append(toSrv, Ask(step)))
<1>1. CASE link = "open" /\ step # "sent"
  <2>1. Ask(step) \in Asks
    BY <1>1 DEF Asks
  <2> QED BY <1>1, <2>1 DEF Typed, Sends, Ask
<1>2. CASE ~ (link = "open" /\ step # "sent")
    BY <1>2 DEF Typed, Sends
<1> QED BY <1>1, <1>2

LEMMA EmptyIs == <<>> \in Seq(Piece)
OBVIOUS

LEMMA TypedStep ==
    ASSUME Typed, [Next]_vars
    PROVE  Typed' /\ UNCHANGED <<cred, file>>
<1>a. UNCHANGED <<cred, file>>
    BY DEF Next, vars, Client, Server, GetResponse, Guesses, RecvFails, Greets, Grants,
           Refuses, Closes, Deliver, client
<1>b. /\ Asks' = Asks /\ Taken' = Taken /\ Attachment' = Attachment
    BY <1>a, Same
<1>1. CASE Greets
  <2>1. Reply(220, "greeting") \in Seq(Piece) /\ "greeting" \in Step
    BY OneReply, CodesAre, StepsAre
  <2> QED BY <1>a, <1>b, <1>1, <2>1 DEF Typed, Greets, Says, client
<1>2. CASE Grants
  <2>1. toSrv # <<>>
    BY <1>2 DEF Grants
  <2>2. PICK r : r = Head(toSrv)
    OBVIOUS
  <2>3. r.step \in Step /\ r.text = TextOf(r.step) /\ Tail(toSrv) \in Seq(Asks)
    BY <2>1, <2>2, Asking
  <2>4. PICK e \in Seq(Piece) : e = Reply(Expected[r.step], r.step)
    BY <2>3, OneReply, CodesAre
  <2>5. /\ Effect(r) /\ stage' = r.step /\ toSrv' = Tail(toSrv)
        /\ wire' = wire \o e \/ wire' = wire \o (e \o e)
        /\ UNCHANGED <<client, arrived>>
    BY <1>2, <2>2, <2>4 DEF Grants, Says
  <2>6. e \o e \in Seq(Piece)
    BY <2>4
  <2>7. wire' \in Seq(Piece)
    <3>1. wire \in Seq(Piece) /\ e \in Seq(Piece)
        BY DEF Typed
    <3>2. wire \o e \in Seq(Piece) /\ wire \o (e \o e) \in Seq(Piece)
        BY <3>1, <2>6
    <3> QED BY <3>2, <2>5
  <2>8. user' \in Registered \cup {None}
    BY <2>5 DEF Effect, Typed
  <2>9. mails' \in Seq(Taken)
    <3>1. CASE r.step = "content"
      <4>1. [user |-> user, file |-> r.text] \in Taken
        BY <3>1, <2>3, TextIs DEF Taken, Typed
      <4> QED BY <3>1, <4>1, <2>5 DEF Effect, Typed
    <3>2. CASE r.step # "content"
        BY <3>2, <2>5 DEF Effect, Typed
    <3> QED BY <3>1, <3>2
  <2> QED BY <1>a, <1>b, <2>3, <2>5, <2>7, <2>8, <2>9 DEF Typed, client
<1>3. CASE Refuses
  <2>1. toSrv # <<>>
    BY <1>3 DEF Refuses
  <2>2. Head(toSrv).step \in Step /\ Tail(toSrv) \in Seq(Asks)
    BY <2>1, Asking
  <2>3. Reply(500, Head(toSrv).step) \in Seq(Piece)
    BY <2>2, OneReply, CodesAre
  <2> QED BY <1>a, <1>b, <1>3, <2>2, <2>3 DEF Typed, Refuses, Says, client, server
<1>4. CASE Closes
  <2>1. (wire' = wire /\ arrived' = arrived) \/ (wire' = <<>> /\ arrived' = <<>>)
    BY <1>4 DEF Closes
  <2>2. wire' \in Seq(Piece) /\ arrived' \in Seq(Piece)
    BY <2>1, EmptyIs DEF Typed
  <2> QED BY <1>a, <1>b, <1>4, <2>2 DEF Typed, Closes, client, server
<1>5. CASE Deliver
  <2>1. Head(wire) \in Piece /\ Tail(wire) \in Seq(Piece)
    BY <1>5 DEF Deliver, Typed
  <2> QED BY <1>a, <1>b, <1>5, <2>1 DEF Typed, Deliver, client, server
<1>6. CASE Client
  <2>1. /\ arrived' = <<>> \/ arrived' = arrived
        /\ wire' = wire /\ UNCHANGED server /\ pc \in Step
        /\ \/ Succeeds(0) \/ Succeeds(1) \/ Fails
    BY <1>6 DEF Client, GetResponse, Guesses, RecvFails
  <2>2. NextStep(pc) \in Step \cup {"sent"}
    BY <2>1, OneOn
  <2>3. /\ pc' \in Step \cup {"sent", "failed"} /\ guesses' \in Nat /\ toSrv' \in Seq(Asks)
    BY <2>1, <2>2, SendsType DEF Succeeds, Fails, Typed
  <2>4. arrived' \in Seq(Piece)
    BY <2>1, EmptyIs DEF Typed
  <2> QED BY <1>a, <1>b, <2>1, <2>3, <2>4 DEF Typed, server
<1>7. CASE UNCHANGED vars
    BY <1>a, <1>b, <1>7 DEF Typed, vars
<1> QED BY <1>a, <1>1, <1>2, <1>3, <1>4, <1>5, <1>6, <1>7 DEF Next, Server

-----------------------------------------------------------------------------
(* Replies stay in step.                                                   *)

LEMMA TalkThen ==
    ASSUME UNCHANGED <<cred, file>>,
           guesses' = 0 =>
             /\ pc' \in Step => Orderly(Flow', pc') /\ Pending(Flow', pc', stage', toSrv')
             /\ pc' = "sent" => stage' = "quit" /\ toSrv' = <<>>
    PROVE  Talk'
<1>1. Ask(pc)' = Ask(pc')
    BY DEF Ask, TextOf, Attachment
<1>2. Orderly(Flow, pc)' <=> Orderly(Flow', pc')
    BY DEF Orderly
<1>3. Unanswered(Flow, pc)' <=> Unanswered(Flow', pc')
    BY DEF Unanswered
<1>4. Pending(Flow, pc, stage, toSrv)' <=> Pending(Flow', pc', stage', toSrv')
    BY <1>1, <1>3 DEF Pending
<1> QED BY <1>2, <1>4 DEF Talk

LEMMA TalkInit == Init => Talk
<1> SUFFICES ASSUME Init PROVE Talk
    OBVIOUS
<1>1. pc = "greeting" /\ toSrv = <<>> /\ stage = "new" /\ Flow = <<>>
    BY DEF Init, Flow
<1>2. Len(<<>>) = 0
    OBVIOUS
<1>3. Pos["new"] = Pos["greeting"] - 1
    BY OneOn
<1>4. Orderly(Flow, pc)
    BY <1>1, <1>2 DEF Orderly
<1>5. Pending(Flow, pc, stage, toSrv)
    BY <1>1, <1>2, <1>3 DEF Pending
<1> QED BY <1>1, <1>4, <1>5 DEF Talk

\* What the server finds on its way to it, while nothing was guessed.
LEMMA Requested ==
    ASSUME Typed, Talk, guesses = 0, toSrv # <<>>, pc # "failed"
    PROVE  /\ pc \in Step /\ pc # "greeting" /\ Head(toSrv).step = pc
           /\ Head(toSrv).text = TextOf(pc) /\ Tail(toSrv) = <<>>
           /\ Pos[stage] = Pos[pc] - 1 /\ Unanswered(Flow, pc) /\ Orderly(Flow, pc)
<1>1. pc \in Step
    BY DEF Typed, Talk
<1>2. Orderly(Flow, pc) /\ Pending(Flow, pc, stage, toSrv)
    BY <1>1 DEF Talk
<1>3. /\ toSrv = <<Ask(pc)>> /\ pc # "greeting" /\ Pos[stage] = Pos[pc] - 1
      /\ Unanswered(Flow, pc)
    BY <1>2 DEF Pending
<1> QED BY <1>1, <1>2, <1>3 DEF Ask

\* What the server says comes after all else.
LEMMA Adds ==
    ASSUME Typed, NEW e \in Seq(Piece), wire' = wire \o e, arrived' = arrived
    PROVE  Flow' = Flow \o e
<1>1. PICK a \in Seq(Piece) : a = arrived
    BY DEF Typed
<1>2. PICK w \in Seq(Piece) : w = wire
    BY DEF Typed
<1>3. a \o (w \o e) = (a \o w) \o e
    OBVIOUS
<1> QED BY <1>1, <1>2, <1>3 DEF Flow

\* A piece that says what is expected of the current step answers it.
LEMMA TheAnswer ==
    ASSUME NEW p \in Step, NEW f, Orderly(f, p), NEW i \in 1 .. Len(f),
           f[i].code = Expected[p]
    PROVE  f[i].of = p
BY Codes DEF Orderly

LEMMA GreetsTalk ==
    ASSUME Typed, Talk, Greets PROVE Talk'
<1> SUFFICES ASSUME guesses = 0, pc \in Step \cup {"sent"} PROVE Talk'
    BY OneOn DEF Greets, client, Talk, Typed
<1>1. /\ stage = "new" /\ stage' = "greeting" /\ UNCHANGED <<pc, guesses, toSrv, arrived>>
      /\ wire' = wire \o Reply(220, "greeting")
    BY DEF Greets, Says, client
<1>2. pc \in Step
    BY <1>1 DEF Talk
<1>3. Orderly(Flow, pc) /\ Pending(Flow, pc, stage, toSrv)
    BY <1>2 DEF Talk
<1>4. pc = "greeting"
  <2>1. Pos[stage] = Pos[pc] - 1
    BY <1>1, <1>2, <1>3, OneOn DEF Pending
  <2>2. "greeting" \in Step
    BY StepsAre
  <2>3. Pos[pc] = Pos["greeting"]
    BY <1>1, <1>2, <2>1, OneOn
  <2> QED BY <1>2, <2>2, <2>3, OneOn
<1>5. Flow = <<>> /\ toSrv = <<>>
    BY <1>1, <1>3, <1>4 DEF Pending
<1>6. Unanswered(Flow, pc)
    BY <1>5 DEF Unanswered
<1>7. PICK e \in Seq(Piece) : e = Reply(220, "greeting") /\ Answer(e, "greeting", 220)
    BY CodesAre, StepsAre, OneReply
<1>8. Flow' = Flow \o e
    BY <1>1, <1>7, Adds
<1>9. Orderly(Flow', pc)
    BY <1>2, <1>3, <1>4, <1>6, <1>7, <1>8, FlowType, Answering
<1>10. Pending(Flow', pc', stage', toSrv')
    BY <1>1, <1>4, <1>5 DEF Pending
<1>11. UNCHANGED <<cred, file>>
    BY DEF Greets, client
<1> QED BY <1>1, <1>2, <1>9, <1>10, <1>11, OneOn, TalkThen

LEMMA GrantsTalk ==
    ASSUME Typed, Talk, Grants PROVE Talk'
<1> SUFFICES ASSUME guesses = 0, pc \in Step \cup {"sent"} PROVE Talk'
    BY OneOn DEF Grants, client, Talk, Typed
<1>1. toSrv # <<>>
    BY DEF Grants
<1>2. /\ pc \in Step /\ pc # "greeting" /\ Head(toSrv).step = pc /\ Tail(toSrv) = <<>>
      /\ Unanswered(Flow, pc) /\ Orderly(Flow, pc)
    BY <1>1, Requested, OneOn
<1>3. PICK r \in Seq(Piece) : r = Reply(Expected[pc], pc) /\ Answer(r, pc, Expected[pc])
    BY <1>2, CodesAre, OneReply
<1>4. /\ stage' = pc /\ toSrv' = <<>> /\ UNCHANGED <<pc, guesses, arrived>>
      /\ wire' = wire \o r \/ (pc = "ehlo" /\ wire' = wire \o (r \o r))
    BY <1>2, <1>3 DEF Grants, Says, client
<1>5. PICK e \in Seq(Piece) : wire' = wire \o e /\ Answer(e, pc, Expected[pc])
  <2>1. CASE wire' = wire \o r
    BY <1>3, <2>1
  <2>2. CASE pc = "ehlo" /\ wire' = wire \o (r \o r)
    <3>1. r = Reply(250, "ehlo")
        BY <1>3, <2>2, Codes
    <3>2. Expected[pc] = 250
        BY <2>2, Codes
    <3>3. r \o r \in Seq(Piece) /\ Answer(r \o r, "ehlo", 250)
        BY <3>1, TwoReplies
    <3> QED BY <2>2, <3>2, <3>3
  <2> QED BY <1>4, <2>1, <2>2
<1>6. Flow' = Flow \o e
    BY <1>4, <1>5, Adds
<1>7. Orderly(Flow', pc)
    BY <1>2, <1>5, <1>6, FlowType, Answering
<1>8. Pending(Flow', pc', stage', toSrv')
    BY <1>2, <1>4, OneOn DEF Pending
<1>9. UNCHANGED <<cred, file>>
    BY DEF Grants, client
<1> QED BY <1>2, <1>4, <1>7, <1>8, <1>9, OneOn, TalkThen

LEMMA RefusesTalk ==
    ASSUME Typed, Talk, Refuses PROVE Talk'
<1> SUFFICES ASSUME guesses = 0, pc \in Step \cup {"sent"} PROVE Talk'
    BY OneOn DEF Refuses, client, Talk, Typed
<1>1. toSrv # <<>> /\ stage # "new"
    BY DEF Refuses
<1>2. /\ pc \in Step /\ Head(toSrv).step = pc /\ Tail(toSrv) = <<>>
      /\ Pos[stage] = Pos[pc] - 1 /\ Unanswered(Flow, pc) /\ Orderly(Flow, pc)
    BY <1>1, Requested, OneOn
<1>3. PICK e \in Seq(Piece) : e = Reply(500, pc) /\ Answer(e, pc, 500)
    BY <1>2, CodesAre, OneReply
<1>4. /\ toSrv' = <<>> /\ UNCHANGED <<pc, guesses, arrived, stage>> /\ wire' = wire \o e
    BY <1>2, <1>3 DEF Refuses, Says, client, server
<1>5. Flow' = Flow \o e
    BY <1>4, Adds
<1>6. /\ Orderly(Flow', pc)
      /\ \A i \in 1 .. Len(Flow') : Flow'[i].of = pc => Flow'[i].code \in {500, Text}
    BY <1>2, <1>3, <1>5, FlowType, Answering
<1>7. Expected[pc] \notin {500, Text}
    BY <1>2, Codes
<1>8. Pending(Flow', pc, stage, <<>>)
    BY <1>1, <1>2, <1>6, <1>7 DEF Pending
<1>9. UNCHANGED <<cred, file>>
    BY DEF Refuses, client
<1> QED BY <1>2, <1>4, <1>6, <1>8, <1>9, OneOn, TalkThen

LEMMA ClosesTalk ==
    ASSUME Typed, Talk, Closes PROVE Talk'
<1>1. UNCHANGED <<pc, guesses, toSrv, stage, cred, file>>
    BY DEF Closes, client, server
<1>2. CASE UNCHANGED <<wire, arrived>>
  <2>1. Flow' = Flow
    BY <1>2 DEF Flow
  <2> QED BY <1>1, <2>1, TalkThen DEF Talk
<1>3. CASE wire' = <<>> /\ arrived' = <<>>
  <2>1. Flow' = <<>> /\ Len(<<>>) = 0
    BY <1>3 DEF Flow
  <2>2. ASSUME guesses = 0, pc \in Step PROVE Orderly(Flow', pc) /\ Pending(Flow', pc, stage, toSrv)
    <3>1. Pending(Flow, pc, stage, toSrv)
        BY <2>2 DEF Talk
    <3>2. Orderly(Flow', pc)
        BY <2>1 DEF Orderly
    <3> QED BY <2>1, <3>1, <3>2 DEF Pending, Unanswered
  <2> QED BY <1>1, <2>2, TalkThen DEF Talk
<1> QED BY <1>2, <1>3 DEF Closes

LEMMA DeliverTalk ==
    ASSUME Typed, Talk, Deliver PROVE Talk'
<1>1. UNCHANGED <<pc, guesses, toSrv, stage, cred, file>>
    BY DEF Deliver, client, server
<1>2. PICK a \in Seq(Piece) : a = arrived
    BY DEF Typed
<1>3. PICK w \in Seq(Piece) : w = wire /\ w # <<>>
    BY DEF Typed, Deliver
<1>4. Append(a, Head(w)) \o Tail(w) = a \o w
    BY <1>3
<1>5. Flow' = Flow
    BY <1>2, <1>3, <1>4 DEF Deliver, Flow
<1> QED BY <1>1, <1>5, TalkThen DEF Talk

\* What GetResponse takes without guessing is the answer to the current request, and what
\* it leaves on its way promises nothing that the next step would wait for.
LEMMA Accepts ==
    ASSUME Typed, Talk, guesses = 0, pc \in Step, arrived # <<>>, Matches(Head(arrived).code)
    PROVE  /\ Head(arrived).of = pc /\ stage = pc /\ toSrv = <<>>
           /\ NextStep(pc) \in Step =>
                Orderly(wire, NextStep(pc)) /\ Unanswered(wire, NextStep(pc))
<1>1. Orderly(Flow, pc) /\ Pending(Flow, pc, stage, toSrv)
    BY DEF Talk
<1>2. PICK a \in Seq(Piece) : a = arrived
    BY DEF Typed
<1>3. PICK w \in Seq(Piece) : w = wire
    BY DEF Typed
<1>4. PICK n \in Nat : n = Len(a) /\ n > 0
    BY <1>2
<1>5. PICK f : f = Flow
    OBVIOUS
<1>6. f = a \o w
    BY <1>2, <1>3, <1>5 DEF Flow
<1>7. /\ f \in Seq(Piece) /\ Len(f) = n + Len(w) /\ \A i \in 1 .. n : f[i] = a[i]
      /\ \A i \in 1 .. Len(w) : f[n + i] = w[i]
    BY ONLY <1>2, <1>3, <1>4, <1>6, Joined
<1>8. f[1] = Head(arrived)
    BY <1>2, <1>4, <1>7
<1>9. 1 \in 1 .. Len(f)
    BY <1>3, <1>4, <1>7
<1>10. f[1].code = Expected[pc]
    BY <1>8 DEF Matches
<1>11. f[1].of = pc
    BY <1>1, <1>5, <1>9, <1>10, TheAnswer
<1>12. stage = pc /\ toSrv = <<>>
    BY <1>1, <1>5, <1>9, <1>10, <1>11, OneOn DEF Pending, Unanswered
<1>13. ASSUME NextStep(pc) \in Step
       PROVE  Orderly(wire, NextStep(pc)) /\ Unanswered(wire, NextStep(pc))
  <2>1. Pos[NextStep(pc)] = Pos[pc] + 1 /\ Pos[pc] \in Nat
    BY OneOn
  <2>2. ASSUME NEW i \in 1 .. Len(w)
        PROVE  /\ w[i].of \in Step /\ Pos[w[i].of] <= Pos[pc]
               /\ w[i].code = Text \/ (pc = "ehlo" /\ w[i].code = 250)
    <3>a. PICK m \in Nat : m = Len(w)
        BY <1>3
    <3>b. i \in 1 .. m /\ Len(f) = n + m
        BY <3>a, <1>7
    <3>c. f[n + i] = w[i]
        BY <1>7
    <3>d. n + i \in 1 .. n + m /\ n + i \in 1 + 1 .. n + m
        BY ONLY <1>4, <3>b, n \in Nat, m \in Nat
    <3>1. n + i \in 1 .. Len(f) /\ n + i \in 1 + 1 .. Len(f) /\ f[n + i] = w[i]
        BY ONLY <3>b, <3>c, <3>d, Zenon
    <3>2. w[i] \in Piece
        BY <1>3
    <3> QED BY <3>1, <3>2, <1>1, <1>5, <1>9, <1>11 DEF Orderly, Piece
  <2>3. ASSUME NEW i \in 1 .. Len(w) PROVE w[i].of # NextStep(pc)
    BY <2>1, <2>2
  <2>4. pc = "ehlo" => NextStep(pc) = "auth"
    BY NextStepIs
  <2>5. ASSUME NEW i \in 1 .. Len(w) PROVE Pos[w[i].of] <= Pos[NextStep(pc)]
    <3>1. Pos[w[i].of] \in Nat /\ Pos[w[i].of] <= Pos[pc]
        BY <2>2, OneOn
    <3> QED BY <2>1, <3>1
  <2> QED BY <1>3, <2>2, <2>3, <2>4, <2>5 DEF Orderly, Unanswered
<1> QED BY <1>8, <1>11, <1>12, <1>13

LEMMA ClientTalk ==
    ASSUME Typed, Talk, Client PROVE Talk'
<1>1. pc \in Step /\ UNCHANGED <<cred, file, wire, stage>>
    BY DEF Client, GetResponse, Guesses, RecvFails, server
<1>2. CASE Fails
    BY <1>1, <1>2, OneOn, TalkThen DEF Fails
<1>3. CASE Guesses /\ Succeeds(1)
  <2>1. guesses' # 0
    BY <1>3 DEF Succeeds, Typed
  <2> QED BY <1>1, <2>1, TalkThen
<1>4. CASE GetResponse /\ Succeeds(0)
  <2> SUFFICES ASSUME guesses = 0, Matches(Head(arrived).code) PROVE Talk'
    <3>1. guesses' = guesses
        BY <1>4 DEF Succeeds, Typed
    <3>2. Matches(Head(arrived).code) \/ Fails
        BY <1>4 DEF GetResponse
    <3> QED BY <1>1, <1>2, <3>1, <3>2, TalkThen
  <2>1. /\ arrived # <<>> /\ arrived' = <<>> /\ pc' = NextStep(pc) /\ Sends(pc')
    BY <1>4 DEF GetResponse, Succeeds
  <2>2. /\ stage = pc /\ toSrv = <<>>
        /\ pc' \in Step => Orderly(wire, pc') /\ Unanswered(wire, pc')
    BY <1>1, <2>1, Accepts
  <2>3. Flow' = wire
    <3>1. wire \in Seq(Piece)
        BY DEF Typed
    <3> QED BY <1>1, <2>1, <3>1 DEF Flow
  <2>4. CASE pc' \in Step
    <3>1. toSrv' = <<>> \/ toSrv' = <<Ask(pc')>>
        BY <2>1, <2>2 DEF Sends, Ask
    <3>2. Pos[stage] = Pos[pc'] - 1 /\ pc' # "greeting" /\ stage # "new"
        BY <1>1, <2>1, <2>2, OneOn
    <3>3. Pending(wire, pc', stage, toSrv')
        BY <2>2, <2>4, <3>1, <3>2 DEF Pending, Unanswered
    <3> QED BY <1>1, <2>2, <2>3, <2>4, <3>3, OneOn, TalkThen
  <2>5. CASE pc' = "sent"
    <3>1. pc = "quit"
        BY <1>1, <2>1, <2>5, NextStepIs, StepsAre
    <3>2. toSrv' = <<>>
        BY <2>1, <2>2, <2>5 DEF Sends
    <3> QED BY <1>1, <2>2, <2>5, <3>1, <3>2, OneOn, TalkThen
  <2> QED BY <1>1, <2>1, <2>4, <2>5, OneOn
<1> QED BY <1>2, <1>3, <1>4 DEF Client, GetResponse, Guesses, RecvFails

LEMMA TalkStep ==
    ASSUME Typed, Talk, [Next]_vars PROVE Talk'
<1>1. CASE UNCHANGED vars
    BY <1>1, TalkThen DEF vars, Talk, Flow
<1> QED BY <1>1, ClientTalk, GreetsTalk, GrantsTalk, RefusesTalk, ClosesTalk, DeliverTalk
        DEF Next, Server

LEMMA TalkHolds == Spec => [](Typed /\ Talk)
<1>1. Init => Typed /\ Talk
    BY TypedInit, TalkInit
<1>2. Typed /\ Talk /\ [Next]_vars => (Typed /\ Talk)'
    BY TypedStep, TalkStep
<1> QED BY <1>1, <1>2, PTL DEF Spec

\* No reply is taken for the answer to another request, as long as no uninitialised number
\* was compared: there is one recv for each reply and the lines of an EHLO answer may come
\* one by one, but what such a reply leaves on its way cannot pass for the next answer
\* (GetResponse and its ten calls).
THEOREM RepliesInStep == Spec => InStep
<1>1. ASSUME Typed, Talk, [Next]_vars, Answered PROVE Head(arrived).of = pc
  <2>1. pc \in Step /\ pc' = NextStep(pc) /\ guesses' = 0 /\ pc' # pc /\ pc' # "failed"
    BY <1>1, OneOn DEF Answered
  <2>2. Client
    BY <1>1, <2>1 DEF Next, vars, Server, Greets, Grants, Refuses, Closes, Deliver, client
  <2>3. (GetResponse /\ Succeeds(0) /\ Matches(Head(arrived).code)) \/ Succeeds(1)
    BY <2>1, <2>2 DEF Client, GetResponse, Guesses, RecvFails, Fails
  <2>4. GetResponse /\ guesses = 0 /\ Matches(Head(arrived).code)
    BY <1>1, <2>1, <2>3 DEF Succeeds, Typed
  <2> QED BY <1>1, <2>1, <2>4, Accepts DEF GetResponse
<1>2. Typed /\ Talk /\ [Next]_vars => [Answered => Head(arrived).of = pc]_vars
    BY <1>1
<1> QED BY <1>2, TalkHolds, PTL DEF Spec, InStep

-----------------------------------------------------------------------------
(* What the server makes of the requests.                                  *)

LEMMA HeldThen ==
    ASSUME UNCHANGED <<cred, file>>,
           guesses' = 0 /\ pc' # "failed" =>
             /\ Pos[stage'] >= 4 => login' = TextOf("account")
             /\ Pos[stage'] >= 5 => user' = cred
             /\ Pos[stage'] < 9 => mails' = <<>>
             /\ Pos[stage'] >= 9 => mails' = <<[user |-> cred, file |-> Attachment]>>
    PROVE  Held'
<1>1. TextOf("account")' = TextOf("account") /\ Attachment' = Attachment
    BY DEF TextOf, Attachment
<1> QED BY <1>1 DEF Held

LEMMA HeldInit == Init => Held
<1> SUFFICES ASSUME Init PROVE Held
    OBVIOUS
<1>1. stage = "new" /\ mails = <<>>
    BY DEF Init
<1>2. Pos[stage] = 0
    BY <1>1, OneOn
<1> QED BY <1>1, <1>2 DEF Held

\* The password and the account that the server finds are those of the user.
LEMMA Recognised ==
    ASSUME Typed, NEW c \in Registered, login = TextOf("account"), Knows(c, TextOf("password"))
    PROVE  c = cred
<1>1. cred \in Credentials /\ c \in Credentials
    BY SmtpAssumption DEF Typed
<1>2. \A x \in Credentials : /\ x.account \in Seq(Byte) /\ x.password \in Seq(Byte)
                             /\ x = [account |-> x.account, password |-> x.password]
  <2>1. ASSUME NEW x \in Credentials
        PROVE  /\ x.account \in Seq(Byte) /\ x.password \in Seq(Byte)
               /\ x = [account |-> x.account, password |-> x.password]
    <3>1. x \in [account : Seq(Byte \ {NUL}), password : Seq(Byte \ {NUL})]
        BY SmtpAssumption
    <3>2. \A s \in Seq(Byte \ {NUL}) : s \in Seq(Byte)
        OBVIOUS
    <3> QED BY <3>1, <3>2
  <2> QED BY <2>1
<1>3. /\ IsBase64(base64_encode(cred.account), c.account)
      /\ IsBase64(base64_encode(cred.password), c.password)
    BY TextIs DEF Knows
<1>4. cred.account = c.account
    BY <1>1, <1>2, <1>3, EncodedOnce
<1>5. cred.password = c.password
    BY <1>1, <1>2, <1>3, EncodedOnce
<1> QED BY <1>1, <1>2, <1>4, <1>5

LEMMA GrantsHeld ==
    ASSUME Typed, Talk, Held, Grants PROVE Held'
<1>1. UNCHANGED <<cred, file, pc, guesses>>
    BY DEF Grants, client
<1> SUFFICES ASSUME guesses = 0, pc # "failed" PROVE Held'
    BY <1>1, HeldThen
<1>2. toSrv # <<>>
    BY DEF Grants
<1>3. /\ pc \in Step /\ Head(toSrv).step = pc /\ Head(toSrv).text = TextOf(pc)
      /\ Pos[stage] = Pos[pc] - 1
    BY <1>2, Requested
<1>4. PICK r : r = Head(toSrv)
    OBVIOUS
<1>5. /\ stage' = pc /\ r.step = pc /\ r.text = TextOf(pc) /\ Effect(r)
    BY <1>3, <1>4 DEF Grants
<1>6. PICK k \in Nat : k = Pos[stage]
    BY <1>3, OneOn
<1>7. Pos[stage'] = k + 1
    BY <1>3, <1>5, <1>6, OneOn
<1>8. /\ k >= 4 => login = TextOf("account")
      /\ k >= 5 => user = cred
      /\ k < 9 => mails = <<>>
      /\ k >= 9 => mails = <<[user |-> cred, file |-> Attachment]>>
    BY <1>6 DEF Held
<1>9. /\ pc = "account" <=> k = 3
      /\ pc = "password" <=> k = 4
      /\ pc = "content" <=> k = 8
  <2>1. "account" \in Step /\ "password" \in Step /\ "content" \in Step
    BY StepsAre
  <2>2. Pos[pc] = k + 1
    BY <1>3, <1>6, OneOn
  <2> QED BY <1>3, <2>1, <2>2, OneOn
<1>10. k + 1 >= 4 => login' = TextOf("account")
    BY <1>5, <1>8, <1>9 DEF Effect
<1>11. k + 1 >= 5 => user' = cred
  <2>1. CASE k = 4
    <3>1. PICK c \in Registered : Knows(c, TextOf("password")) /\ user' = c
        BY <1>5, <1>9, <2>1 DEF Effect
    <3>2. c = cred
        BY <3>1, <1>8, <2>1, Recognised
    <3> QED BY <3>1, <3>2
  <2>2. CASE k # 4
    BY <1>5, <1>8, <1>9, <2>2 DEF Effect
  <2> QED BY <2>1, <2>2
<1>12. k + 1 < 9 => mails' = <<>>
    BY <1>5, <1>8, <1>9 DEF Effect
<1>13. k + 1 >= 9 => mails' = <<[user |-> cred, file |-> Attachment]>>
  <2>1. CASE k = 8
    <3>1. mails = <<>> /\ user = cred /\ r.text = Attachment
        BY <1>5, <1>8, <1>9, <2>1, TextIs
    <3>2. mails' = Append(mails, [user |-> user, file |-> r.text])
        BY <1>5, <1>9, <2>1 DEF Effect
    <3> QED BY <3>1, <3>2
  <2>2. CASE k # 8
    BY <1>5, <1>8, <1>9, <2>2 DEF Effect
  <2> QED BY <2>1, <2>2
<1> QED BY <1>1, <1>7, <1>10, <1>11, <1>12, <1>13, HeldThen

LEMMA HeldStep ==
    ASSUME Typed, Talk, Held, [Next]_vars PROVE Held'
<1>1. CASE Greets
  <2>1. /\ stage = "new" /\ stage' = "greeting"
        /\ UNCHANGED <<cred, file, pc, guesses, login, user, mails>>
    BY <1>1 DEF Greets, client
  <2>2. Pos[stage] = 0 /\ Pos[stage'] = 1
    BY <2>1, OneOn
  <2> QED BY <2>1, <2>2, HeldThen DEF Held
<1>2. CASE Refuses \/ Closes \/ Deliver \/ UNCHANGED vars
  <2>1. UNCHANGED <<cred, file, pc, guesses, stage, login, user, mails>>
    BY <1>2 DEF Refuses, Closes, Deliver, vars, client, server
  <2> QED BY <2>1, HeldThen DEF Held
<1>3. CASE Client
  <2>1. UNCHANGED <<cred, file, stage, login, user, mails>>
    BY <1>3 DEF Client, GetResponse, Guesses, RecvFails, server
  <2>2. pc # "failed" /\ (guesses' = 0 => guesses = 0)
    BY <1>3, OneOn DEF Client, GetResponse, Guesses, RecvFails, Succeeds, Fails, Typed
  <2> QED BY <2>1, <2>2, HeldThen DEF Held
<1> QED BY <1>1, <1>2, <1>3, GrantsHeld DEF Next, Server

LEMMA HeldHolds == Spec => [](Typed /\ Talk /\ Held)
<1>1. Init => Typed /\ Talk /\ Held
    BY TypedInit, TalkInit, HeldInit
<1>2. Typed /\ Talk /\ Held /\ [Next]_vars => (Typed /\ Talk /\ Held)'
    BY TypedStep, TalkStep, HeldStep
<1> QED BY <1>1, <1>2, PTL DEF Spec

\* A file that is attached.
LEMMA Attached ==
    ASSUME Typed, file \notin {Absent, Locked}
    PROVE  /\ CString(file) \in Seq(Byte)
           /\ \A i \in 1 .. Len(CString(file)) : CString(file)[i] # NUL
           /\ Attachment = base64_encode(CString(file))
<1>1. file \in Seq(Byte)
    BY SmtpAssumption DEF Typed
<1> QED BY <1>1, CStringType DEF Attachment

\* Of "Send ok!": the server has accepted one mail, it takes this user for its author, and
\* the attachment is the base64 form of the file up to its first NUL, if the file could be
\* read; unless an uninitialised number was compared (main, SendMail, GetResponse).
THEOREM SendOkMeansSent == Spec => []SendOk
<1>1. ASSUME Typed, Talk, Held PROVE SendOk
  <2> SUFFICES ASSUME pc = "sent", guesses = 0
               PROVE  /\ mails # <<>> /\ mails[1].user = cred
                      /\ IF file \in {Absent, Locked} THEN mails[1].file = None
                         ELSE IsBase64(mails[1].file, CString(file))
    BY DEF SendOk
  <2>1. Pos[stage] = 10
    BY <1>1, OneOn DEF Talk
  <2>2. mails = <<[user |-> cred, file |-> Attachment]>>
    BY <1>1, <2>1 DEF Held
  <2>3. mails # <<>> /\ mails[1].user = cred /\ mails[1].file = Attachment
    BY <2>2
  <2>4. CASE file \in {Absent, Locked}
    BY <2>3, <2>4 DEF Attachment
  <2>5. CASE file \notin {Absent, Locked}
    <3>1. IsBase64(Attachment, CString(file))
        BY <1>1, <2>5, Attached, EncodesBase64
    <3> QED BY <2>3, <2>5, <3>1
  <2> QED BY <2>4, <2>5
<1> QED BY <1>1, HeldHolds, PTL

\* Either decoder of the repository, SMTP.cpp's and Func.cpp's, makes of the attachment
\* what comes before the first NUL of the file, however long it is.
THEOREM AttachmentsReadBack == Spec => []ReadBack
<1>1. ASSUME Typed PROVE ReadBack
  <2> SUFFICES ASSUME NEW i \in DOMAIN mails, file \notin {Absent, Locked}
               PROVE  /\ CString(pop3_decode(mails[i].file)) = CString(file)
                      /\ base64_decode(mails[i].file) = CString(file)
    BY DEF ReadBack
  <2>1. mails[i].file = Attachment
    <3>1. mails[i] \in Taken
        BY <1>1 DEF Typed
    <3> QED BY <3>1 DEF Taken
  <2>2. PICK a \in Seq(Byte) : a = CString(file) /\ \A k \in 1 .. Len(a) : a[k] # NUL
    BY <1>1, Attached
  <2>3. mails[i].file = base64_encode(a)
    BY <1>1, <2>1, <2>2, Attached
  <2> QED BY <2>2, <2>3, Pop3Reads, SmtpReads
<1> QED BY <1>1, TalkHolds, PTL
=============================================================================
