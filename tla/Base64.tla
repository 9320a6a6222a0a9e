------------------------------- MODULE Base64 -------------------------------
(***************************************************************************)
(* The base64 routines of the repository, on bytes 0 .. 255 and digits     *)
(* 0 .. 63: base64_encode and base64_decode of the SMTP client             *)
(* (project3/cpp/SMTP/SMTP/SMTP.cpp), and base64_decode of the POP3 client *)
(* (project4/c/Func.cpp).  A digit stands for its character in the         *)
(* alphabet, Pad for '='.                                                  *)
(***************************************************************************)
EXTENDS Integers, Sequences, SequencesExt, FiniteSetsExt

Byte == 0 .. 255
Digit == 0 .. 63
Pad == 64
NUL == 0

\* What strlen, strcpy and sprintf see of the bytes s: those before the first NUL.
CString(s) ==
    LET nuls == {i \in DOMAIN s : s[i] = NUL} IN
    IF nuls = {} THEN s ELSE SubSeq(s, 1, Min(nuls) - 1)

Pow64 == <<262144, 4096, 64, 1>>
Pow256 == <<65536, 256, 1>>

\* Group g (from 0) of the n-character groups of s.
Group(s, n, g) == SubSeq(s, n * g + 1, n * g + n)

-----------------------------------------------------------------------------
(* base64_encode of SMTP.cpp: three bytes at a time.                       *)

\* Whether digit j of a group is '=': i is where the loop stands after the group.
Padded(i, size, j) == (j = 4 /\ i > size) \/ (j = 3 /\ i > size + 1)

base64_encode(data) ==
    LET size == Len(data)
        q(i) == IF i < size THEN data[i + 1] ELSE 0
        c(g) == q(3 * g) * 65536 + q(3 * g + 1) * 256 + q(3 * g + 2)
    IN [k \in 1 .. 4 * ((size + 2) \div 3) |->
          LET g == (k - 1) \div 4
              j == ((k - 1) % 4) + 1
          IN IF Padded(3 * (g + 1), size, j) THEN Pad ELSE (c(g) \div Pow64[j]) % 64]

\* What the caller has room for: new char[size * 4 / 3 + 4].
Allocated(size) == (size * 4) \div 3 + 4

-----------------------------------------------------------------------------
(* base64_decode of SMTP.cpp: it stops at the first group with '=', and     *)
(* before one that does not begin with a digit.                            *)

Failed == <<-1>>

\* The digits p of a group: the value of c, where '=' counts for nothing.
Value(p) == LET d(j) == IF p[j] = Pad THEN 0 ELSE p[j]
            IN d(1) * Pow64[1] + d(2) * Pow64[2] + d(3) * Pow64[3] + d(4)

\* return -1
Refused(p) == p[2] = Pad \/ (p[3] = Pad /\ p[4] # Pad)

\* done, at the end of the turn.
Done(p) == IF p[1] = Pad THEN 3 ELSE Cardinality({j \in 3 .. 4 : p[j] = Pad})

\* The first n bytes of the groups of str: three of each c.
Bytes(str, n) ==
    [i \in 1 .. n |->
        (Value(Group(str, 4, (i - 1) \div 3)) \div Pow256[1 + ((i - 1) % 3)]) % 256]

\* Only the last group that is looked at stores less than three.
base64_decode(str) ==
    LET p(g) == Group(str, 4, g)
        groups == {g \in 0 .. Len(str) \div 4 - 1 : \A h \in 0 .. g - 1 : Done(p(h)) = 0}
        n == Cardinality(groups)
    IN IF \E g \in groups : p(g)[1] # Pad /\ Refused(p(g)) THEN Failed
       ELSE Bytes(str, IF n = 0 THEN 0 ELSE 3 * n - Done(p(n - 1)))

-----------------------------------------------------------------------------
(* base64_decode of Func.cpp: every group gives three bytes, '=' is a zero. *)

\* MUTANT of pop3_decode: the bytes of a group come out in the wrong order.
pop3_decode_swapped(src) ==
    [i \in 1 .. 3 * (Len(src) \div 4) |->
        (Value(Group(src, 4, (i - 1) \div 3)) \div Pow256[3 - ((i - 1) % 3)]) % 256]

\* What is left over after the last whole group is not looked at.
pop3_decode(src) == Bytes(src, 3 * (Len(src) \div 4))

-----------------------------------------------------------------------------
(* What base64 is, said of bits.                                           *)

Pow2 == <<1, 2, 4, 8, 16, 32, 64, 128>>

Bit(s, width, i) == (s[1 + (i \div width)] \div Pow2[width - (i % width)]) % 2

\* text is the base64 form of data: its digits spell the bits of data, the bits left
\* over are zero, and '=' fills the last group.
IsBase64(text, data) ==
    LET bits   == 8 * Len(data)
        digits == (bits + 5) \div 6
    IN /\ Len(text) % 4 = 0 /\ Len(text) - digits \in 0 .. 2
       /\ \A k \in 1 .. Len(text) : IF k <= digits THEN text[k] \in Digit ELSE text[k] = Pad
       /\ \A i \in 0 .. 6 * digits - 1 :
             Bit(text, 6, i) = IF i < bits THEN Bit(data, 8, i) ELSE 0
=============================================================================
