------------------------- MODULE BlockBufferProofs -------------------------
(***************************************************************************)
(* Proofs about BlockBuffer, for every size of a block, every modulus of   *)
(* the words for the length that is a multiple of it, and messages of any  *)
(* length: what the words for the length say, what BLAKE2b holds back, and *)
(* that the buffers implement Digest.                                      *)
(***************************************************************************)
EXTENDS BlockBuffer, SequenceTheorems, TLAPS
-----------------------------------------------------------------------------
(* Quotients and remainders                                                *)

(* A block has at least three bytes.                                       *)
LEMMA Sizes == Block \in Nat \ {0} /\ Block > 2 /\ Limb \in Nat \ {0}
BY BlockAssumption, LimbAssumption

(* Products are naturals, and distribute.                                  *)
LEMMA Distributed ==
    \A a, b, h \in Nat : a * h \in Nat /\ (a + 1) * h = a * h + h /\ (a + b) * h = a * h + b * h
OBVIOUS

(* Multiplication keeps the order.                                         *)
LEMMA Ordered == \A a, b, h \in Nat : a <= b => a * h <= b * h
OBVIOUS

(* n is n \div h times h and n % h more.                                   *)
LEMMA Division ==
    ASSUME NEW n \in Nat, NEW h \in Nat \ {0}
    PROVE  n \div h \in Nat /\ n % h \in 0 .. h - 1 /\ n = (n \div h) * h + (n % h)
<1>1. n \div h \in Nat
  OBVIOUS
<1>2. n % h \in 0 .. h - 1
  OBVIOUS
<1>3. n = (n \div h) * h + (n % h)
  OBVIOUS
<1>. QED
  BY <1>1, <1>2, <1>3

(* There is one way only to write a number as a multiple and a remainder.  *)
LEMMA Quotient ==
    ASSUME NEW q \in Nat, NEW h \in Nat \ {0}, NEW x \in 0 .. h - 1,
           NEW n, n = q * h + x
    PROVE  n \div h = q /\ n % h = x
<1>0. n \in Nat
  BY Distributed
<1>1. PICK p \in Nat : p = n \div h
  BY <1>0, Division
<1>2. PICK y \in 0 .. h - 1 : y = n % h
  BY <1>0, Division
<1>3. q * h + x = p * h + y
  BY <1>0, <1>1, <1>2, Division
<1>4. ~(p + 1 <= q)
  <2>. SUFFICES ASSUME p + 1 <= q PROVE FALSE
    OBVIOUS
  <2>1. p * h + h <= q * h
    BY Ordered, Distributed
  <2>. QED
    BY <1>3, <2>1, Distributed
<1>5. ~(q + 1 <= p)
  <2>. SUFFICES ASSUME q + 1 <= p PROVE FALSE
    OBVIOUS
  <2>1. q * h + h <= p * h
    BY Ordered, Distributed
  <2>. QED
    BY <1>3, <2>1, Distributed
<1>6. p = q
  BY <1>4, <1>5
<1>. QED
  BY <1>1, <1>2, <1>3, <1>6, Distributed

(* Quotient and remainder of a multiple of the block and a part of one.    *)
LEMMA Beside ==
    ASSUME NEW q \in Nat, NEW x \in 0 .. Block - 1
    PROVE  (q * Block + x) \div Block = q /\ (q * Block + x) % Block = x
BY Sizes, Quotient

(* What is left of a number, counted modulo a word, is what is left of the *)
(* number: this is why SHA-2 can do without a fill level.                  *)
LEMMA Remainder ==
    ASSUME NEW h \in Nat, NEW l \in 0 .. Limb - 1, NEW n, n = h * Limb + l
    PROVE  n % Block = l % Block
<1>. USE Sizes
<1>1. PICK k \in Nat : Limb = k * Block
  BY LimbAssumption
<1>2. PICK p \in Nat : p = l \div Block
  BY Division
<1>3. PICK x \in 0 .. Block - 1 : x = l % Block
  BY Division
<1>4. l = p * Block + x
  BY <1>2, <1>3, Division
<1>5. h * k \in Nat /\ h * Limb = (h * k) * Block
  BY <1>1
<1>6. n = (h * k + p) * Block + x
  BY <1>4, <1>5, Distributed
<1>7. PICK j \in Nat : n = j * Block + x
  <2>. h * k + p \in Nat
    BY <1>5
  <2>. QED
    BY <1>6
<1>8. (j * Block + x) % Block = x
  BY Beside
<1>. QED
  BY <1>3, <1>7, <1>8

(* Quotient and remainder of a multiple of the limb and a part of one.     *)
LEMMA Wrapped ==
    ASSUME NEW h \in Nat, NEW l \in 0 .. Limb - 1
    PROVE  (h * Limb + l) \div Limb = h /\ (h * Limb + l) % Limb = l
BY Sizes, Quotient

(* A word is added to without a carry or with one, and the sum wrapped to  *)
(* less than what was added tells which (the test of SHA512_Update).       *)
LEMMA Carry ==
    ASSUME NEW l \in 0 .. Limb - 1, NEW m \in 0 .. Limb - 1
    PROVE  LET low == (l + m) % Limb IN
           /\ low \in 0 .. Limb - 1
           /\ low < m => low + Limb = l + m
           /\ ~(low < m) => low = l + m
<1>. USE Sizes
<1>1. CASE l + m < Limb
  <2>1. PICK x \in 0 .. Limb - 1 : l + m = 0 * Limb + x
    <3>. l + m \in 0 .. Limb - 1 /\ l + m = 0 * Limb + (l + m)
      BY <1>1
    <3>. QED
      OBVIOUS
  <2>2. (l + m) % Limb = x
    BY <2>1, Quotient
  <2>. QED
    BY <2>1, <2>2
<1>2. CASE l + m >= Limb
  <2>1. PICK x \in 0 .. Limb - 1 : l + m = 1 * Limb + x
    <3>. l + m - Limb \in 0 .. Limb - 1 /\ l + m = 1 * Limb + (l + m - Limb)
      BY <1>2
    <3>. QED
      OBVIOUS
  <2>2. (l + m) % Limb = x
    BY <2>1, Quotient
  <2>. QED
    BY <2>1, <2>2
<1>. QED
  BY <1>1, <1>2

(* The words count n bytes more: SHA-512's the whole length, and SHA-256's *)
(* what is left of it modulo a word.                                       *)
LEMMA CountedMore ==
    ASSUME count \in Nat \X (0 .. Limb - 1), NEW k \in Sha, NEW n \in Nat,
           NEW h \in Nat, k = "sha512" => h = count[1]
    PROVE  /\ Counted(k, n) \in Nat \X (0 .. Limb - 1)
           /\ k = "sha256" => Counted(k, n)[1] = 0
           /\ \E g \in Nat : /\ k = "sha512" => g = Counted(k, n)[1]
                            /\ g * Limb + Counted(k, n)[2] = h * Limb + count[2] + n
<1>. USE Sizes
<1>1. PICK a \in Nat, l \in 0 .. Limb - 1 : count = <<a, l>>
  OBVIOUS
<1>2. PICK q \in Nat : q = n \div Limb
  BY Division
<1>3. PICK m \in 0 .. Limb - 1 : m = n % Limb
  BY Division
<1>4. n = q * Limb + m
  BY <1>2, <1>3, Division
<1>5. PICK low : low = (l + m) % Limb
  OBVIOUS
<1>6. /\ low \in 0 .. Limb - 1
      /\ low < m => low + Limb = l + m
      /\ ~(low < m) => low = l + m
  BY <1>5, Carry
<1>7. PICK c \in {0, 1} : c = IF low < m THEN 1 ELSE 0
  OBVIOUS
<1>8. Counted(k, n) = IF k = "sha256" THEN <<0, low>> ELSE <<a + c + q, low>>
  BY <1>1, <1>2, <1>3, <1>5, <1>7 DEF Counted
<1>9. PICK g \in Nat : g = h + c + q
  OBVIOUS
<1>10. g * Limb = h * Limb + c * Limb + q * Limb
  BY <1>9, Distributed
<1>11. c * Limb + low = l + m
  BY <1>6, <1>7
<1>12. h * Limb \in Nat /\ c * Limb \in Nat /\ q * Limb \in Nat
  BY Distributed
<1>13. g * Limb + low = h * Limb + l + n
  BY <1>4, <1>6, <1>10, <1>11, <1>12
<1>14. a + c + q \in Nat /\ count[1] = a /\ count[2] = l
  BY <1>1
<1>15. CASE k = "sha256"
  BY <1>6, <1>8, <1>13, <1>14, <1>15
<1>16. CASE k = "sha512"
  BY <1>6, <1>8, <1>9, <1>13, <1>14, <1>16
<1>. QED
  BY <1>15, <1>16 DEF Sha
-----------------------------------------------------------------------------
(* Sequences of bytes                                                      *)

Octet == 0 .. 255

(* The first n bytes of a buffer.                                          *)
Taken(b, n) == [i \in 1 .. n |-> b[i]]

(* Applications' bytes are bytes, and a chunk is a sequence of them.       *)
LEMMA Bytes ==
    /\ Byte \subseteq Octet /\ Seq(Byte) \subseteq Seq(Octet) /\ Seq(Octet) \subseteq Seq(Nat)
    /\ Key \in Seq(Octet) /\ Len(Key) = Block
    /\ \A in \in Chunk : in \in Seq(Byte) /\ in \in Seq(Octet) /\ Len(in) \in Nat
<1>1. Byte \subseteq Octet /\ Octet \subseteq Nat
  BY ByteAssumption DEF Octet
<1>2. Seq(Byte) \subseteq Seq(Octet) /\ Seq(Octet) \subseteq Seq(Nat)
  BY <1>1, SeqMonotonic
<1>3. ASSUME NEW in \in Chunk PROVE in \in Seq(Byte)
  BY BoundAssumption DEF Chunk
<1>4. ASSUME NEW in \in Chunk PROVE in \in Seq(Octet) /\ Len(in) \in Nat
  BY <1>2, <1>3, LenProperties
<1>5. Key \in Seq(Octet) /\ Len(Key) = Block
  BY <1>2, ByteAssumption
<1>. QED
  BY <1>1, <1>2, <1>3, <1>4, <1>5

(* The first octets of the buffer, and how many.                           *)
LEMMA TakenType ==
    ASSUME NEW b \in [Space -> Octet], NEW n \in 0 .. 2 * Block
    PROVE  /\ Taken(b, n) \in Seq(Octet) /\ Len(Taken(b, n)) = n
           /\ \A i \in 1 .. n : Taken(b, n)[i] = b[i]
<1>. \A i \in 1 .. n : i \in Space
  BY Sizes DEF Space
<1>. QED
  BY DEF Taken

(* What is put behind the bytes that a buffer holds follows them.          *)
LEMMA PutTaken ==
    ASSUME NEW b \in [Space -> Octet], NEW at \in Nat, NEW s \in Seq(Octet),
           at + Len(s) <= 2 * Block
    PROVE  /\ Put(b, at, s) \in [Space -> Octet]
           /\ Taken(Put(b, at, s), at + Len(s)) = Taken(b, at) \o s
<1>. DEFINE p == Put(b, at, s)
<1>1. p \in [Space -> Octet]
  <2>. ASSUME NEW i \in Space, i \in (at + 1) .. (at + Len(s)) PROVE s[i - at] \in Octet
    OBVIOUS
  <2>. QED
    BY DEF Put
<1>2. /\ Taken(p, at + Len(s)) \in Seq(Octet) /\ Len(Taken(p, at + Len(s))) = at + Len(s)
      /\ \A i \in 1 .. at + Len(s) : Taken(p, at + Len(s))[i] = p[i]
  BY <1>1, TakenType
<1>3. /\ Taken(b, at) \in Seq(Octet) /\ Len(Taken(b, at)) = at
      /\ \A i \in 1 .. at : Taken(b, at)[i] = b[i]
  <2>. at \in 0 .. 2 * Block
    BY Sizes
  <2>. QED
    BY TakenType
<1>4. /\ Taken(b, at) \o s \in Seq(Octet) /\ Len(Taken(b, at) \o s) = at + Len(s)
      /\ \A i \in 1 .. at + Len(s) : (Taken(b, at) \o s)[i] =
             IF i <= at THEN b[i] ELSE s[i - at]
  <2>1. PICK u \in Seq(Octet) : u = Taken(b, at) /\ Len(u) = at /\ \A i \in 1 .. at : u[i] = b[i]
    BY <1>3
  <2>2. /\ u \o s \in Seq(Octet) /\ Len(u \o s) = Len(u) + Len(s)
        /\ \A i \in 1 .. Len(u) + Len(s) : (u \o s)[i] = IF i <= Len(u) THEN u[i] ELSE s[i - Len(u)]
    BY ConcatProperties
  <2>. QED
    BY <2>1, <2>2
<1>5. ASSUME NEW i \in 1 .. at + Len(s)
      PROVE  p[i] = IF i <= at THEN b[i] ELSE s[i - at]
  BY Sizes DEF Put, Space
<1>6. Taken(p, at + Len(s)) = Taken(b, at) \o s
  BY <1>2, <1>4, <1>5, SeqEqual
<1>. QED
  BY <1>1, <1>6

(* The two blocks of BLAKE2b's buffer.                                     *)
LEMMA Halves ==
    ASSUME NEW b \in [Space -> Octet]
    PROVE  LET s == [i \in 1 .. Block |-> b[Block + i]] IN
           s \in Seq(Octet) /\ Len(s) = Block /\ Taken(b, Block) \o s = Taken(b, 2 * Block)
<1>1. PICK s \in Seq(Octet) : /\ s = [i \in 1 .. Block |-> b[Block + i]] /\ Len(s) = Block
                             /\ \A i \in 1 .. Block : s[i] = b[Block + i]
  <2>. DEFINE s == [i \in 1 .. Block |-> b[Block + i]]
  <2>. s \in Seq(Octet) /\ Len(s) = Block
    BY Sizes DEF Space
  <2>. QED
    OBVIOUS
<1>2. /\ Taken(b, 2 * Block) \in Seq(Octet) /\ Len(Taken(b, 2 * Block)) = 2 * Block
      /\ \A i \in 1 .. 2 * Block : Taken(b, 2 * Block)[i] = b[i]
  BY Sizes, TakenType
<1>3. PICK u \in Seq(Octet) : u = Taken(b, Block) /\ Len(u) = Block
                             /\ \A i \in 1 .. Block : u[i] = b[i]
  BY Sizes, TakenType
<1>4. PICK v \in Seq(Octet) : v = Taken(b, 2 * Block) /\ Len(v) = 2 * Block
                             /\ \A i \in 1 .. 2 * Block : v[i] = b[i]
  BY <1>2
<1>. DEFINE w == u \o s
<1>5. /\ w \in Seq(Octet) /\ Len(w) = Len(u) + Len(s)
      /\ \A i \in 1 .. Len(u) + Len(s) : w[i] = IF i <= Len(u) THEN u[i] ELSE s[i - Len(u)]
  BY ConcatProperties
<1>. HIDE DEF w
<1>6. Len(w) = 2 * Block
  <2>1. Len(w) = Len(u) + Len(s) /\ Len(u) = Block /\ Len(s) = Block
    BY <1>1, <1>3, <1>5
  <2>. QED
    BY <2>1, Sizes
<1>7. ASSUME NEW i \in 1 .. 2 * Block PROVE w[i] = v[i]
  <2>1. i \in 1 .. Len(u) + Len(s) /\ i \in Int /\ Block \in Int
    BY <1>1, <1>3, Sizes
  <2>2. CASE i <= Block
    <3>1. w[i] = u[i]
      BY <1>3, <1>5, <2>1, <2>2
    <3>2. u[i] = b[i] /\ v[i] = b[i]
      BY <1>3, <1>4, <2>1, <2>2
    <3>. QED
      BY <3>1, <3>2
  <2>3. CASE ~(i <= Block)
    <3>1. i - Block \in 1 .. Block /\ Block + (i - Block) = i
      BY <2>1, <2>3, Sizes
    <3>2. s[i - Block] = b[i]
      BY <1>1, <3>1
    <3>. QED
      BY <1>3, <1>4, <1>5, <2>1, <2>3, <3>2
  <2>. QED
    BY <2>2, <2>3
<1>8. w = v
  <2>1. w \in Seq(Octet) /\ Len(w) = Len(v) /\ \A i \in 1 .. Len(w) : w[i] = v[i]
    BY <1>4, <1>5, <1>6, <1>7
  <2>. QED
    BY <2>1, SeqEqual
<1>. QED
  BY <1>1, <1>3, <1>4, <1>8 DEF w

(* What an update takes at once and what it takes later are its input.     *)
LEMMA Cut ==
    ASSUME NEW S, NEW in \in Seq(S), NEW w \in 0 .. Len(in)
    PROVE  /\ SubSeq(in, 1, w) \in Seq(S) /\ Len(SubSeq(in, 1, w)) = w
           /\ Drop(in, w) \in Seq(S) /\ Len(Drop(in, w)) = Len(in) - w
           /\ SubSeq(in, 1, w) \o Drop(in, w) = in
<1>1. Len(in) \in Nat /\ \A i \in 1 .. Len(in) : in[i] \in S
  BY LenProperties
<1>2. SubSeq(in, 1, w) \in Seq(S) /\ Len(SubSeq(in, 1, w)) = w
  BY <1>1, SubSeqProperties
<1>3. Drop(in, w) \in Seq(S) /\ Len(Drop(in, w)) = Len(in) - w
  BY <1>1, SubSeqProperties DEF Drop
<1>4. SubSeq(in, 1, w) \o Drop(in, w) = SubSeq(in, 1, Len(in))
  <2>1. 1 \in 1 .. Len(in) + 1 /\ w \in 1 - 1 .. Len(in) /\ Len(in) \in w .. Len(in)
    BY <1>1
  <2>. QED
    BY <2>1, ConcatAdjacentSubSeq DEF Drop
<1>. QED
  BY <1>2, <1>3, <1>4, SubSeqFull

(* Dropping twice drops the sum.                                           *)
LEMMA DropDrop ==
    ASSUME NEW S, NEW in \in Seq(S), NEW v \in 0 .. Len(in), NEW w \in 0 .. Len(in) - v
    PROVE  Drop(Drop(in, v), w) = Drop(in, v + w)
<1>1. Len(in) \in Nat /\ \A i \in 1 .. Len(in) : in[i] \in S
  BY LenProperties
<1>2. /\ Drop(in, v) \in Seq(S) /\ Len(Drop(in, v)) = Len(in) - v
      /\ \A i \in 1 .. Len(in) - v : Drop(in, v)[i] = in[v + i]
  BY <1>1, SubSeqProperties DEF Drop
<1>3. /\ Drop(in, v + w) \in Seq(S) /\ Len(Drop(in, v + w)) = Len(in) - v - w
      /\ \A i \in 1 .. Len(in) - v - w : Drop(in, v + w)[i] = in[v + w + i]
  BY <1>1, SubSeqProperties DEF Drop
<1>4. /\ Drop(Drop(in, v), w) \in Seq(S) /\ Len(Drop(Drop(in, v), w)) = Len(in) - v - w
      /\ \A i \in 1 .. Len(in) - v - w : Drop(Drop(in, v), w)[i] = Drop(in, v)[w + i]
  <2>1. \A i \in 1 .. Len(Drop(in, v)) : Drop(in, v)[i] \in S
    BY <1>2
  <2>. QED
    BY <1>1, <1>2, <2>1, SubSeqProperties DEF Drop
<1>5. ASSUME NEW i \in 1 .. Len(in) - v - w
      PROVE  Drop(Drop(in, v), w)[i] = Drop(in, v + w)[i]
  BY <1>1, <1>2, <1>3, <1>4
<1>. QED
  BY <1>3, <1>4, <1>5, SeqEqual

(* Runs of zeros, and of equal marks.                                      *)
LEMMA Runs ==
    ASSUME NEW S, NEW e \in S, NEW m \in Nat, NEW n \in Nat
    PROVE  /\ Repeat(m, e) \in Seq(S) /\ Len(Repeat(m, e)) = m
           /\ Repeat(m, e) \o Repeat(n, e) = Repeat(m + n, e)
<1>1. ASSUME NEW j \in Nat
      PROVE  /\ Repeat(j, e) \in Seq(S) /\ Len(Repeat(j, e)) = j
             /\ \A i \in 1 .. j : Repeat(j, e)[i] = e
  BY DEF Repeat
<1>2. /\ Repeat(m, e) \o Repeat(n, e) \in Seq(S) /\ Len(Repeat(m, e) \o Repeat(n, e)) = m + n
      /\ \A i \in 1 .. m + n : (Repeat(m, e) \o Repeat(n, e))[i] = e
  <2>1. \A i \in 1 .. m + n : (Repeat(m, e) \o Repeat(n, e))[i] =
            IF i <= m THEN Repeat(m, e)[i] ELSE Repeat(n, e)[i - m]
    BY <1>1, ConcatProperties
  <2>2. ASSUME NEW i \in 1 .. m + n PROVE (Repeat(m, e) \o Repeat(n, e))[i] = e
    BY <1>1, <2>1
  <2>3. Len(Repeat(m, e)) = m /\ Len(Repeat(n, e)) = n
        /\ Repeat(m, e) \in Seq(S) /\ Repeat(n, e) \in Seq(S)
    BY <1>1
  <2>. QED
    BY <2>2, <2>3, ConcatProperties
<1>3. Repeat(m, e) \o Repeat(n, e) = Repeat(m + n, e)
  <2>1. m + n \in Nat
    OBVIOUS
  <2>. QED
    BY <1>1, <1>2, <2>1, SeqEqual
<1>. QED
  BY <1>1, <1>3

(* Runs of zeros add up.                                                   *)
LEMMA ZeroRuns ==
    ASSUME NEW m \in Nat, NEW n \in Nat
    PROVE  /\ Zeros(m) \in Seq(Octet) /\ Len(Zeros(m)) = m
           /\ Zeros(m) \o Zeros(n) = Zeros(m + n)
<1>1. \A j \in Nat : Zeros(j) = Repeat(j, 0)
  BY DEF Zeros, Repeat
<1>2. 0 \in Octet /\ m + n \in Nat
  BY DEF Octet
<1>3. /\ Repeat(m, 0) \in Seq(Octet) /\ Len(Repeat(m, 0)) = m
      /\ Repeat(m, 0) \o Repeat(n, 0) = Repeat(m + n, 0)
  BY <1>2, Runs
<1>. QED
  BY <1>1, <1>2, <1>3
-----------------------------------------------------------------------------
(* What the buffers keep                                                   *)

(* The marks of the first q blocks.                                        *)
Marked(k, q) ==
    [i \in 1 .. q |-> [t |-> IF k = "blake2b" THEN i * Block ELSE 0, last |-> FALSE]]

(* Whole blocks are compressed, each with its mark.                        *)
BlocksInv == \E q \in Nat : Len(fed) = q * Block /\ marks = Marked(kind, q)

(* The words for the length say it, from SHA-256's with as many wraps as   *)
(* there were.                                                             *)
CountInv ==
    kind \in Sha =>
        /\ kind = "sha256" => count[1] = 0
        /\ \E h \in Nat : /\ kind = "sha512" => h = count[1]
                          /\ Length = h * Limb + count[2]

(* BLAKE2b's counter, and what it holds back.                              *)
BlakeInv ==
    kind = "blake2b" => t = Len(fed) /\ (fed # <<>> => fill + Len(input) > Block)

BufferInv == TypeOK /\ (phase = "open" => BlocksInv /\ CountInv /\ BlakeInv)

(* The blocks of a hash without counters carry no mark.                    *)
LEMMA MarkedPlain ==
    ASSUME NEW k, k # "blake2b", NEW q \in Nat
    PROVE  Marked(k, q) = Repeat(q, Plain)
BY DEF Marked, Repeat, Plain

(* Blocks without marks add up.                                            *)
LEMMA MarkedMore ==
    ASSUME NEW k, k # "blake2b", NEW q \in Nat, NEW j \in Nat
    PROVE  Marked(k, q) \o Repeat(j, Plain) = Marked(k, q + j)
<1>1. q + j \in Nat
  OBVIOUS
<1>2. Marked(k, q) = Repeat(q, Plain) /\ Marked(k, q + j) = Repeat(q + j, Plain)
  BY <1>1, MarkedPlain
<1>3. Repeat(q, Plain) \o Repeat(j, Plain) = Repeat(q + j, Plain)
  BY Runs
<1>. QED
  BY <1>2, <1>3

(* There are as many marks as blocks.                                      *)
LEMMA MarkedType ==
    ASSUME NEW k, NEW q \in Nat
    PROVE  Marked(k, q) \in Seq(Mark) /\ Len(Marked(k, q)) = q
<1>1. ASSUME NEW i \in 1 .. q PROVE i * Block \in Nat
  BY Sizes, Distributed
<1>. QED
  BY <1>1 DEF Marked, Mark

(* An input after its first w bytes: the number of whole blocks, the bytes *)
(* up to their end, and the bytes left.                                    *)
More(in, w)  == Len(Drop(in, w)) \div Block
UpTo(in, w)  == SubSeq(in, 1, w + Whole(Len(Drop(in, w))))
After(in, w) == Drop(Drop(in, w), Whole(Len(Drop(in, w))))

(* What an update leaves over once the buffer is filled: whole blocks, and *)
(* less than one.                                                          *)
LEMMA Divided ==
    ASSUME NEW in \in Seq(Octet), NEW w \in 0 .. Len(in)
    PROVE  /\ More(in, w) \in Nat
           /\ After(in, w) \in Seq(Octet) /\ Len(After(in, w)) \in 0 .. Block - 1
           /\ UpTo(in, w) \in Seq(Octet) /\ Len(UpTo(in, w)) = w + More(in, w) * Block
           /\ UpTo(in, w) \o After(in, w) = in
           /\ Len(in) = w + More(in, w) * Block + Len(After(in, w))
<1>1. Len(in) \in Nat
  BY LenProperties
<1>2. PICK n \in Nat : n = Len(Drop(in, w)) /\ n = Len(in) - w
  BY <1>1, Cut
<1>3. PICK j \in Nat : j = More(in, w) /\ j = n \div Block
  BY <1>2, Division, Sizes DEF More
<1>4. PICK x \in 0 .. Block - 1 : x = n % Block
  BY <1>2, Division, Sizes
<1>5. n = j * Block + x /\ j * Block \in Nat
  <2>1. Block \in Nat \ {0}
    BY Sizes
  <2>2. n = (n \div Block) * Block + (n % Block)
    BY <2>1, Division
  <2>. QED
    BY <1>3, <1>4, <2>1, <2>2, Distributed
<1>6. PICK m \in Nat : m = j * Block
  BY <1>5
<1>7. Whole(n) = m /\ m \in 0 .. Len(in) - w /\ w + m \in 0 .. Len(in)
  <2>1. n = m + x /\ m = n - x
    BY <1>4, <1>5, <1>6
  <2>2. Whole(n) = m
    BY <1>4, <2>1 DEF Whole
  <2>3. x >= 0 /\ x \in Int /\ w \in Nat /\ Len(in) = n + w
    BY <1>1, <1>2, <1>4, Sizes
  <2>. QED
    BY <2>1, <2>2, <2>3
<1>8. UpTo(in, w) = SubSeq(in, 1, w + m) /\ After(in, w) = Drop(in, w + m)
  BY <1>2, <1>7, DropDrop DEF UpTo, After
<1>9. /\ UpTo(in, w) \in Seq(Octet) /\ Len(UpTo(in, w)) = w + m
      /\ After(in, w) \in Seq(Octet) /\ Len(After(in, w)) = Len(in) - (w + m)
      /\ UpTo(in, w) \o After(in, w) = in
  BY <1>7, <1>8, Cut, ZenonT(30)
<1>10. Len(After(in, w)) = x /\ Len(in) = w + m + Len(After(in, w))
  <2>1. Len(in) = n + w /\ n = m + x /\ x \in Nat /\ w \in Nat
    BY <1>1, <1>2, <1>4, <1>5, <1>6
  <2>. QED
    BY <1>9, <2>1
<1>. QED
  BY <1>3, <1>4, <1>6, <1>9, <1>10
-----------------------------------------------------------------------------
(* Updates                                                                 *)

(* Bytes that move from the input to the compression function or to the    *)
(* buffer stay in their order.                                             *)
LEMMA Grows ==
    ASSUME NEW f \in Seq(Nat), NEW held \in Seq(Octet),
           NEW taken \in Seq(Octet), NEW tail \in Seq(Octet)
    PROVE  /\ f \o held \o taken \in Seq(Nat)
           /\ Len(f \o held \o taken) = Len(f) + Len(held) + Len(taken)
           /\ (f \o held \o taken) \o tail = (f \o held) \o (taken \o tail)
<1>1. held \in Seq(Nat) /\ taken \in Seq(Nat) /\ tail \in Seq(Nat)
  BY Bytes
<1>2. f \o held \in Seq(Nat) /\ Len(f \o held) = Len(f) + Len(held)
  BY <1>1, ConcatProperties
<1>3. /\ (f \o held) \o taken \in Seq(Nat)
      /\ Len((f \o held) \o taken) = Len(f) + Len(held) + Len(taken)
  BY <1>1, <1>2, ConcatProperties
<1>4. ASSUME NEW s \in Seq(Nat) PROVE (s \o taken) \o tail = s \o (taken \o tail)
  BY <1>1, ConcatAssociative, SMTT(30)
<1>. QED
  BY <1>2, <1>3, <1>4

(* Absorbed, held and new octets, in either order of joining.              *)
LEMMA Joined ==
    ASSUME NEW f \in Seq(Nat), NEW held \in Seq(Octet), NEW in \in Seq(Octet)
    PROVE  f \o (held \o in) = (f \o held) \o in /\ f \o held \in Seq(Nat)
<1>1. held \in Seq(Nat) /\ in \in Seq(Nat)
  BY Bytes
<1>2. (f \o held) \o in = f \o (held \o in)
  BY <1>1, ConcatAssociative, SMTT(30)
<1>. QED
  BY <1>1, <1>2, ConcatProperties

(* SHA-2's update and Poly1305's, when the r bytes in the buffer and w of  *)
(* the input are a block or nothing: they are compressed, with what follows*)
(* in whole blocks, and what is left is put at the beginning of the buffer.*)
Refilled(f, q, b, c, r, in, w) ==
    \E p \in Nat, x \in 0 .. Block - 1 :
        /\ p = q + ((r + w) \div Block + More(in, w)) /\ x = Len(After(in, w))
        /\ q * Block + r + Len(in) = p * Block + x
        /\ f \o Taken(b, r) \o UpTo(in, w) \in Seq(Nat)
        /\ Len(f \o Taken(b, r) \o UpTo(in, w)) = p * Block
        /\ Put(c, 0, After(in, w)) \in [Space -> Octet]
        /\ (f \o Taken(b, r) \o UpTo(in, w)) \o Taken(Put(c, 0, After(in, w)), x)
              = (f \o Taken(b, r)) \o in

(* Filling the buffer from the input and compressing it leaves the same    *)
(* octets in the same order.                                               *)
LEMMA Refill ==
    ASSUME NEW f \in Seq(Nat), NEW q \in Nat, Len(f) = q * Block,
           NEW b \in [Space -> Octet], NEW c \in [Space -> Octet],
           NEW r \in 0 .. 2 * Block, NEW in \in Seq(Octet), NEW w \in 0 .. Len(in),
           r + w \in {0, Block}
    PROVE  Refilled(f, q, b, c, r, in, w)
<1>0. PICK e \in Nat : e = (r + w) \div Block /\ r + w = e * Block
  <2>1. CASE r + w = 0
    <3>1. (0 * Block + 0) \div Block = 0 /\ 0 * Block = 0
      BY Beside, Sizes
    <3>. QED
      BY <2>1, <3>1
  <2>2. CASE r + w = Block
    <3>1. (1 * Block + 0) \div Block = 1
      BY Beside, Sizes
    <3>2. 1 * Block + 0 = Block /\ 1 * Block = Block
      BY Sizes
    <3>. QED
      BY <2>2, <3>1, <3>2
  <2>. QED
    BY <2>1, <2>2
<1>1. PICK j \in Nat : j = More(in, w)
  BY Divided
<1>2. PICK tail \in Seq(Octet) : tail = After(in, w)
  BY Divided
<1>3. PICK taken \in Seq(Octet) : taken = UpTo(in, w)
  BY Divided
<1>4. PICK x \in 0 .. Block - 1 : x = Len(tail)
  BY <1>2, Divided
<1>5. Len(taken) = w + j * Block /\ taken \o tail = in /\ Len(in) = w + j * Block + x
  BY <1>1, <1>2, <1>3, <1>4, Divided
<1>6. PICK held \in Seq(Octet) : held = Taken(b, r) /\ Len(held) = r
  BY TakenType
<1>7. PICK p \in Nat : p = q + (e + j)
  OBVIOUS
<1>8. p * Block = q * Block + e * Block + j * Block
  BY <1>7, Distributed, Sizes
<1>9. q * Block \in Nat /\ j * Block \in Nat /\ p * Block \in Nat
  BY Distributed, Sizes
<1>10. q * Block + r + Len(in) = p * Block + x
  <2>1. PICK y \in Nat : y = j * Block
    BY <1>9
  <2>2. PICK z \in Nat : z = q * Block
    BY <1>9
  <2>3. Len(in) = w + y + x /\ p * Block = z + (r + w) + y
    BY <1>0, <1>5, <1>8, <2>1, <2>2
  <2>. QED
    BY <2>2, <2>3
<1>11. /\ f \o held \o taken \in Seq(Nat) /\ Len(f \o held \o taken) = p * Block
       /\ (f \o held \o taken) \o tail = (f \o held) \o in
  <2>1. /\ f \o held \o taken \in Seq(Nat)
        /\ Len(f \o held \o taken) = Len(f) + Len(held) + Len(taken)
        /\ (f \o held \o taken) \o tail = (f \o held) \o (taken \o tail)
    BY Grows, ZenonT(30)
  <2>2. PICK y \in Nat : y = j * Block
    BY <1>9
  <2>3. PICK z \in Nat : z = q * Block
    BY <1>9
  <2>4. Len(f) = z /\ Len(held) = r /\ Len(taken) = w + y /\ p * Block = z + (r + w) + y
    BY <1>0, <1>5, <1>6, <1>8, <2>2, <2>3
  <2>5. z + r + (w + y) = z + (r + w) + y
    OBVIOUS
  <2>6. taken \o tail = in
    BY <1>5
  <2>. QED
    BY <2>1, <2>4, <2>5, <2>6
<1>12. Put(c, 0, tail) \in [Space -> Octet] /\ Taken(Put(c, 0, tail), x) = tail
  <2>1. 0 \in Nat /\ 0 + Len(tail) <= 2 * Block /\ 0 + Len(tail) = x
    BY <1>4, Sizes
  <2>2. /\ Put(c, 0, tail) \in [Space -> Octet]
        /\ Taken(Put(c, 0, tail), 0 + Len(tail)) = Taken(c, 0) \o tail
    BY <2>1, PutTaken
  <2>3. Taken(c, 0) = <<>>
    BY DEF Taken
  <2>. QED
    BY <2>1, <2>2, <2>3, ConcatEmptySeq
<1>. QED
  BY <1>0, <1>1, <1>2, <1>3, <1>4, <1>6, <1>7, <1>10, <1>11, <1>12 DEF Refilled

(* An update puts what it is given behind the message.                     *)
LEMMA ShaUpdateEffect ==
    ASSUME BufferInv, NEW in \in Chunk, ShaUpdate(in)
    PROVE  BufferInv' /\ Message' = Message \o in
<1>1. /\ phase = "open" /\ kind \in Sha /\ kind # "blake2b" /\ phase' = phase /\ kind' = kind
      /\ fed \in Seq(Nat) /\ count \in Nat \X (0 .. Limb - 1) /\ buf \in [Space -> Octet]
      /\ input = <<>> /\ input' = input /\ fill' = fill /\ t' = t
      /\ count' = Counted(kind, Len(in)) /\ result' = 0
  BY DEF BufferInv, TypeOK, ShaUpdate, Octet, Sha
<1>2. PICK q \in Nat : Len(fed) = q * Block /\ marks = Marked(kind, q)
  BY <1>1 DEF BufferInv, BlocksInv
<1>3. PICK r \in 0 .. Block - 1 : r = count[2] % Block
  BY <1>1, Division, Sizes
<1>4. Length = q * Block + r
  BY <1>1, <1>2, <1>3 DEF Length, Buffered
<1>5. PICK h \in Nat : (kind = "sha512" => h = count[1]) /\ Length = h * Limb + count[2]
  BY <1>1 DEF BufferInv, CountInv
<1>6. in \in Seq(Octet) /\ Len(in) \in Nat
  BY Bytes
<1>70. /\ Counted(kind, Len(in)) \in Nat \X (0 .. Limb - 1)
       /\ kind = "sha256" => Counted(kind, Len(in))[1] = 0
       /\ \E g \in Nat : /\ kind = "sha512" => g = Counted(kind, Len(in))[1]
                        /\ g * Limb + Counted(kind, Len(in))[2] = h * Limb + count[2] + Len(in)
  BY <1>1, <1>5, <1>6, CountedMore
<1>7. PICK g \in Nat : /\ kind = "sha512" => g = count'[1]
                       /\ g * Limb + count'[2] = h * Limb + count[2] + Len(in)
  BY <1>1, <1>70
<1>8. count' \in Nat \X (0 .. Limb - 1) /\ (kind = "sha256" => count'[1] = 0)
  BY <1>1, <1>70
<1>9. PICK held \in Seq(Octet) : held = Taken(buf, r) /\ held = First(r) /\ Len(held) = r
  <2>. r \in 0 .. 2 * Block /\ Taken(buf, r) = First(r)
    BY <1>3, Sizes DEF Taken, First
  <2>. QED
    BY <1>1, TakenType
<1>10. \E p \in Nat, x \in 0 .. Block - 1 :
           /\ q * Block + r + Len(in) = p * Block + x
           /\ fed' \in Seq(Nat) /\ Len(fed') = p * Block /\ marks' = Marked(kind, p)
           /\ buf' \in [Space -> Octet]
           /\ fed' \o Taken(buf', x) = (fed \o held) \o in
  <2>1. CASE Len(in) < Block - r
    <3>1. buf' = Put(buf, r, in) /\ fed' = fed /\ marks' = marks
      BY <1>3, <2>1 DEF ShaUpdate
    <3>2. r + Len(in) \in 0 .. Block - 1 /\ r + Len(in) <= 2 * Block /\ r \in Nat
      BY <1>3, <1>6, <2>1, Sizes
    <3>3. buf' \in [Space -> Octet] /\ Taken(buf', r + Len(in)) = held \o in
      <4>1. /\ Put(buf, r, in) \in [Space -> Octet]
            /\ Taken(Put(buf, r, in), r + Len(in)) = Taken(buf, r) \o in
        BY <1>1, <1>6, <3>2, PutTaken
      <4>. QED
        BY <1>9, <3>1, <4>1
    <3>4. fed \o (held \o in) = (fed \o held) \o in
      BY <1>1, <1>6, <1>9, Joined
    <3>5. q * Block + r + Len(in) = q * Block + (r + Len(in))
      BY <1>3, <1>6, Distributed, Sizes
    <3>. QED
      BY <1>1, <1>2, <3>1, <3>2, <3>3, <3>4, <3>5
  <2>2. CASE ~(Len(in) < Block - r)
    <3>1. PICK w \in 0 .. Len(in) : w = Block - r
      BY <1>3, <1>6, <2>2, Sizes
    <3>2. PICK full : full = Put(buf, r, SubSeq(in, 1, w))
      OBVIOUS
    <3>5. /\ buf' = Put(full, 0, After(in, w))
          /\ fed' = fed \o held \o UpTo(in, w)
          /\ marks' = marks \o Repeat(1 + More(in, w), Plain)
      BY <1>3, <1>9, <2>2, <3>1, <3>2 DEF ShaUpdate, UpTo, After, More
    <3>6. full \in [Space -> Octet]
      <4>1. SubSeq(in, 1, w) \in Seq(Octet) /\ Len(SubSeq(in, 1, w)) = w
        BY <1>6, Cut
      <4>2. r \in Nat /\ r + w <= 2 * Block
        BY <1>3, <3>1, Sizes
      <4>. QED
        BY <1>1, <3>2, <4>1, <4>2, PutTaken
    <3>7. r \in 0 .. 2 * Block /\ r + w \in {0, Block} /\ (r + w) \div Block = 1
      <4>1. (1 * Block + 0) \div Block = 1 /\ 1 * Block + 0 = r + w /\ r + w = Block
        BY <1>3, <3>1, Beside, Sizes
      <4>. QED
        BY <1>3, <4>1, Sizes
    <3>8. PICK p \in Nat, x \in 0 .. Block - 1 :
               /\ p = q + (1 + More(in, w))
               /\ q * Block + r + Len(in) = p * Block + x
               /\ fed' \in Seq(Nat) /\ Len(fed') = p * Block
               /\ buf' \in [Space -> Octet]
               /\ fed' \o Taken(buf', x) = (fed \o held) \o in
      <4>1. Refilled(fed, q, buf, full, r, in, w)
        BY <1>1, <1>2, <1>6, <3>6, <3>7, Refill
      <4>. QED
        BY <1>9, <3>5, <3>7, <4>1 DEF Refilled
    <3>9. marks' = Marked(kind, p)
      <4>1. marks' = Marked(kind, q) \o Repeat(1 + More(in, w), Plain)
            /\ 1 + More(in, w) \in Nat
        BY <1>2, <1>6, <3>5, Divided
      <4>. QED
        BY <1>1, <3>8, <4>1, MarkedMore, ZenonT(30)
    <3>. QED
      BY <3>8, <3>9
  <2>. QED
    BY <2>1, <2>2
<1>11. PICK p \in Nat, x \in 0 .. Block - 1 :
           /\ q * Block + r + Len(in) = p * Block + x
           /\ fed' \in Seq(Nat) /\ Len(fed') = p * Block /\ marks' = Marked(kind, p)
           /\ buf' \in [Space -> Octet]
           /\ fed' \o Taken(buf', x) = (fed \o held) \o in
  BY <1>10
<1>12. g * Limb + count'[2] = p * Block + x
  BY <1>4, <1>5, <1>7, <1>11
<1>13. count'[2] % Block = x
  <2>1. (p * Block + x) % Block = x
    BY Beside
  <2>2. count'[2] \in 0 .. Limb - 1
    BY <1>8
  <2>3. (g * Limb + count'[2]) % Block = count'[2] % Block
    BY <2>2, Remainder
  <2>. QED
    BY <1>12, <2>1, <2>3
<1>14. Buffered' = x /\ Length' = p * Block + x
  BY <1>1, <1>11, <1>13 DEF Buffered, Length
<1>15. TypeOK'
  <2>1. marks' \in Seq(Mark)
    BY <1>11, MarkedType
  <2>. QED
    BY <1>1, <1>8, <1>11, <2>1 DEF BufferInv, TypeOK, Octet
<1>16. BufferInv'
  BY <1>1, <1>7, <1>8, <1>11, <1>12, <1>14, <1>15 DEF BufferInv, BlocksInv, CountInv,
      BlakeInv
<1>17. Message' = Message \o in
  <2>1. Message = fed \o held
    <3>1. Message = fed \o held \o <<>>
      BY <1>1, <1>3, <1>9 DEF Message, Buffered
    <3>. QED
      BY <1>1, <1>9, <3>1, Joined, ConcatEmptySeq
  <2>2. Message' = fed' \o Taken(buf', x)
    <3>1. Message' = fed' \o Taken(buf', x) \o <<>>
      BY <1>1, <1>14 DEF Message, First, Taken
    <3>2. x \in 0 .. 2 * Block
      BY Sizes
    <3>3. Taken(buf', x) \in Seq(Octet)
      BY <1>11, <3>2, TakenType
    <3>. QED
      BY <1>11, <3>1, <3>3, Joined, ConcatEmptySeq
  <2>. QED
    BY <1>11, <2>1, <2>2
<1>. QED
  BY <1>16, <1>17

(* poly1305_update appends its input to the message.                       *)
LEMMA PolyUpdateEffect ==
    ASSUME BufferInv, NEW in \in Chunk, PolyUpdate(in)
    PROVE  BufferInv' /\ Message' = Message \o in
<1>1. /\ phase = "open" /\ kind = "poly1305" /\ kind \notin Sha /\ kind # "blake2b"
      /\ phase' = phase /\ kind' = kind /\ fed \in Seq(Nat) /\ buf \in [Space -> Octet]
      /\ count' = count /\ t' = t /\ input = <<>> /\ input' = input /\ result' = 0
  BY DEF BufferInv, TypeOK, PolyUpdate, Octet, Sha
<1>2. PICK q \in Nat : Len(fed) = q * Block /\ marks = Marked(kind, q)
  BY <1>1 DEF BufferInv, BlocksInv
<1>3. PICK r \in 0 .. Block - 1 : r = fill
  BY <1>1 DEF BufferInv, TypeOK
<1>4. PICK n \in Nat : in \in Seq(Octet) /\ n = Len(in)
  BY Bytes
<1>5. PICK w \in 0 .. n : w = IF r = 0 THEN 0 ELSE Smaller(Block - r, n)
  BY <1>3, <1>4, Sizes DEF Smaller
<1>6. PICK held \in Seq(Octet) : held = Taken(buf, r) /\ held = First(r) /\ Len(held) = r
  <2>. r \in 0 .. 2 * Block /\ Taken(buf, r) = First(r)
    BY <1>3, Sizes DEF Taken, First
  <2>. QED
    BY <1>1, TakenType
<1>7. PICK full : full = Put(buf, r, SubSeq(in, 1, w))
  OBVIOUS
<1>8. full \in [Space -> Octet] /\ Taken(full, r + w) = held \o SubSeq(in, 1, w)
  <2>1. SubSeq(in, 1, w) \in Seq(Octet) /\ Len(SubSeq(in, 1, w)) = w
    BY <1>4, <1>5, Cut
  <2>2. r \in Nat /\ r + w <= 2 * Block
    BY <1>3, <1>5, Sizes DEF Smaller
  <2>3. /\ Put(buf, r, SubSeq(in, 1, w)) \in [Space -> Octet]
        /\ Taken(Put(buf, r, SubSeq(in, 1, w)), r + Len(SubSeq(in, 1, w)))
              = Taken(buf, r) \o SubSeq(in, 1, w)
    BY <1>1, <2>1, <2>2, PutTaken
  <2>. QED
    BY <1>6, <1>7, <2>1, <2>3
<1>9. \E p \in Nat, x \in 0 .. Block - 1 :
          /\ fed' \in Seq(Nat) /\ Len(fed') = p * Block /\ marks' = Marked(kind, p)
          /\ buf' \in [Space -> Octet] /\ fill' = x
          /\ fed' \o Taken(buf', x) = (fed \o held) \o in
  <2>1. CASE r # 0 /\ r + w < Block
    <3>1. buf' = full /\ fill' = r + w /\ fed' = fed /\ marks' = marks
      BY <1>3, <1>4, <1>5, <1>7, <2>1 DEF PolyUpdate, Keeps
    <3>2. w = n
      BY <1>3, <1>5, <2>1, Sizes DEF Smaller
    <3>3. SubSeq(in, 1, w) = in
      BY <1>4, <3>2, SubSeqFull
    <3>4. fed \o (held \o in) = (fed \o held) \o in
      BY <1>1, <1>4, <1>6, Joined
    <3>5. r + w \in 0 .. Block - 1
      <4>1. r \in Nat /\ w \in Nat /\ Block \in Nat
        BY <1>5, Sizes
      <4>. QED
        BY <2>1, <4>1
    <3>. QED
      BY <1>1, <1>2, <1>8, <3>1, <3>3, <3>4, <3>5
  <2>2. CASE ~(r # 0 /\ r + w < Block)
    <3>1. /\ buf' = Put(full, 0, After(in, w))
          /\ fill' = Len(After(in, w))
          /\ fed' = fed \o held \o UpTo(in, w)
          /\ marks' = marks \o Repeat((r + w) \div Block + More(in, w), Plain)
      BY <1>3, <1>4, <1>5, <1>6, <1>7, <2>2 DEF PolyUpdate, Keeps, UpTo, After, More
    <3>2. r + w \in {0, Block} /\ r \in 0 .. 2 * Block
      BY <1>3, <1>5, <2>2, Sizes DEF Smaller
    <3>3. Refilled(fed, q, buf, full, r, in, w)
      BY <1>1, <1>2, <1>4, <1>8, <3>2, Refill
    <3>4. PICK p \in Nat, x \in 0 .. Block - 1 :
               /\ p = q + ((r + w) \div Block + More(in, w))
               /\ fed' \in Seq(Nat) /\ Len(fed') = p * Block
               /\ buf' \in [Space -> Octet] /\ fill' = x
               /\ fed' \o Taken(buf', x) = (fed \o held) \o in
      BY <1>6, <3>1, <3>3 DEF Refilled
    <3>5. marks' = Marked(kind, p)
      <4>1. More(in, w) \in Nat
        BY <1>4, <1>5, Divided
      <4>2. (r + w) \div Block \in Nat
        <5>1. PICK y \in Nat : y = r + w
          BY <1>3, <1>5
        <5>. QED
          BY <5>1, Division, Sizes
      <4>3. PICK j \in Nat : j = (r + w) \div Block + More(in, w)
        BY <4>1, <4>2
      <4>. QED
        BY <1>1, <1>2, <3>1, <3>4, <4>3, MarkedMore, ZenonT(30)
    <3>. QED
      BY <3>4, <3>5
  <2>. QED
    BY <2>1, <2>2
<1>10. PICK p \in Nat, x \in 0 .. Block - 1 :
          /\ fed' \in Seq(Nat) /\ Len(fed') = p * Block /\ marks' = Marked(kind, p)
          /\ buf' \in [Space -> Octet] /\ fill' = x
          /\ fed' \o Taken(buf', x) = (fed \o held) \o in
  BY <1>9
<1>11. TypeOK'
  <2>1. marks' \in Seq(Mark)
    BY <1>10, MarkedType
  <2>. QED
    BY <1>1, <1>10, <2>1 DEF BufferInv, TypeOK, Octet
<1>12. BufferInv'
  BY <1>1, <1>10, <1>11 DEF BufferInv, BlocksInv, CountInv, BlakeInv
<1>13. Message' = Message \o in
  <2>1. Message = fed \o held
    <3>1. Message = fed \o held \o <<>>
      BY <1>1, <1>3, <1>6 DEF Message, Buffered
    <3>. QED
      BY <1>1, <1>6, <3>1, Joined, ConcatEmptySeq
  <2>2. Message' = fed' \o Taken(buf', x)
    <3>1. Message' = fed' \o Taken(buf', x) \o <<>>
      BY <1>1, <1>10 DEF Message, First, Taken, Buffered
    <3>2. x \in 0 .. 2 * Block
      BY Sizes
    <3>3. Taken(buf', x) \in Seq(Octet)
      BY <1>10, <3>2, TakenType
    <3>. QED
      BY <1>10, <3>1, <3>3, Joined, ConcatEmptySeq
  <2>. QED
    BY <1>10, <2>1, <2>2
<1>. QED
  BY <1>12, <1>13

(* blake2b_update appends its input to the message.                        *)
LEMMA BlakeUpdateEffect ==
    ASSUME BufferInv, NEW in \in Chunk, BlakeUpdate(in)
    PROVE  BufferInv' /\ Message' = Message \o in
<1>1. /\ phase = "open" /\ kind = "blake2b" /\ kind \notin Sha
      /\ phase' = phase /\ kind' = kind /\ fed \in Seq(Nat) /\ fed' = fed /\ buf' = buf
      /\ fill' = fill /\ count' = count /\ t' = t /\ marks' = marks /\ result' = result
      /\ input = <<>> /\ input' = in /\ fill \in 0 .. 2 * Block /\ buf \in [Space -> Octet]
  BY DEF BufferInv, TypeOK, BlakeUpdate, Octet, Sha
<1>2. in \in Seq(Byte) /\ in \in Seq(Octet) /\ Len(in) \in Nat
  BY Bytes
<1>3. TypeOK'
  BY <1>1, <1>2 DEF BufferInv, TypeOK
<1>4. BlocksInv' /\ CountInv'
  BY <1>1 DEF BufferInv, BlocksInv, CountInv
<1>5. BlakeInv'
  <2>1. t = Len(fed) /\ (fed # <<>> => fill + Len(input) > Block)
    BY <1>1 DEF BufferInv, BlakeInv
  <2>2. fill + Len(input) > Block => fill + Len(in) > Block
    <3>. Len(input) = 0 /\ fill \in Int /\ Block \in Int
      BY <1>1, Sizes
    <3>. QED
      BY <1>2
  <2>. QED
    BY <1>1, <2>1, <2>2 DEF BlakeInv
<1>6. PICK held \in Seq(Octet) : held = First(fill)
  <2>. Taken(buf, fill) = First(fill)
    BY DEF Taken, First
  <2>. QED
    BY <1>1, TakenType
<1>7. Message = fed \o held \o <<>> /\ Message' = fed \o held \o in
  BY <1>1, <1>6 DEF Message, Buffered, First
<1>8. Message = fed \o held
  BY <1>1, <1>6, <1>7, Joined, ConcatEmptySeq
<1>. QED
  BY <1>1, <1>3, <1>4, <1>5, <1>7, <1>8 DEF BufferInv

(* A block compressed with its counter is the next block of the run.       *)
LEMMA MarkedNext ==
    ASSUME NEW q \in Nat, NEW u, u = (q + 1) * Block
    PROVE  Append(Marked("blake2b", q), [t |-> u, last |-> FALSE]) = Marked("blake2b", q + 1)
<1>1. u \in Nat
  BY Sizes, Distributed
<1>2. [t |-> u, last |-> FALSE] \in Mark
  BY <1>1 DEF Mark
<1>. DEFINE a == Append(Marked("blake2b", q), [t |-> u, last |-> FALSE])
            b == Marked("blake2b", q + 1)
<1>3. /\ Marked("blake2b", q) \in Seq(Mark) /\ Len(Marked("blake2b", q)) = q
      /\ b \in Seq(Mark) /\ Len(b) = q + 1
  BY MarkedType
<1>4. /\ a \in Seq(Mark) /\ Len(a) = q + 1
      /\ \A i \in 1 .. q : a[i] = Marked("blake2b", q)[i]
      /\ a[q + 1] = [t |-> u, last |-> FALSE]
  BY <1>2, <1>3, AppendProperties
<1>5. ASSUME NEW i \in 1 .. q + 1 PROVE a[i] = b[i]
  <2>1. b[i] = [t |-> i * Block, last |-> FALSE]
    BY DEF Marked
  <2>2. CASE i \in 1 .. q
    <3>1. Marked("blake2b", q)[i] = [t |-> i * Block, last |-> FALSE]
      BY <2>2 DEF Marked
    <3>. QED
      BY <1>4, <2>1, <2>2, <3>1
  <2>3. CASE i = q + 1
    BY <1>4, <2>1, <2>3
  <2>4. i \in 1 .. q \/ i = q + 1
    OBVIOUS
  <2>. QED
    BY <2>2, <2>3, <2>4
<1>. HIDE DEF a, b
<1>6. a = b
  BY <1>3, <1>4, <1>5, SeqEqual
<1>. QED
  BY <1>6 DEF a, b

(* An iteration of the loop leaves the message as it is.                   *)
LEMMA BlakeLoopEffect ==
    ASSUME BufferInv, BlakeLoop
    PROVE  BufferInv' /\ Message' = Message
<1>1. /\ phase = "open" /\ kind = "blake2b" /\ kind \notin Sha
      /\ phase' = phase /\ kind' = kind /\ fed \in Seq(Nat)
      /\ count' = count /\ result' = result /\ buf \in [Space -> Octet]
      /\ input \in Seq(Byte) /\ input # <<>> /\ fill \in 0 .. 2 * Block
  BY DEF BufferInv, TypeOK, BlakeLoop, Octet, Sha
<1>2. PICK q \in Nat : Len(fed) = q * Block /\ marks = Marked("blake2b", q)
  BY <1>1 DEF BufferInv, BlocksInv
<1>3. t = q * Block /\ (fed # <<>> => fill + Len(input) > Block)
  BY <1>1, <1>2 DEF BufferInv, BlakeInv
<1>4. input \in Seq(Octet) /\ Len(input) \in Nat
  BY <1>1, Bytes, LenProperties
<1>5. PICK held \in Seq(Octet) : held = Taken(buf, fill) /\ held = First(fill) /\ Len(held) = fill
  <2>. Taken(buf, fill) = First(fill)
    BY DEF Taken, First
  <2>. QED
    BY <1>1, TakenType
<1>6. Message = (fed \o held) \o input
  BY <1>1, <1>5 DEF Message, Buffered
<1>70. PICK two \in Nat : two = 2 * Block
  BY Sizes
<1>7. PICK room \in 0 .. 2 * Block : room = 2 * Block - fill
  <2>. two - fill \in 0 .. two
    BY <1>1, <1>70
  <2>. QED
    BY <1>70
<1>8. CASE Len(input) > room
  <2>0. room \in 0 .. Len(input)
    BY <1>4, <1>8
  <2>1. PICK cut \in Seq(Octet) : cut = SubSeq(input, 1, room) /\ Len(cut) = room
    BY <1>4, <2>0, Cut, ZenonT(30)
  <2>2. /\ Drop(input, room) \in Seq(Byte) /\ Len(Drop(input, room)) = Len(input) - room
        /\ cut \o Drop(input, room) = input
    BY <1>1, <2>0, <2>1, Cut
  <2>3. PICK full : full = Put(buf, fill, cut)
    OBVIOUS
  <2>4. full \in [Space -> Octet] /\ Taken(full, 2 * Block) = held \o cut
    <3>1. fill \in Nat /\ fill + Len(cut) <= 2 * Block /\ fill + Len(cut) = 2 * Block
      BY <1>1, <1>7, <2>1, Sizes
    <3>2. full \in [Space -> Octet] /\ Taken(full, fill + Len(cut)) = held \o cut
      BY <1>1, <1>5, <2>3, <3>1, PutTaken, ZenonT(30)
    <3>. QED
      BY <3>1, <3>2
  <2>5. PICK upper \in Seq(Octet) :
            /\ upper = [i \in 1 .. Block |-> full[Block + i]] /\ Len(upper) = Block
            /\ Taken(full, Block) \o upper = Taken(full, 2 * Block)
    BY <2>4, Halves
  <2>6. PICK lower \in Seq(Octet) : lower = Taken(full, Block) /\ Len(lower) = Block
    <3>. Block \in 0 .. 2 * Block
      BY Sizes
    <3>. QED
      BY <2>4, TakenType
  <2>7. /\ fed' = fed \o lower /\ t' = t + Block /\ fill' = Block
        /\ marks' = Append(marks, [t |-> t', last |-> FALSE])
        /\ buf' = Put(full, 0, upper)
        /\ input' = Drop(input, room)
    <3>1. /\ fed' = fed \o lower /\ t' = t + Block /\ fill' = fill + room - Block
          /\ marks' = Append(marks, [t |-> t', last |-> FALSE])
          /\ buf' = Put(full, 0, upper)
          /\ input' = Drop(input, room)
      BY <1>7, <1>8, <2>1, <2>3, <2>5, <2>6 DEF BlakeLoop, Overflows, Taken
    <3>. QED
      BY <1>1, <1>7, <3>1, Sizes
  <2>8. fed' \in Seq(Nat) /\ Len(fed') = (q + 1) * Block
    <3>1. lower \in Seq(Nat)
      BY Bytes
    <3>2. fed' \in Seq(Nat) /\ Len(fed') = q * Block + Block
      BY <1>1, <1>2, <2>6, <2>7, <3>1, ConcatProperties
    <3>. QED
      BY <3>2, Distributed, Sizes
  <2>9. t' = (q + 1) * Block /\ t' = Len(fed')
    BY <1>3, <2>7, <2>8, Distributed, Sizes
  <2>10. marks' = Marked("blake2b", q + 1)
    BY <1>2, <2>7, <2>9, MarkedNext
  <2>11. buf' \in [Space -> Octet] /\ Taken(buf', Block) = upper
    <3>1. 0 \in Nat /\ 0 + Len(upper) <= 2 * Block /\ 0 + Len(upper) = Block
      <4>. Len(upper) = Block
        BY <2>5
      <4>. QED
        BY Sizes
    <3>2. buf' \in [Space -> Octet] /\ Taken(buf', 0 + Len(upper)) = Taken(full, 0) \o upper
      BY <2>4, <2>7, <3>1, PutTaken
    <3>3. Taken(full, 0) = <<>>
      BY DEF Taken
    <3>. QED
      BY <3>1, <3>2, <3>3, ConcatEmptySeq
  <2>12. TypeOK'
    <3>1. marks' \in Seq(Mark)
      BY <2>10, MarkedType
    <3>2. t' \in Nat /\ fill' \in 0 .. 2 * Block
      BY <2>7, <2>9, Distributed, Sizes
    <3>. QED
      BY <1>1, <2>2, <2>7, <2>8, <2>11, <3>1, <3>2 DEF BufferInv, TypeOK, Octet
  <2>13. fill' + Len(input') > Block
    BY <1>4, <1>7, <1>8, <2>2, <2>7, Sizes
  <2>14. BufferInv'
    BY <1>1, <2>8, <2>9, <2>10, <2>12, <2>13
       DEF BufferInv, BlocksInv, CountInv, BlakeInv
  <2>15. Message' = (fed' \o upper) \o Drop(input, room)
    BY <1>1, <2>7, <2>11 DEF Message, Buffered, First, Taken
  <2>16. fed' \o upper = (fed \o held) \o cut
    <3>1. (fed \o lower) \o upper = fed \o (lower \o upper)
      BY <1>1, Joined
    <3>2. (fed \o held) \o cut = fed \o (held \o cut)
      BY <1>1, Joined
    <3>. QED
      BY <2>4, <2>5, <2>6, <2>7, <3>1, <3>2
  <2>17. ((fed \o held) \o cut) \o Drop(input, room) = (fed \o held) \o (cut \o Drop(input, room))
    <3>1. fed \o held \in Seq(Nat)
      BY <1>1, Joined
    <3>2. Drop(input, room) \in Seq(Octet)
      BY <2>2, Bytes
    <3>. QED
      BY <3>1, <3>2, Joined
  <2>. QED
    BY <1>6, <2>2, <2>14, <2>15, <2>16, <2>17
<1>9. CASE ~(Len(input) > room)
  <2>1. /\ buf' = Put(buf, fill, input) /\ fill' = fill + Len(input) /\ input' = <<>>
        /\ t' = t /\ fed' = fed /\ marks' = marks
    BY <1>7, <1>9 DEF BlakeLoop, Overflows
  <2>2. fill \in Nat /\ fill + Len(input) \in 0 .. 2 * Block
    BY <1>1, <1>4, <1>7, <1>9, Sizes
  <2>3. buf' \in [Space -> Octet] /\ Taken(buf', fill') = held \o input
    <3>1. fill \in Nat /\ fill + Len(input) <= 2 * Block
      BY <2>2
    <3>2. /\ Put(buf, fill, input) \in [Space -> Octet]
          /\ Taken(Put(buf, fill, input), fill + Len(input)) = Taken(buf, fill) \o input
      BY <1>1, <1>4, <3>1, PutTaken
    <3>. QED
      BY <1>5, <2>1, <3>2
  <2>4. TypeOK'
    BY <1>1, <2>1, <2>2, <2>3 DEF BufferInv, TypeOK, Octet
  <2>5. BufferInv'
    <3>. Len(input') = 0
      BY <2>1
    <3>. QED
      BY <1>1, <1>2, <1>3, <1>4, <2>1, <2>2, <2>4 DEF BufferInv, BlocksInv, CountInv,
          BlakeInv
  <2>6. Message' = (fed \o (held \o input)) \o <<>>
    BY <1>1, <2>1, <2>3 DEF Message, Buffered, First, Taken
  <2>7. fed \o (held \o input) = (fed \o held) \o input /\ (fed \o held) \o input \in Seq(Nat)
    <3>1. fed \o held \in Seq(Nat)
      BY <1>1, Joined
    <3>. QED
      BY <1>1, <1>4, <3>1, Joined
  <2>. QED
    BY <1>6, <2>5, <2>6, <2>7, ConcatEmptySeq
<1>. QED
  BY <1>8, <1>9, <1>4
-----------------------------------------------------------------------------
(* Finals                                                                  *)

(* The blocks of a message whose last bytes are the x in a buffer.         *)
LEMMA BlocksOf ==
    ASSUME NEW q \in Nat, NEW x \in 0 .. 2 * Block, NEW n, n = q * Block + x
    PROVE  /\ x = 0 => Of!Blocks(n) = q
           /\ x \in 1 .. Block => Of!Blocks(n) = q + 1
           /\ x \in Block + 1 .. 2 * Block => Of!Blocks(n) = q + 2
<1>1. q * Block \in Nat /\ (q + 1) * Block = q * Block + Block
      /\ (q + 2) * Block = q * Block + Block + Block
  <2>1. q * Block \in Nat /\ (q + 1) * Block = q * Block + Block
    BY Distributed, Sizes
  <2>2. (q + 1 + 1) * Block = (q + 1) * Block + Block
    BY Distributed, Sizes
  <2>. QED
    BY <2>1, <2>2
<1>2. ASSUME NEW p \in Nat, NEW y \in 0 .. Block - 1, n + Block - 1 = p * Block + y
      PROVE  Of!Blocks(n) = p
  BY <1>2, Beside DEF Of!Blocks
<1>3. ASSUME x = 0 PROVE Of!Blocks(n) = q
  <2>1. PICK y \in 0 .. Block - 1 : y = Block - 1
    BY Sizes
  <2>2. n + Block - 1 = q * Block + y
    BY <1>1, <1>3, <2>1, Sizes
  <2>. QED
    BY <1>2, <2>2
<1>4. ASSUME x \in 1 .. Block PROVE Of!Blocks(n) = q + 1
  <2>1. PICK y \in 0 .. Block - 1 : y = x - 1
    BY <1>4, Sizes
  <2>2. n + Block - 1 = (q + 1) * Block + y
    BY <1>1, <1>4, <2>1, Sizes
  <2>. QED
    BY <1>2, <2>2
<1>5. ASSUME x \in Block + 1 .. 2 * Block PROVE Of!Blocks(n) = q + 2
  <2>1. PICK y \in 0 .. Block - 1 : y = x - Block - 1
    BY <1>5, Sizes
  <2>2. n + Block - 1 = (q + 2) * Block + y
    BY <1>1, <1>5, <2>1, Sizes
  <2>3. q + 2 \in Nat
    OBVIOUS
  <2>. QED
    BY <1>2, <2>2, <2>3
<1>. QED
  BY <1>3, <1>4, <1>5

Associative(a, b, c) == (a \o b) \o c = a \o (b \o c)

(* The concatenation of three messages, named so that a step can cite it   *)
(* once.                                                                   *)
LEMMA Associates ==
    ASSUME NEW a \in Seq(Nat), NEW b \in Seq(Nat), NEW c \in Seq(Nat)
    PROVE  Associative(a, b, c)
BY ConcatAssociative DEF Associative

(* The padding is part of what is compressed last, or of the message.      *)
LEMMA Spread ==
    ASSUME NEW f \in Seq(Nat), NEW a \in Seq(Nat), NEW b \in Seq(Nat),
           NEW c \in Seq(Nat), NEW d \in Seq(Nat)
    PROVE  /\ a \o b \o c \o d \in Seq(Nat)
           /\ Len(a \o b \o c \o d) = Len(a) + Len(b) + Len(c) + Len(d)
           /\ f \o (a \o b \o c \o d) = f \o a \o b \o c \o d
           /\ f \o (a \o b \o c \o d) \in Seq(Nat)
<1>1. PICK ab \in Seq(Nat) : ab = a \o b /\ Len(ab) = Len(a) + Len(b)
  BY ConcatProperties
<1>2. PICK abc \in Seq(Nat) : abc = ab \o c /\ Len(abc) = Len(ab) + Len(c)
  BY ConcatProperties
<1>3. PICK abcd \in Seq(Nat) : abcd = abc \o d /\ Len(abcd) = Len(abc) + Len(d)
  BY ConcatProperties
<1>4. f \o ab = (f \o a) \o b
  <2>1. Associative(f, a, b)
    BY Associates
  <2>. QED
    BY <1>1, <2>1 DEF Associative
<1>5. f \o abc = (f \o ab) \o c
  <2>1. Associative(f, ab, c)
    BY Associates
  <2>. QED
    BY <1>2, <2>1 DEF Associative
<1>6. f \o abcd = (f \o abc) \o d
  <2>1. Associative(f, abc, d)
    BY Associates
  <2>. QED
    BY <1>3, <2>1 DEF Associative
<1>7. f \o abcd \in Seq(Nat)
  BY ConcatProperties
<1>8. abcd = a \o b \o c \o d
  BY <1>1, <1>2, <1>3
<1>9. f \o abcd = f \o a \o b \o c \o d
  BY <1>4, <1>5, <1>6
<1>10. Len(abcd) = Len(a) + Len(b) + Len(c) + Len(d)
  BY <1>1, <1>2, <1>3
<1>. QED
  BY <1>7, <1>8, <1>9, <1>10

(* What a final has compressed is the digest of the message.               *)
Digested == [fed |-> fed', marks |-> marks', given |-> TRUE] = Of!DigestOf(kind, Message)

(* sha2 final hands on the message with its padding and its length.        *)
LEMMA ShaFinalEffect ==
    ASSUME BufferInv, ShaFinal
    PROVE  BufferInv' /\ phase' = "final" /\ kind' = kind /\ Digested
<1>1. /\ phase = "open" /\ kind \in Sha /\ kind # "blake2b" /\ phase' = "final" /\ kind' = kind
      /\ fed \in Seq(Nat) /\ count \in Nat \X (0 .. Limb - 1) /\ buf \in [Space -> Octet]
      /\ input = <<>> /\ input' = input /\ fill' = fill /\ t' = t
      /\ count' = <<0, 0>> /\ result' = 0 /\ buf' = Empty
  BY DEF BufferInv, TypeOK, ShaFinal, Octet, Sha
<1>2. PICK q \in Nat : Len(fed) = q * Block /\ marks = Marked(kind, q)
  BY <1>1 DEF BufferInv, BlocksInv
<1>3. PICK r \in 0 .. Block - 1 : r = count[2] % Block
  BY <1>1, Division, Sizes
<1>4. Length = q * Block + r
  BY <1>1, <1>2, <1>3 DEF Length, Buffered
<1>5. PICK h \in Nat : /\ kind = "sha512" => h = count[1]
                       /\ Length = h * Limb + count[2]
  BY <1>1 DEF BufferInv, CountInv
<1>6. PICK held \in Seq(Octet) : held = First(r) /\ Len(held) = r
  <2>. r \in 0 .. 2 * Block /\ Taken(buf, r) = First(r)
    BY <1>3, Sizes DEF Taken, First
  <2>. QED
    BY <1>1, TakenType
<1>7. Message = fed \o held
  <2>1. Message = fed \o held \o <<>>
    BY <1>1, <1>3, <1>6 DEF Message, Buffered
  <2>. QED
    BY <1>1, <1>6, <2>1, Joined, ConcatEmptySeq
<1>8. Len(Message) = Length /\ Message \in Seq(Nat)
  <2>. held \in Seq(Nat)
    BY Bytes
  <2>. QED
    BY <1>1, <1>2, <1>4, <1>6, <1>7, ConcatProperties
<1>9. Of!LengthField(kind, Len(Message)) = Counter
  <2>1. count[2] \in 0 .. Limb - 1 /\ Length \div Limb = h /\ Length % Limb = count[2]
    <3>. count[2] \in 0 .. Limb - 1
      BY <1>1
    <3>1. PICK l \in 0 .. Limb - 1 : l = count[2]
      OBVIOUS
    <3>2. (h * Limb + l) \div Limb = h /\ (h * Limb + l) % Limb = l
      BY Wrapped
    <3>. QED
      BY <1>5, <3>1, <3>2
  <2>2. CASE kind = "sha256"
    BY <1>8, <2>1, <2>2 DEF Of!LengthField, Counter
  <2>3. CASE kind = "sha512"
    <3>1. count = <<h, count[2]>>
      BY <1>1, <1>5, <2>3
    <3>. QED
      BY <1>8, <2>1, <2>3, <3>1 DEF Of!LengthField, Counter
  <2>. QED
    BY <1>1, <2>2, <2>3 DEF Sha
<1>10. PICK words \in Seq(Nat), c \in 1 .. 2 : words = Counter /\ Len(words) = c
  <2>1. PICK m \in Nat, l \in Nat : count = <<m, l>>
    BY <1>1
  <2>2. <<l>> \in Seq(Nat) /\ Len(<<l>>) = 1 /\ <<m, l>> \in Seq(Nat) /\ Len(<<m, l>>) = 2
    OBVIOUS
  <2>3. CASE kind = "sha256"
    <3>1. Counter = <<l>>
      BY <2>1, <2>3 DEF Counter
    <3>2. 1 \in 1 .. 2
      OBVIOUS
    <3>. QED
      BY <2>2, <3>1, <3>2, Zenon
  <2>4. CASE kind # "sha256"
    <3>1. Counter = <<m, l>>
      BY <2>1, <2>4 DEF Counter
    <3>2. 2 \in 1 .. 2
      OBVIOUS
    <3>. QED
      BY <2>2, <3>1, <3>2, Zenon
  <2>. QED
    BY <2>3, <2>4
<1>11. PICK e \in 1 .. 2 : e = IF r < Block - c THEN 1 ELSE 2
  OBVIOUS
<1>12. PICK z \in Nat : z = e * Block - r - 1 - c
  BY <1>3, <1>10, <1>11, Sizes
<1>13. PICK last : last = held \o <<128>> \o Zeros(z) \o words
  OBVIOUS
<1>14. Zeros(z) \in Seq(Nat) /\ Len(Zeros(z)) = z /\ <<128>> \in Seq(Nat) /\ Len(<<128>>) = 1
       /\ held \in Seq(Nat)
  <2>1. Zeros(z) \in Seq(Octet) /\ Len(Zeros(z)) = z
    BY ZeroRuns
  <2>2. <<128>> \in Seq(Nat) /\ Len(<<128>>) = 1
    OBVIOUS
  <2>. QED
    BY <2>1, <2>2, Bytes
<1>15. Padded(r) = last
  <2>1. CASE r < Block - c
    <3>1. Padded(r) = held \o <<128>> \o Zeros(Block - c - r - 1) \o words
      BY <1>6, <1>10, <2>1 DEF Padded, LengthFits
    <3>2. Block - c - r - 1 = z
      BY <1>3, <1>11, <1>12, <2>1, Sizes
    <3>. QED
      BY <1>13, <3>1, <3>2
  <2>2. CASE ~(r < Block - c)
    <3>1. Padded(r) = held \o <<128>> \o Zeros(Block - r - 1) \o Zeros(Block - c) \o words
      BY <1>6, <1>10, <2>2 DEF Padded, LengthFits
    <3>2. PICK u \in Nat, v \in Nat : u = Block - r - 1 /\ v = Block - c /\ u + v = z
      BY <1>3, <1>10, <1>11, <1>12, <2>2, Sizes, SMTT(30)
    <3>3. Zeros(u) \in Seq(Nat) /\ Zeros(v) \in Seq(Nat) /\ Zeros(u) \o Zeros(v) = Zeros(u + v)
      BY ZeroRuns, Bytes
    <3>4. PICK front \in Seq(Nat) : front = held \o <<128>>
      BY <1>14, ConcatProperties
    <3>5. front \o (Zeros(u) \o Zeros(v)) = (front \o Zeros(u)) \o Zeros(v)
      <4>. Zeros(u) \in Seq(Nat) /\ Zeros(v) \in Seq(Nat)
        BY <3>3
      <4>1. Associative(front, Zeros(u), Zeros(v))
        BY Associates
      <4>. QED
        BY <4>1 DEF Associative
    <3>. QED
      BY <1>13, <3>1, <3>2, <3>3, <3>4, <3>5
  <2>. QED
    BY <2>1, <2>2
<1>16. /\ last \in Seq(Nat) /\ Len(last) = r + 1 + z + c
       /\ fed \o last = fed \o held \o <<128>> \o Zeros(z) \o words
       /\ fed \o last \in Seq(Nat)
  <2>1. PICK end \in Seq(Nat) : end = <<128>> /\ Len(end) = 1
    BY <1>14
  <2>2. PICK gap \in Seq(Nat) : gap = Zeros(z) /\ Len(gap) = z
    BY <1>14
  <2>3. /\ held \o end \o gap \o words \in Seq(Nat)
        /\ Len(held \o end \o gap \o words) = Len(held) + Len(end) + Len(gap) + Len(words)
        /\ fed \o (held \o end \o gap \o words) = fed \o held \o end \o gap \o words
        /\ fed \o (held \o end \o gap \o words) \in Seq(Nat)
    BY <1>1, <1>14, Spread, ZenonT(30)
  <2>. QED
    BY <1>6, <1>10, <1>13, <2>1, <2>2, <2>3
<1>17. Len(last) = e * Block /\ Len(last) \div Block = e
  <2>1. PICK n \in Nat : n = e * Block
    BY <1>11, Distributed, Sizes
  <2>2. z = n - r - 1 - c /\ Len(last) = r + 1 + z + c
    BY <1>12, <1>16, <2>1
  <2>3. Len(last) = n
    <3>. r \in Nat /\ c \in Nat /\ z \in Nat
      BY <1>3, <1>10
    <3>. QED
      BY <2>2
  <2>4. (e * Block + 0) \div Block = e
    BY Beside, Sizes
  <2>5. e * Block + 0 = n
    BY <2>1
  <2>. QED
    BY <2>1, <2>3, <2>4, <2>5
<1>18. fed' = fed \o last /\ marks' = marks \o Repeat(e, Plain)
  BY <1>3, <1>15, <1>17 DEF ShaFinal
<1>19. marks' = Marked(kind, q + e)
  <2>1. e \in Nat /\ marks' = Marked(kind, q) \o Repeat(e, Plain)
    BY <1>2, <1>18
  <2>. QED
    BY <1>1, <2>1, MarkedMore
<1>20. Len(fed') = (q + e) * Block
  <2>0. Len(fed \o last) = Len(fed) + Len(last)
    BY <1>1, <1>16, ConcatProperties
  <2>1. Len(fed') = q * Block + e * Block
    BY <1>2, <1>17, <1>18, <2>0
  <2>. QED
    BY <2>1, Distributed, Sizes
<1>21. Of!Blocks(Len(Message) + 1 + c) = q + e
  <2>1. PICK x \in 1 .. 2 * Block : x = r + 1 + c
    BY <1>3, <1>10, Sizes
  <2>2. x \in 1 .. Block => e = 1
    BY <1>3, <1>10, <1>11, <2>1, Sizes
  <2>3. ~(x \in 1 .. Block) => e = 2 /\ x \in Block + 1 .. 2 * Block
    BY <1>3, <1>10, <1>11, <2>1, Sizes
  <2>4. Len(Message) + 1 + c = q * Block + x
    BY <1>3, <1>4, <1>8, <1>10, <2>1, Distributed, Sizes
  <2>. QED
    BY <2>2, <2>3, <2>4, BlocksOf
<1>22. Of!ShaFed(kind, Message) = fed'
  <2>1. (q + e) * Block - Len(Message) - 1 - c = z
    BY <1>3, <1>4, <1>8, <1>10, <1>11, <1>12, Distributed, Sizes
  <2>2. Of!ShaFed(kind, Message) = Message \o <<128>> \o Of!Zeros(z) \o words
    BY <1>9, <1>10, <1>21, <2>1 DEF Of!ShaFed
  <2>3. Of!Zeros(z) = Zeros(z)
    BY DEF Of!Zeros, Zeros
  <2>. QED
    BY <1>7, <1>16, <1>18, <2>2, <2>3
<1>23. Of!ShaMarks(kind, Message) = marks'
  <2>1. Len(fed') \div Block = q + e
    <3>1. ((q + e) * Block + 0) \div Block = q + e
      BY Beside, Sizes
    <3>2. (q + e) * Block + 0 = Len(fed')
      BY <1>20, Distributed, Sizes
    <3>. QED
      BY <3>1, <3>2
  <2>. QED
    BY <1>1, <1>19, <1>22, <2>1 DEF Of!ShaMarks, Marked
<1>24. Digested
  BY <1>1, <1>22, <1>23 DEF Digested, Of!DigestOf, Of!Sha, Sha
<1>25. TypeOK'
  <2>1. marks' \in Seq(Mark)
    BY <1>19, MarkedType
  <2>2. <<0, 0>> \in Nat \X (0 .. Limb - 1)
    BY Sizes
  <2>3. Empty \in [Space -> 0 .. 255]
    BY DEF Empty
  <2>. QED
    BY <1>1, <1>16, <1>18, <2>1, <2>2, <2>3 DEF BufferInv, TypeOK, Octet
<1>. QED
  BY <1>1, <1>24, <1>25 DEF BufferInv

(* poly1305 final hands on the message, a short last block with its mark   *)
(* and zeros.                                                              *)
LEMMA PolyFinalEffect ==
    ASSUME BufferInv, PolyFinal
    PROVE  BufferInv' /\ phase' = "final" /\ kind' = kind /\ Digested
<1>1. /\ phase = "open" /\ kind = "poly1305" /\ kind \notin Sha /\ phase' = "final" /\ kind' = kind
      /\ fed \in Seq(Nat) /\ buf \in [Space -> Octet]
      /\ input = <<>> /\ input' = input /\ fill' = 0 /\ t' = t
      /\ count' = count /\ result' = 0 /\ buf' = Empty
  BY DEF BufferInv, TypeOK, PolyFinal, Octet, Sha
<1>2. PICK q \in Nat : Len(fed) = q * Block /\ marks = Marked(kind, q)
  BY <1>1 DEF BufferInv, BlocksInv
<1>3. PICK r \in 0 .. Block - 1 : r = fill
  BY <1>1 DEF BufferInv, TypeOK
<1>4. PICK held \in Seq(Octet) : held = First(r) /\ Len(held) = r
  <2>. r \in 0 .. 2 * Block /\ Taken(buf, r) = First(r)
    BY <1>3, Sizes DEF Taken, First
  <2>. QED
    BY <1>1, TakenType
<1>5. Message = fed \o held
  <2>1. Message = fed \o held \o <<>>
    BY <1>1, <1>3, <1>4 DEF Message, Buffered
  <2>. QED
    BY <1>1, <1>4, <2>1, Joined, ConcatEmptySeq
<1>6. PICK n \in Nat : n = Len(Message) /\ n = q * Block + r
  <2>1. held \in Seq(Nat)
    BY Bytes
  <2>2. Len(fed \o held) = Len(fed) + Len(held) /\ fed \o held \in Seq(Nat)
    BY <1>1, <2>1, ConcatProperties
  <2>3. q * Block \in Nat
    BY Distributed, Sizes
  <2>. QED
    BY <1>2, <1>3, <1>4, <1>5, <2>2, <2>3
<1>7. n % Block = r /\ (r = 0 => Of!Blocks(n) = q) /\ (r # 0 => Of!Blocks(n) = q + 1)
  <2>1. n % Block = r
    BY <1>6, Beside
  <2>2. r \in 0 .. 2 * Block /\ (r # 0 => r \in 1 .. Block)
    BY <1>3, Sizes
  <2>. QED
    BY <1>6, <2>1, <2>2, BlocksOf
<1>8. PICK e \in 0 .. 1 : e = IF r = 0 THEN 0 ELSE 1
  OBVIOUS
<1>9. Of!Blocks(n) = q + e
  BY <1>7, <1>8
<1>10. Of!PolyFed(Message) = fed' /\ fed' \in Seq(Nat)
  <2>1. CASE r = 0
    <3>1. fed' = fed
      BY <1>3, <2>1 DEF PolyFinal
    <3>2. held = <<>>
      BY <1>4, <2>1, EmptySeq
    <3>3. Message = fed
      BY <1>1, <1>5, <3>2, ConcatEmptySeq
    <3>. QED
      BY <1>1, <1>6, <1>7, <2>1, <3>1, <3>3 DEF Of!PolyFed
  <2>2. CASE r # 0
    <3>1. PICK z \in Nat : z = Block - r - 1
      BY <1>3, Sizes
    <3>2. fed' = fed \o held \o <<1>> \o Zeros(z)
      BY <1>3, <1>4, <2>2, <3>1 DEF PolyFinal
    <3>3. (q + 1) * Block - n - 1 = z
      <4>1. PICK y \in Nat : y = q * Block
        BY Distributed, Sizes
      <4>2. (q + 1) * Block = y + Block
        BY <4>1, Distributed, Sizes
      <4>3. r \in Nat /\ Block \in Nat
        BY <1>3, Sizes
      <4>. QED
        BY <1>6, <3>1, <4>1, <4>2, <4>3
    <3>4. Of!PolyFed(Message) = Message \o <<1>> \o Of!Zeros(z)
      BY <1>6, <1>7, <2>2, <3>3 DEF Of!PolyFed
    <3>5. Of!Zeros(z) = Zeros(z)
      BY DEF Of!Zeros, Zeros
    <3>6. fed' \in Seq(Nat)
      <4>1. Zeros(z) \in Seq(Nat)
        BY ZeroRuns, Bytes
      <4>2. fed \o held \in Seq(Nat)
        BY <1>1, Joined
      <4>3. <<1>> \in Seq(Nat)
        OBVIOUS
      <4>4. (fed \o held) \o <<1>> \in Seq(Nat)
        BY <4>2, <4>3, ConcatProperties
      <4>. QED
        BY <3>2, <4>1, <4>4, ConcatProperties
    <3>. QED
      BY <1>5, <3>2, <3>4, <3>5, <3>6
  <2>. QED
    BY <2>1, <2>2
<1>11. PICK y \in Nat : y = q * Block /\ (q + 1) * Block = y + Block /\ n = y + r
  BY <1>6, Distributed, Sizes
<1>12. ASSUME NEW i \in 1 .. q
       PROVE  ~(i * Block > n)
  <2>1. i * Block \in Nat /\ i * Block <= q * Block
    BY Ordered, Distributed, Sizes
  <2>. QED
    BY <1>3, <1>11, <2>1
<1>13. (q + 1) * Block > n
  BY <1>3, <1>11, Sizes
<1>14. Of!PolyMarks(Message) = [i \in 1 .. q + e |-> [t |-> 0, last |-> i = q + 1]]
  <2>1. ASSUME NEW i \in 1 .. q + e PROVE (i * Block > n) <=> i = q + 1
    <3>1. CASE i \in 1 .. q
      <4>1. i # q + 1
        BY <3>1
      <4>. QED
        BY <1>12, <3>1, <4>1
    <3>2. CASE i = q + 1
      BY <1>13, <3>2
    <3>3. i \in 1 .. q \/ i = q + 1
      BY <1>8
    <3>. QED
      BY <3>1, <3>2, <3>3
  <2>2. ASSUME NEW i \in 1 .. q + e PROVE (i * Block > n) = (i = q + 1)
    <3>1. (i * Block > n) <=> i = q + 1
      BY <2>1
    <3>2. (i * Block > n) \in BOOLEAN /\ (i = q + 1) \in BOOLEAN
      OBVIOUS
    <3>. QED
      BY <3>1, <3>2
  <2>3. Of!PolyMarks(Message) = [i \in 1 .. q + e |-> [t |-> 0, last |-> i * Block > n]]
    BY <1>6, <1>9 DEF Of!PolyMarks
  <2>. QED
    BY <2>2, <2>3, Zenon
<1>15. marks' = [i \in 1 .. q + e |-> [t |-> 0, last |-> i = q + 1]]
  <2>1. marks = [i \in 1 .. q |-> [t |-> 0, last |-> FALSE]]
    BY <1>1, <1>2 DEF Marked
  <2>2. CASE r = 0
    <3>1. marks' = marks /\ e = 0
      BY <1>3, <1>8, <2>2 DEF PolyFinal
    <3>2. q + e = q
      BY <3>1
    <3>3. \A i \in 1 .. q : i # q + 1
      OBVIOUS
    <3>4. \A i \in 1 .. q : (i = q + 1) = FALSE
      BY <3>3
    <3>. QED
      BY <2>1, <3>1, <3>2, <3>4, Zenon
  <2>3. CASE r # 0
    <3>1. marks' = Append(marks, [t |-> 0, last |-> TRUE]) /\ e = 1
      BY <1>3, <1>8, <2>3 DEF PolyFinal
    <3>. DEFINE b == [i \in 1 .. q + 1 |-> [t |-> 0, last |-> i = q + 1]]
    <3>2. marks \in Seq(Mark) /\ Len(marks) = q /\ [t |-> 0, last |-> TRUE] \in Mark
      BY <1>2, MarkedType DEF Mark
    <3>3. /\ marks' \in Seq(Mark) /\ Len(marks') = q + 1
          /\ \A i \in 1 .. q : marks'[i] = marks[i]
          /\ marks'[q + 1] = [t |-> 0, last |-> TRUE]
      BY <3>1, <3>2, AppendProperties
    <3>4. b \in Seq(Mark) /\ Len(b) = q + 1
      BY DEF Mark
    <3>5. ASSUME NEW i \in 1 .. q + 1 PROVE marks'[i] = b[i]
      <4>1. b[i] = [t |-> 0, last |-> i = q + 1]
        OBVIOUS
      <4>2. CASE i \in 1 .. q
        <5>1. marks[i] = [t |-> 0, last |-> FALSE]
          BY <2>1, <4>2
        <5>2. (i = q + 1) = FALSE
          BY <4>2
        <5>. QED
          BY <3>3, <4>1, <4>2, <5>1, <5>2
      <4>3. CASE i = q + 1
        <5>1. (i = q + 1) = TRUE
          BY <4>3
        <5>. QED
          BY <3>3, <4>1, <4>3, <5>1
      <4>4. i \in 1 .. q \/ i = q + 1
        OBVIOUS
      <4>. QED
        BY <4>2, <4>3, <4>4
    <3>. HIDE DEF b
    <3>6. marks' = b
      BY <3>3, <3>4, <3>5, SeqEqual
    <3>. QED
      BY <3>1, <3>6 DEF b
  <2>. QED
    BY <2>2, <2>3
<1>16. Digested
  BY <1>1, <1>10, <1>14, <1>15 DEF Digested, Of!DigestOf, Of!Sha
<1>17. TypeOK'
  <2>1. marks' \in Seq(Mark)
    <3>. q + e \in Nat
      BY <1>8
    <3>. QED
      BY <1>15 DEF Mark
  <2>2. Empty \in [Space -> 0 .. 255]
    BY DEF Empty
  <2>3. fill' \in 0 .. Block - 1
    BY <1>1, Sizes
  <2>. QED
    BY <1>1, <1>10, <2>1, <2>2, <2>3 DEF BufferInv, TypeOK, Octet
<1>. QED
  BY <1>1, <1>16, <1>17 DEF BufferInv

(* blake2b final hands on the message, its last block with zeros, its      *)
(* counter and the flag.                                                   *)
LEMMA BlakeFinalEffect ==
    ASSUME BufferInv, BlakeFinal
    PROVE  BufferInv' /\ phase' = "final" /\ kind' = kind /\ Digested
<1>1. /\ phase = "open" /\ kind = "blake2b" /\ kind \notin Sha /\ phase' = "final" /\ kind' = kind
      /\ fed \in Seq(Nat) /\ buf \in [Space -> Octet] /\ fill \in 0 .. 2 * Block
      /\ input = <<>> /\ input' = input
      /\ count' = count /\ result' = 0 /\ buf' = Empty
  BY DEF BufferInv, TypeOK, BlakeFinal, Octet, Sha
<1>2. PICK q \in Nat : Len(fed) = q * Block /\ marks = Marked("blake2b", q)
  BY <1>1 DEF BufferInv, BlocksInv
<1>3. PICK y \in Nat : y = q * Block /\ t = y
  BY <1>1, <1>2, Distributed, Sizes DEF BufferInv, BlakeInv
<1>4. PICK r \in 0 .. 2 * Block : r = fill
  BY <1>1
<1>5. q # 0 => r > Block
  <2>1. fed # <<>> => fill + Len(input) > Block
    BY <1>1 DEF BufferInv, BlakeInv
  <2>2. Len(input) = 0
    BY <1>1
  <2>3. q # 0 => fed # <<>>
    <3>1. ASSUME q # 0, fed = <<>> PROVE FALSE
      <4>1. Len(fed) = 0
        BY <3>1
      <4>2. 1 * Block <= q * Block
        BY <3>1, Ordered, Sizes
      <4>. QED
        BY <1>2, <4>1, <4>2, Sizes
    <3>. QED
      BY <3>1
  <2>. QED
    BY <1>4, <2>1, <2>2, <2>3, Sizes
<1>6. PICK held \in Seq(Octet) : held = First(r) /\ Len(held) = r
  <2>. Taken(buf, r) = First(r)
    BY DEF Taken, First
  <2>. QED
    BY <1>1, TakenType
<1>7. Message = fed \o held
  <2>1. Message = fed \o held \o <<>>
    BY <1>1, <1>4, <1>6 DEF Message, Buffered
  <2>. QED
    BY <1>1, <1>6, <2>1, Joined, ConcatEmptySeq
<1>8. PICK n \in Nat : n = Len(Message) /\ n = y + r /\ Message \in Seq(Nat)
  <2>1. held \in Seq(Nat)
    BY Bytes
  <2>2. Len(fed \o held) = Len(fed) + Len(held) /\ fed \o held \in Seq(Nat)
    BY <1>1, <2>1, ConcatProperties
  <2>3. r \in Nat
    OBVIOUS
  <2>. QED
    BY <1>2, <1>3, <1>6, <1>7, <2>2, <2>3
(* The blocks that the final compresses, and the zeros in the last.        *)
<1>9. PICK e \in 1 .. 2 : e = IF r > Block THEN 2 ELSE 1
  OBVIOUS
<1>10. PICK z \in Nat : z = e * Block - r
  BY <1>4, <1>9, Sizes
<1>11. Of!BlakeBlocks(Message) = q + e
  <2>1. CASE r > Block
    <3>1. r \in Block + 1 .. 2 * Block /\ n # 0
      BY <1>8, <2>1, Sizes
    <3>2. Of!Blocks(n) = q + 2
      BY <1>3, <1>8, <3>1, BlocksOf
    <3>3. Message # <<>>
      BY <1>8, <3>1
    <3>. QED
      BY <1>8, <1>9, <2>1, <3>2, <3>3 DEF Of!BlakeBlocks
  <2>2. CASE ~(r > Block)
    <3>1. q = 0 /\ y = 0 /\ n = r /\ q + e = 1
      BY <1>3, <1>5, <1>8, <1>9, <2>2, Sizes
    <3>2. CASE r = 0
      <4>1. Message = <<>>
        BY <1>8, <3>1, <3>2, EmptySeq
      <4>. QED
        BY <3>1, <4>1 DEF Of!BlakeBlocks
    <3>3. CASE r # 0
      <4>1. r \in 1 .. Block
        BY <2>2, <3>3, Sizes
      <4>2. Of!Blocks(n) = q + 1
        BY <1>3, <1>8, <4>1, BlocksOf
      <4>3. Message # <<>>
        BY <1>8, <3>1, <3>3
      <4>. QED
        BY <1>8, <3>1, <4>2, <4>3 DEF Of!BlakeBlocks
    <3>. QED
      BY <3>2, <3>3
  <2>. QED
    BY <2>1, <2>2
<1>12. (q + e) * Block = y + e * Block
  BY <1>3, Distributed, Sizes
<1>13. fed' = fed \o held \o Zeros(z)
  <2>1. CASE r > Block
    <3>1. Block - (r - Block) = z
      BY <1>9, <1>10, <2>1, Sizes
    <3>. QED
      BY <1>4, <1>6, <2>1, <3>1 DEF BlakeFinal
  <2>2. CASE ~(r > Block)
    <3>1. Block - (r - 0) = z
      BY <1>9, <1>10, <2>2, Sizes
    <3>. QED
      BY <1>4, <1>6, <2>2, <3>1 DEF BlakeFinal
  <2>. QED
    BY <2>1, <2>2
<1>14. Of!BlakeFed(Message) = fed' /\ fed' \in Seq(Nat)
  <2>1. (q + e) * Block - n = z
    <3>1. PICK u \in Nat : u = e * Block
      BY <1>9, Sizes
    <3>2. r \in Nat
      OBVIOUS
    <3>. QED
      BY <1>8, <1>10, <1>12, <3>1, <3>2
  <2>2. Of!Zeros(z) = Zeros(z)
    BY DEF Of!Zeros, Zeros
  <2>3. Of!BlakeFed(Message) = Message \o Zeros(z)
    BY <1>8, <1>11, <2>1, <2>2 DEF Of!BlakeFed
  <2>4. Zeros(z) \in Seq(Nat)
    BY ZeroRuns, Bytes
  <2>5. fed' \in Seq(Nat)
    BY <1>7, <1>8, <1>13, <2>4, ConcatProperties
  <2>. QED
    BY <1>7, <1>13, <2>3, <2>5
<1>. DEFINE Last == [t |-> n, last |-> TRUE]
            b == [i \in 1 .. q + e |-> [t |-> IF i = q + e THEN n ELSE i * Block, last |-> i = q + e]]
<1>15. Of!BlakeMarks(Message) = b
  BY <1>8, <1>11 DEF Of!BlakeMarks
<1>16. marks' = Append(Marked("blake2b", q + e - 1), Last)
  <2>1. t + fill = n
    BY <1>3, <1>4, <1>8
  <2>2. CASE r > Block
    <3>1. marks' = marks \o <<[t |-> t + Block, last |-> FALSE]>> \o <<Last>>
      BY <1>4, <2>1, <2>2 DEF BlakeFinal
    <3>2. t + Block = (q + 1) * Block /\ q + e - 1 = q + 1 /\ q + 1 \in Nat
      BY <1>3, <1>9, <2>2, Distributed, Sizes
    <3>3. PICK m \in Mark : m = [t |-> t + Block, last |-> FALSE]
      <4>. t + Block \in Nat
        BY <1>3, Sizes
      <4>. QED
        BY DEF Mark
    <3>4. Last \in Mark
      BY DEF Mark
    <3>5. marks \in Seq(Mark) /\ marks \o <<m>> = Append(marks, m)
      BY <1>2, MarkedType, AppendIsConcat
    <3>6. Append(marks, m) = Marked("blake2b", q + 1)
      BY <1>2, <3>2, <3>3, MarkedNext
    <3>7. Marked("blake2b", q + 1) \in Seq(Mark)
      BY <3>2, MarkedType
    <3>8. Marked("blake2b", q + 1) \o <<Last>> = Append(Marked("blake2b", q + 1), Last)
      BY <3>4, <3>7, AppendIsConcat
    <3>. QED
      BY <3>1, <3>2, <3>3, <3>5, <3>6, <3>8
  <2>3. CASE ~(r > Block)
    <3>1. marks' = marks \o <<>> \o <<Last>>
      BY <1>4, <2>1, <2>3 DEF BlakeFinal
    <3>2. q + e - 1 = q
      BY <1>9, <2>3
    <3>3. marks \in Seq(Mark) /\ Last \in Mark
      BY <1>2, MarkedType DEF Mark
    <3>4. marks \o <<>> = marks /\ marks \o <<Last>> = Append(marks, Last)
      BY <3>3, ConcatEmptySeq, AppendIsConcat
    <3>. QED
      BY <1>2, <3>1, <3>2, <3>4
  <2>. QED
    BY <2>2, <2>3
<1>17. marks' = b /\ marks' \in Seq(Mark)
  <2>1. PICK p \in Nat : p = q + e - 1 /\ p + 1 = q + e
    BY <1>9
  <2>2. Last \in Mark
    BY DEF Mark
  <2>3. Marked("blake2b", p) \in Seq(Mark) /\ Len(Marked("blake2b", p)) = p
    BY MarkedType
  <2>4. /\ marks' \in Seq(Mark) /\ Len(marks') = p + 1
        /\ \A i \in 1 .. p : marks'[i] = Marked("blake2b", p)[i]
        /\ marks'[p + 1] = Last
    BY <1>16, <2>1, <2>2, <2>3, AppendProperties
  <2>5. b \in Seq(Mark) /\ Len(b) = p + 1
    <3>1. ASSUME NEW i \in 1 .. q + e PROVE i * Block \in Nat
      BY Distributed, Sizes
    <3>. QED
      BY <2>1, <3>1 DEF Mark
  <2>6. ASSUME NEW i \in 1 .. p + 1 PROVE marks'[i] = b[i]
    <3>1. b[i] = [t |-> IF i = p + 1 THEN n ELSE i * Block, last |-> i = p + 1]
      BY <2>1
    <3>2. CASE i \in 1 .. p
      <4>1. Marked("blake2b", p)[i] = [t |-> i * Block, last |-> FALSE]
        BY <3>2 DEF Marked
      <4>2. (i = p + 1) = FALSE
        BY <3>2
      <4>. QED
        BY <2>4, <3>1, <3>2, <4>1, <4>2
    <3>3. CASE i = p + 1
      <4>1. (i = p + 1) = TRUE
        BY <3>3
      <4>. QED
        BY <2>4, <3>1, <3>3, <4>1
    <3>4. i \in 1 .. p \/ i = p + 1
      OBVIOUS
    <3>. QED
      BY <3>2, <3>3, <3>4
  <2>. HIDE DEF b, Last
  <2>7. marks' = b
    <3>1. Len(marks') = Len(b) /\ \A i \in 1 .. Len(marks') : marks'[i] = b[i]
      BY <2>4, <2>5, <2>6
    <3>. QED
      BY <2>4, <2>5, <3>1, SeqEqual
  <2>. QED
    BY <2>4, <2>7
<1>. HIDE DEF b, Last
<1>18. Digested
  BY <1>1, <1>14, <1>15, <1>17 DEF Digested, Of!DigestOf, Of!Sha
<1>19. TypeOK'
  <2>1. Empty \in [Space -> 0 .. 255]
    BY DEF Empty
  <2>2. t' \in Nat /\ fill' \in 0 .. 2 * Block
    <3>1. t' = t + r /\ fill' = r - (IF r > Block THEN Block ELSE 0)
      BY <1>4 DEF BlakeFinal
    <3>2. r \in Nat /\ r <= 2 * Block /\ Block \in Nat
      BY Sizes
    <3>. QED
      BY <1>3, <3>1, <3>2
  <2>. QED
    BY <1>1, <1>14, <1>17, <2>1, <2>2 DEF BufferInv, TypeOK, Octet
<1>. QED
  BY <1>1, <1>18, <1>19 DEF BufferInv
-----------------------------------------------------------------------------
(* The invariant and the refinement                                        *)

(* The message is a sequence of octets.                                    *)
LEMMA MessageType == ASSUME BufferInv PROVE Message \in Seq(Nat)
<1>1. CASE phase = "final"
  BY <1>1 DEF Message
<1>2. CASE phase = "open"
  <2>1. /\ fed \in Seq(Nat) /\ input \in Seq(Byte) /\ buf \in [Space -> Octet]
        /\ Buffered \in 0 .. 2 * Block
    <3>1. /\ fed \in Seq(Nat) /\ input \in Seq(Byte) /\ buf \in [Space -> Octet]
          /\ count[2] \in Nat /\ fill \in 0 .. 2 * Block
      BY Sizes DEF BufferInv, TypeOK, Octet
    <3>2. count[2] % Block \in 0 .. 2 * Block
      <4>1. PICK l \in Nat : l = count[2]
        BY <3>1
      <4>2. l % Block \in 0 .. Block - 1
        BY Division, Sizes
      <4>. QED
        BY <4>1, <4>2, Sizes
    <3>. QED
      BY <3>1, <3>2 DEF Buffered
  <2>2. PICK held \in Seq(Octet) : held = First(Buffered)
    <3>. Taken(buf, Buffered) = First(Buffered)
      BY DEF Taken, First
    <3>. QED
      BY <2>1, TakenType
  <2>3. PICK front \in Seq(Nat) : front = fed \o held
    BY <2>1, Joined
  <2>4. front \o input \in Seq(Nat)
    BY <2>1, Bytes, ConcatProperties
  <2>. QED
    BY <1>2, <2>2, <2>3, <2>4 DEF Message
<1>. QED
  BY <1>1, <1>2 DEF BufferInv, TypeOK

(* A digest begins with nothing in the buffers, or BLAKE2b's key to take in.*)
LEMMA OpensType == ASSUME NEW k \in Kind, NEW in \in Opens(k)
                   PROVE  in \in Seq(Byte) /\ (in # <<>> => k = "blake2b")
<1>1. Key \in Seq(Byte) /\ <<>> \in Seq(Byte)
  BY ByteAssumption
<1>2. in = <<>> \/ (k = "blake2b" /\ in = Key)
  BY DEF Opens
<1>. QED
  BY <1>1, <1>2

(* No blocks carry no marks.                                               *)
LEMMA StartBlocks == ASSUME NEW k PROVE Marked(k, 0) = <<>> /\ Len(<<>>) = 0 * Block
BY Sizes DEF Marked

(* The invariant holds at the start, and maps to the start of Digest.      *)
LEMMA InitEffect ==
    ASSUME Init
    PROVE  BufferInv /\ Of!DigestInit
<1>1. /\ kind \in Kind /\ input \in Opens(kind) /\ buf = Empty /\ fill = 0 /\ count = <<0, 0>>
      /\ t = 0 /\ fed = <<>> /\ marks = <<>> /\ phase = "open" /\ result = 0
  BY DEF Init
<1>2. input \in Seq(Byte) /\ (input # <<>> => kind = "blake2b")
  BY <1>1, OpensType
<1>3. Buffered = 0 /\ Length = 0
  <2>. 0 % Block = 0
    BY Sizes
  <2>. QED
    BY <1>1 DEF Buffered, Length
<1>4. TypeOK
  <2>1. buf \in [Space -> 0 .. 255]
    BY <1>1 DEF Empty
  <2>2. count \in Nat \X (0 .. Limb - 1) /\ fill \in 0 .. Block - 1 /\ fill \in 0 .. 2 * Block
    BY <1>1, Sizes
  <2>. QED
    BY <1>1, <1>2, <2>1, <2>2 DEF TypeOK
<1>5. BlocksInv
  BY <1>1, StartBlocks DEF BlocksInv
<1>6. CountInv
  <2>. 0 = 0 * Limb + 0
    BY Sizes
  <2>. QED
    BY <1>1, <1>3 DEF CountInv
<1>7. BlakeInv
  BY <1>1 DEF BlakeInv
<1>8. Message = input
  <2>1. First(0) = <<>> /\ <<>> \o <<>> = <<>>
    BY DEF First
  <2>2. <<>> \o input = input
    BY <1>2, ConcatEmptySeq
  <2>. QED
    BY <1>1, <1>3, <2>1, <2>2 DEF Message
<1>9. Of!DigestInit
  BY <1>1, <1>8 DEF Of!DigestInit, Of!Starts, Of!None, Opens, Kind, Sha, Of!Kind, Of!Sha
<1>. QED
  BY <1>1, <1>4, <1>5, <1>6, <1>7, <1>9 DEF BufferInv

(* A new digest keeps the invariant, and maps to a restart of Digest.      *)
LEMMA BeginEffect ==
    ASSUME BufferInv, Begin
    PROVE  BufferInv' /\ Of!Restart
<1>1. /\ kind' \in Kind /\ input' \in Opens(kind') /\ buf' = Empty /\ fill' = 0
      /\ count' = <<0, 0>> /\ t' = 0 /\ fed' = <<>> /\ marks' = <<>>
      /\ phase' = "open" /\ result' = 0
  BY DEF Begin
<1>2. input' \in Seq(Byte) /\ (input' # <<>> => kind' = "blake2b")
  BY <1>1, OpensType
<1>3. Buffered' = 0 /\ Length' = 0
  <2>. 0 % Block = 0
    BY Sizes
  <2>. QED
    BY <1>1 DEF Buffered, Length
<1>4. TypeOK'
  <2>1. buf' \in [Space -> 0 .. 255]
    BY <1>1 DEF Empty
  <2>2. count' \in Nat \X (0 .. Limb - 1) /\ fill' \in 0 .. Block - 1 /\ fill' \in 0 .. 2 * Block
    BY <1>1, Sizes
  <2>. QED
    BY <1>1, <1>2, <2>1, <2>2 DEF TypeOK
<1>5. BlocksInv'
  BY <1>1, StartBlocks DEF BlocksInv
<1>6. CountInv'
  <2>. 0 = 0 * Limb + 0
    BY Sizes
  <2>. QED
    BY <1>1, <1>3 DEF CountInv
<1>7. BlakeInv'
  BY <1>1 DEF BlakeInv
<1>8. Message' = input'
  <2>1. First(0)' = <<>> /\ <<>> \o <<>> = <<>>
    BY DEF First
  <2>2. <<>> \o input' = input'
    BY <1>2, ConcatEmptySeq
  <2>. QED
    BY <1>1, <1>3, <2>1, <2>2 DEF Message, First
<1>9. Of!Restart
  BY <1>1, <1>8 DEF Of!Restart, Of!Starts, Of!None, Opens, Kind, Sha, Of!Kind, Of!Sha
<1>. QED
  BY <1>1, <1>4, <1>5, <1>6, <1>7, <1>9 DEF BufferInv

(* A refused second final changes what it returns and nothing else.        *)
LEMMA RefuseEffect ==
    ASSUME BufferInv, BlakeRefuse
    PROVE  BufferInv' /\ UNCHANGED Of!digestVars
<1>1. /\ phase = "final" /\ phase' = "final" /\ result' = -1
      /\ UNCHANGED <<kind, buf, fill, count, t, input, fed, marks, phase>>
  BY DEF BlakeRefuse
<1>2. BufferInv'
  BY <1>1 DEF BufferInv, TypeOK
<1>3. UNCHANGED Of!digestVars
  BY <1>1 DEF Of!digestVars, Message
<1>. QED
  BY <1>2, <1>3

(* A step that changes nothing here changes nothing there.                 *)
LEMMA StutterEffect ==
    ASSUME BufferInv, UNCHANGED vars
    PROVE  BufferInv' /\ UNCHANGED Of!digestVars
<1>1. /\ kind' = kind /\ buf' = buf /\ fill' = fill /\ count' = count /\ t' = t /\ input' = input
      /\ fed' = fed /\ marks' = marks /\ phase' = phase /\ result' = result
  BY DEF vars
<1>2. BufferInv'
  BY <1>1 DEF BufferInv, TypeOK, BlocksInv, CountInv, BlakeInv, Length, Buffered
<1>3. UNCHANGED Of!digestVars
  BY <1>1 DEF Of!digestVars, Message, First, Buffered
<1>. QED
  BY <1>2, <1>3

(* An update that puts its input behind the message absorbs it.            *)
LEMMA Absorbs ==
    ASSUME BufferInv, phase = "open", phase' = "open", kind' = kind,
           NEW in \in Chunk, Message' = Message \o in
    PROVE  Of!Absorb
<1>1. Message \in Seq(Nat) /\ in \in Seq(Nat) /\ Len(in) \in Nat /\ Len(Message) \in Nat
  BY MessageType, Bytes, LenProperties
<1>2. Len(Message') >= Len(Message)
  BY <1>1, ConcatProperties
<1>3. SubSeq(Message', 1, Len(Message)) = Message
  <2>1. Message' \in Seq(Nat) /\ Len(Message') = Len(Message) + Len(in)
        /\ \A i \in 1 .. Len(Message) : Message'[i] = Message[i]
    BY <1>1, ConcatProperties
  <2>2. \A i \in 1 .. Len(Message) : Message'[i] \in Nat
    BY <1>1, <2>1
  <2>3. /\ SubSeq(Message', 1, Len(Message)) \in Seq(Nat)
        /\ Len(SubSeq(Message', 1, Len(Message))) = Len(Message)
        /\ \A i \in 1 .. Len(Message) : SubSeq(Message', 1, Len(Message))[i] = Message'[i]
    BY <1>1, <2>2, SubSeqProperties
  <2>. QED
    BY <1>1, <2>1, <2>3, SeqEqual
<1>. QED
  BY <1>2, <1>3 DEF Of!Absorb

(* A final that hands on the right blocks is the one step of Digest that   *)
(* finishes.                                                               *)
LEMMA Finishes ==
    ASSUME phase = "open", phase' = "final", kind' = kind, Digested
    PROVE  Of!Finish
BY DEF Of!Finish, Digested, Message

(* Every step keeps the invariant, and is a step of the digest or none.    *)
LEMMA StepDigest ==
    ASSUME BufferInv, [Next]_vars
    PROVE  BufferInv' /\ [Of!DigestNext]_(Of!digestVars)
<1>. USE DEF Of!DigestNext
<1>1. CASE Begin
  BY <1>1, BeginEffect
<1>2. ASSUME NEW in \in Chunk, ShaUpdate(in) PROVE BufferInv' /\ Of!Absorb
  <2>. phase = "open" /\ phase' = "open" /\ kind' = kind
    BY <1>2 DEF ShaUpdate
  <2>. QED
    BY <1>2, ShaUpdateEffect, Absorbs
<1>3. ASSUME NEW in \in Chunk, PolyUpdate(in) PROVE BufferInv' /\ Of!Absorb
  <2>. phase = "open" /\ phase' = "open" /\ kind' = kind
    BY <1>3 DEF PolyUpdate
  <2>. QED
    BY <1>3, PolyUpdateEffect, Absorbs
<1>4. ASSUME NEW in \in Chunk, BlakeUpdate(in) PROVE BufferInv' /\ Of!Absorb
  <2>. phase = "open" /\ phase' = "open" /\ kind' = kind
    BY <1>4 DEF BlakeUpdate
  <2>. QED
    BY <1>4, BlakeUpdateEffect, Absorbs
<1>5. CASE ShaFinal
  BY <1>5, ShaFinalEffect, Finishes DEF ShaFinal
<1>6. CASE PolyFinal
  BY <1>6, PolyFinalEffect, Finishes DEF PolyFinal
<1>7. CASE BlakeFinal
  BY <1>7, BlakeFinalEffect, Finishes DEF BlakeFinal
<1>8. CASE BlakeLoop
  <2>1. BufferInv' /\ Message' = Message
    BY <1>8, BlakeLoopEffect
  <2>2. kind' = kind /\ phase = "open" /\ phase' = "open"
    BY <1>8 DEF BlakeLoop
  <2>3. UNCHANGED Of!digestVars
    BY <2>1, <2>2 DEF Of!digestVars
  <2>. QED
    BY <2>1, <2>3
<1>9. CASE BlakeRefuse
  BY <1>9, RefuseEffect
<1>10. CASE UNCHANGED vars
  BY <1>10, StutterEffect
<1>. QED
  BY <1>1, <1>2, <1>3, <1>4, <1>5, <1>6, <1>7, <1>8, <1>9, <1>10 DEF Next

(* BufferInv holds of the specification.                                   *)
LEMMA BufferInvariant == Spec => []BufferInv
BY InitEffect, StepDigest, PTL DEF Spec

(* The words for the length say the length of the message, through every   *)
(* carry and wrap of the updates, and BLAKE2b's counter what it has        *)
(* compressed.                                                             *)
THEOREM Counts == Spec => []CountTells
<1>1. ASSUME BufferInv PROVE CountTells
  <2>1. ASSUME phase = "open", kind = "sha256" PROVE count = <<0, Length % Limb>>
    <3>1. PICK l \in 0 .. Limb - 1 : count = <<0, l>>
      BY <1>1, <2>1 DEF BufferInv, TypeOK, CountInv, Sha
    <3>2. PICK h \in Nat : Length = h * Limb + l
      BY <1>1, <2>1, <3>1 DEF BufferInv, CountInv, Sha
    <3>3. (h * Limb + l) % Limb = l
      BY Wrapped
    <3>. QED
      BY <3>1, <3>2, <3>3
  <2>2. ASSUME phase = "open", kind = "sha512" PROVE count[1] * Limb + count[2] = Length
    BY <1>1, <2>2 DEF BufferInv, CountInv, Sha
  <2>3. ASSUME phase = "open", kind = "blake2b" PROVE t = Len(fed)
    BY <1>1, <2>3 DEF BufferInv, BlakeInv
  <2>. QED
    BY <1>1, <2>1, <2>2, <2>3 DEF CountTells, BufferInv
<1>. QED
  BY <1>1, BufferInvariant, PTL

(* BLAKE2b's update compresses a full buffer only when more follows: what  *)
(* may be the last block waits for the final, which marks it as the last.  *)
THEOREM HoldsBack == Spec => []LastBlockHeld
<1>1. BufferInv => LastBlockHeld
  BY DEF BufferInv, BlakeInv, LastBlockHeld
<1>. QED
  BY <1>1, BufferInvariant, PTL

(* However a message is divided into updates, the bytes and marks that the *)
(* functions compress are those of the message as a whole: the buffers of  *)
(* SHA-2, BLAKE2b and Poly1305 implement Digest.                           *)
THEOREM Implements == Spec => DigestSpec
BY InitEffect, StepDigest, BufferInvariant, PTL DEF Spec, DigestSpec, Of!DigestSpec
=============================================================================
