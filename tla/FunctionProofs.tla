--------------------------- MODULE FunctionProofs ---------------------------
(***************************************************************************)
(* Proofs about functions of the library that keep no state, for every     *)
(* argument: padding, arithmetic and comparison of strings of bytes, the   *)
(* blocks argon2 refers to, and a carry from a limb to the next.           *)
(***************************************************************************)
EXTENDS BoxesProofs, Bytes, Limbs, Argon2
-----------------------------------------------------------------------------
(* Comparison (verify.c)                                                   *)

(* crypto_verify finds a difference wherever it is, in strings of any      *)
(* length: the words of four bytes it compares at once cover all of them.  *)
THEOREM VerifyCompares ==
    ASSUME NEW x \in Seq(Nat), NEW y \in Seq(Nat), Len(x) = Len(y)
    PROVE  crypto_verify_n(x, y) = IF x = y THEN 0 ELSE -1
<1> DEFINE z(i) == \E k \in 1 .. Len(x) : (k - 1) % 16 = i /\ x[k] # y[k]
           m    == {i \in 0 .. 15 : ~\E j \in 0 .. 3 : z(4 * (i \div 4) + j)}
<1>1. crypto_verify_n(x, y) = IF m = 0 .. 15 THEN 0 ELSE -1
  BY DEF crypto_verify_n
<1>2. ASSUME x = y
      PROVE  m = 0 .. 15
  BY <1>2
<1>3. ASSUME x # y
      PROVE  m # 0 .. 15
  <2>1. PICK k \in 1 .. Len(x) : x[k] # y[k]
    BY <1>3
  <2>2. PICK i \in 0 .. 15 : i = (k - 1) % 16
    BY <2>1
  <2>3. PICK j \in 0 .. 3 : i = 4 * (i \div 4) + j
    BY <2>2
  <2>4. z(4 * (i \div 4) + j)
    BY <2>1, <2>2, <2>3
  <2>. QED
    BY <2>2, <2>4
<1> HIDE DEF m
<1>. QED
  BY <1>1, <1>2, <1>3

-----------------------------------------------------------------------------
(* The blocks argon2 refers to (argon2-core.h)                             *)

(* Below twice h, at most one h is left out.                               *)
LEMMA Folded ==
    ASSUME NEW h \in Nat \ {0}, NEW n \in 0 .. 2 * h - 1
    PROVE  n % h = IF n < h THEN n ELSE n - h
<1>0. n \in Nat
  OBVIOUS
<1>1. PICK q \in Nat, x \in 0 .. h - 1 : n = q * h + x /\ x = n % h
  BY <1>0, Division
<1>2. CASE q = 0
  BY <1>1, <1>2
<1>3. CASE q = 1
  BY <1>1, <1>3
<1>4. ~(2 <= q)
  <2> SUFFICES ASSUME 2 <= q
               PROVE  FALSE
    OBVIOUS
  <2>1. 2 * h <= q * h
    BY Products
  <2>. QED
    BY <1>1, <2>1, Products
<1>. QED
  BY <1>2, <1>3, <1>4

(* The block before another in a lane of four segments.                    *)
LEMMA OneBefore ==
    ASSUME NEW s \in Nat \ {0}, NEW a \in Nat, NEW j \in Nat, a + j < 4 * s
    PROVE  (a + j - 1 + 4 * s) % (4 * s) = IF a + j = 0 THEN 4 * s - 1 ELSE a + j - 1
<1>1. ASSUME NEW h \in Nat \ {0}, NEW n \in 0 .. h - 1
      PROVE  (n - 1 + h) % h = IF n = 0 THEN h - 1 ELSE n - 1
  <2>1. PICK x \in 0 .. 2 * h - 1 : x = n - 1 + h
    OBVIOUS
  <2>2. x % h = IF x < h THEN x ELSE x - h
    BY Folded
  <2>. QED
    BY <2>1, <2>2
<1>2. 4 * s \in Nat \ {0} /\ a + j \in 0 .. 4 * s - 1
  OBVIOUS
<1>. QED
  BY ONLY <1>1, <1>2

(* A fraction of a number is less than the number.                         *)
LEMMA Scaled ==
    ASSUME NEW a \in Nat \ {0}, NEW h \in Nat \ {0}, NEW b \in 0 .. h - 1
    PROVE  (a * b) \div h \in 0 .. a - 1
<1>1. a * b \in Nat
  BY Products
<1>2. PICK q \in Nat, x \in 0 .. h - 1 : a * b = q * h + x /\ q = (a * b) \div h
  BY <1>1, Division
<1>3. a * b + a <= a * h
  <2>1. b * a + a = (b + 1) * a /\ (b + 1) * a <= h * a
    BY Products
  <2>2. b * a = a * b /\ h * a = a * h
    OBVIOUS
  <2>3. b * a \in Nat /\ h * a \in Nat
    BY Products
  <2>. QED
    BY <2>1, <2>2, <2>3
<1>4. ~(a <= q)
  <2> SUFFICES ASSUME a <= q
               PROVE  FALSE
    OBVIOUS
  <2>1. a * h <= q * h
    BY Products
  <2>2. a * h \in Nat /\ q * h \in Nat
    BY Products
  <2>. QED
    BY <1>1, <1>2, <1>3, <2>1, <2>2
<1>. QED
  BY <1>2, <1>4

(* A segment has at least two blocks, whatever the memory cost.            *)
LEMMA Segments ==
    ASSUME NEW ctx, ctx.lanes \in Nat \ {0}, ctx.m_cost \in Nat, NEW type
    PROVE  LET inst == Instance(ctx, type) IN
           /\ inst.segment_length \in Nat /\ inst.segment_length >= 2
           /\ inst.lane_length = 4 * inst.segment_length
<1> DEFINE parts == ctx.lanes * 4
           cost  == IF ctx.m_cost < 2 * parts THEN 2 * parts ELSE ctx.m_cost
           inst  == Instance(ctx, type)
<1>1. parts \in Nat \ {0} /\ cost \in Nat /\ 2 * parts <= cost
  OBVIOUS
<1>2. inst.segment_length = cost \div parts /\ inst.lane_length = (cost \div parts) * 4
  BY DEF Instance, ARGON2_SYNC_POINTS
<1> HIDE DEF parts, cost, inst
<1>3. PICK q \in Nat, x \in 0 .. parts - 1 : cost = q * parts + x /\ q = cost \div parts
  BY <1>1, Division
<1>4. ~(q + 1 <= 2)
  <2> SUFFICES ASSUME q + 1 <= 2
               PROVE  FALSE
    OBVIOUS
  <2>1. (q + 1) * parts <= 2 * parts /\ (q + 1) * parts = q * parts + parts /\ q * parts \in Nat
    BY <1>1, Products
  <2>. QED
    BY <1>1, <1>3, <2>1
<1>5. inst.segment_length \in Nat /\ inst.segment_length >= 2 /\ inst.lane_length = 4 * inst.segment_length
  BY <1>2, <1>3, <1>4
<1>. QED
  BY <1>5 DEF inst

(* The block that is mixed in lies in the lane and holds what is final:    *)
(* in the first pass it has been filled before; in no pass is it among the *)
(* blocks that this segment, or another lane's at the same time, has yet   *)
(* to fill, and it is never the block before, which is mixed in anyway.    *)
(* RandBits is a number of bits, so a power of two is at least 1.          *)
THEOREM RefersBack ==
    ASSUME 2 ^ RandBits \in Nat \ {0},
           NEW ctx, ctx.lanes \in Nat \ {0}, ctx.m_cost \in Nat, NEW type,
           NEW inst, inst = Instance(ctx, type),
           NEW pos \in [pass : Nat, slice : 0 .. 3, lane : Nat, index : Nat], pos.index < inst.segment_length,
           NEW rand \in 0 .. 2 ^ RandBits - 1, NEW same \in BOOLEAN,
           pos.pass = 0 /\ pos.slice = 0 => same /\ pos.index >= 2
    PROVE  LET r  == index_alpha(inst, pos, rand, same)
               at == pos.slice * inst.segment_length
               k  == IF same THEN pos.index ELSE 0
           IN /\ r \in 0 .. inst.lane_length - 1
              /\ pos.pass = 0 => r < at + k
              /\ r \notin at + k .. at + inst.segment_length - 1
              /\ (same \/ pos.index = 0) => r # (at + pos.index - 1 + inst.lane_length) % inst.lane_length
<1> DEFINE P        == 2 ^ RandBits
           S        == inst.segment_length
           i        == pos.index
           n        == pos.slice
           beside   == IF same THEN i - 1 ELSE IF i = 0 THEN -1 ELSE 0
           finished == (IF pos.pass = 0 THEN n ELSE 3) * S
           size     == finished + beside
           squared  == (rand * rand) \div P
           start    == IF pos.pass = 0 \/ n = 3 THEN 0 ELSE (n + 1) * S
           back     == (size * squared) \div P
           r        == index_alpha(inst, pos, rand, same)
           at       == n * S
           k        == IF same THEN i ELSE 0
<1>1. /\ S \in Nat /\ S >= 2 /\ inst.lane_length = 4 * S
      /\ i \in 0 .. S - 1 /\ n \in 0 .. 3 /\ P \in Nat \ {0} /\ rand \in 0 .. P - 1
      /\ pos.pass \in Nat
  BY Segments
<1>2. r = ((start + size - 1) - back) % (4 * S)
  BY <1>1 DEF index_alpha, ARGON2_SYNC_POINTS
<1>3. size \in Nat \ {0}
  <2>1. CASE pos.pass # 0
    BY <1>1, <2>1
  <2>2. CASE pos.pass = 0 /\ n = 0
    BY <1>1, <2>2
  <2>3. CASE pos.pass = 0 /\ n # 0
    <3>1. n = 1 \/ n = 2 \/ n = 3
      BY <1>1, <2>3
    <3>. QED
      BY <1>1, <2>3, <3>1
  <2>. QED
    BY <2>1, <2>2, <2>3
<1>4. squared \in 0 .. P - 1
  <2>1. CASE rand = 0
    <3>1. PICK q \in Nat, x \in 0 .. P - 1 : 0 = q * P + x /\ q = 0 \div P
      BY <1>1, Division
    <3>2. q = 0
      BY <1>1, <3>1, Products
    <3>. QED
      BY <1>1, <2>1, <3>1, <3>2
  <2>2. CASE rand # 0
    <3>1. rand \in Nat \ {0}
      BY <1>1, <2>2
    <3>2. squared \in 0 .. rand - 1
      BY <1>1, <3>1, Scaled
    <3> HIDE DEF squared
    <3>. QED
      BY <1>1, <3>2
  <2>. QED
    BY <2>1, <2>2
<1> HIDE DEF squared, P
<1>5. back \in 0 .. size - 1
  BY <1>1, <1>3, <1>4, Scaled
<1> HIDE DEF back
<1>6. n = 0 \/ n = 1 \/ n = 2 \/ n = 3
  BY <1>1
<1>7. /\ start \in Nat /\ start <= 3 * S
      /\ beside \in -1 .. S - 2 /\ size <= 3 * S + beside
      /\ pos.pass = 0 => start = 0 /\ size = at + beside
      /\ pos.pass # 0 => size = 3 * S + beside /\ (start = at + S \/ start = at - 3 * S)
  BY <1>1, <1>6
<1>8. PICK v \in Nat : v = (start + size - 1) - back /\ start <= v /\ v < start + size
  BY <1>3, <1>5, <1>7
<1>9. r = IF v < 4 * S THEN v ELSE v - 4 * S
  <2>1. v \in 0 .. 2 * (4 * S) - 1
    BY <1>1, <1>7, <1>8
  <2>2. 4 * S \in Nat \ {0}
    BY <1>1
  <2>3. v % (4 * S) = IF v < 4 * S THEN v ELSE v - 4 * S
    BY <2>1, <2>2, Folded
  <2>. QED
    BY <1>2, <1>8, <2>3
<1>10. at \in Nat /\ at <= 3 * S
  BY <1>1, <1>6
<1>11. start \in Nat
  BY <1>7
<1> HIDE DEF start, size, finished, r, at
<1>12. beside = IF same THEN i - 1 ELSE IF i = 0 THEN -1 ELSE 0
  OBVIOUS
<1>13. (at + i - 1 + 4 * S) % (4 * S) = IF at + i = 0 THEN 4 * S - 1 ELSE at + i - 1
  <2>1. S \in Nat \ {0} /\ i \in Nat /\ at + i < 4 * S
    BY <1>1, <1>10
  <2> HIDE DEF S, i
  <2>. QED
    BY ONLY <1>10, <2>1, OneBefore, Zenon
<1>14. /\ r \in 0 .. 4 * S - 1
       /\ pos.pass = 0 => r < at + k
       /\ r \notin at + k .. at + S - 1
       /\ (same \/ i = 0) => r # (IF at + i = 0 THEN 4 * S - 1 ELSE at + i - 1)
  <2>1. CASE pos.pass = 0
    BY <2>1, <1>1, <1>3, <1>7, <1>8, <1>9, <1>10, <1>12
  <2>2. CASE pos.pass # 0 /\ start = at + S
    BY <2>2, <1>1, <1>3, <1>7, <1>8, <1>9, <1>10, <1>12
  <2>3. CASE pos.pass # 0 /\ start = at - 3 * S
    <3>1. at = 3 * S /\ start = 0
      BY <2>3, <1>1, <1>10, <1>11
    <3>2. v < 3 * S + beside /\ r = v
      BY <2>3, <3>1, <1>1, <1>7, <1>8, <1>9
    <3>. QED
      BY <3>1, <3>2, <1>1, <1>7, <1>8, <1>12
  <2>. QED
    BY <2>1, <2>2, <2>3, <1>7
<1>. QED
  BY <1>1, <1>13, <1>14 DEF r, at

-----------------------------------------------------------------------------
(* Carries (fe_25_5, sc25519)                                              *)

(* A quotient by floor leaves less than the divisor, below zero too.       *)
LEMMA FloorDivision ==
    ASSUME NEW x \in Int, NEW h \in Nat \ {0}
    PROVE  x \div h \in Int /\ x - (x \div h) * h \in 0 .. h - 1
OBVIOUS

(* A carry out of a limb takes carry times 2^w from it, and adds carry to  *)
(* the next, or c times carry to the first after the last.                 *)
Carried(g, h, n, i, w, carry, c) ==
    /\ g \in [0 .. n - 1 -> Int]
    /\ g[i] = h[i] - carry * 2 ^ w
    /\ i < n - 1 => g[i + 1] = h[i + 1] + carry
    /\ i = n - 1 => g[0] = h[0] + carry * c
    /\ \A j \in 0 .. n - 1 : j # i /\ j # (IF i = n - 1 THEN 0 ELSE i + 1) => g[j] = h[j]

(* This is what Moved does.                                                *)
LEMMA MovedEffect ==
    ASSUME NEW n \in Nat, n >= 2, NEW h \in [0 .. n - 1 -> Int], n = Cardinality(DOMAIN h),
           NEW i \in 0 .. n - 1,
           NEW w \in Nat, 2 ^ w \in Nat \ {0}, NEW carry \in Int, NEW c \in Int
    PROVE  Carried(Moved(h, i, w, carry, c), h, n, i, w, carry, c)
<1> DEFINE next == IF i = n - 1 THEN 0 ELSE i + 1
<1>1. DOMAIN h = 0 .. n - 1 /\ Cardinality(DOMAIN h) = n
  OBVIOUS
<1>2. (i + 1) % n = next
  <2>1. PICK x \in 0 .. 2 * n - 1 : x = i + 1
    OBVIOUS
  <2>2. n \in Nat \ {0}
    OBVIOUS
  <2>3. x % n = IF x < n THEN x ELSE x - n
    BY <2>2, Folded
  <2>. QED
    BY <2>1, <2>3
<1>3. next \in 0 .. n - 1 /\ next # i
  OBVIOUS
<1>4. Moved(h, i, w, carry, c) =
         [h EXCEPT ![i] = @ - carry * 2 ^ w, ![next] = @ + carry * (IF next = 0 THEN c ELSE 1)]
  BY <1>1, <1>2 DEF Moved
<1>5. PICK p \in Nat \ {0} : p = 2 ^ w
  OBVIOUS
<1>6. /\ carry * p \in Int /\ carry * c \in Int /\ carry * 1 = carry
      /\ next = 0 <=> i = n - 1
  OBVIOUS
<1> HIDE DEF next
<1>7. PICK up \in Int : up = carry * (IF next = 0 THEN c ELSE 1)
  BY <1>6
<1>8. PICK down \in Int : down = carry * 2 ^ w
  BY <1>5, <1>6
<1>9. PICK g : g = Moved(h, i, w, carry, c)
  OBVIOUS
<1>10. g = [h EXCEPT ![i] = @ - down, ![next] = @ + up]
  BY <1>4, <1>7, <1>8, <1>9
<1>11. h[i] - down \in Int /\ h[next] + up \in Int
  BY <1>3, <1>7, <1>8
<1>12. /\ g \in [0 .. n - 1 -> Int] /\ g[i] = h[i] - down /\ g[next] = h[next] + up
       /\ \A j \in 0 .. n - 1 : j # i /\ j # next => g[j] = h[j]
  BY <1>3, <1>10, <1>11
<1>13. /\ i < n - 1 => g[i + 1] = h[i + 1] + carry
       /\ i = n - 1 => g[0] = h[0] + carry * c
  BY <1>6, <1>7, <1>12 DEF next
<1>. QED
  BY <1>8, <1>9, <1>12, <1>13 DEF next, Carried

(* One carry keeps the number that the limbs stand for, and brings its     *)
(* limb in range: by floor from 0 to 2^w - 1, to the nearest half of that  *)
(* to either side.  Out of the last limb it keeps the number modulo what   *)
(* 2^w of this limb less c of the first stands for.  What is assumed of    *)
(* powers of two and of the size of 0 .. n - 1 is arithmetic the provers   *)
(* cannot do.                                                              *)
THEOREM CarryKeeps ==
    ASSUME NEW n \in Nat, n >= 2, NEW h \in [0 .. n - 1 -> Int], n = Cardinality(DOMAIN h),
           NEW i \in 0 .. n - 1,
           NEW w \in Nat \ {0}, 2 ^ w \in Nat \ {0}, 2 ^ (w - 1) \in Nat, 2 ^ w = 2 * 2 ^ (w - 1), NEW c \in Int,
           NEW g, g = Floored(h, i, w, c) \/ g = Nearest(h, i, w, c)
    PROVE  /\ g \in [0 .. n - 1 -> Int]
           /\ g = Floored(h, i, w, c) => g[i] \in 0 .. 2 ^ w - 1
           /\ g = Nearest(h, i, w, c) => g[i] \in -(2 ^ (w - 1)) .. 2 ^ (w - 1) - 1
           /\ i < n - 1 => g[i] + 2 ^ w * g[i + 1] = h[i] + 2 ^ w * h[i + 1]
           /\ i = n - 1 => \E q \in Int : h[i] = g[i] + 2 ^ w * q /\ g[0] = h[0] + c * q
           /\ \A j \in 0 .. n - 1 : j # i /\ j # (IF i = n - 1 THEN 0 ELSE i + 1) => g[j] = h[j]
<1>1. PICK p \in Nat \ {0}, half \in Nat : p = 2 ^ w /\ half = 2 ^ (w - 1) /\ p = 2 * half
  OBVIOUS
<1>2. h[i] \in Int
  OBVIOUS
<1>3. PICK low \in Int : low = h[i] \div p /\ h[i] - low * p \in 0 .. p - 1
  BY <1>2, FloorDivision
<1>4. PICK near \in Int : near = (h[i] + half) \div p /\ (h[i] + half) - near * p \in 0 .. p - 1
  <2>1. h[i] + half \in Int
    BY <1>2
  <2>. QED
    BY <2>1, FloorDivision
<1>5. /\ Floored(h, i, w, c) = Moved(h, i, w, low, c)
      /\ Nearest(h, i, w, c) = Moved(h, i, w, near, c)
  BY <1>1, <1>3, <1>4 DEF Floored, Nearest
<1>6. PICK q \in {low, near} : g = Moved(h, i, w, q, c)
  BY <1>5
<1>7. q \in Int
  BY <1>6
<1>8. /\ g \in [0 .. n - 1 -> Int]
      /\ g[i] = h[i] - q * 2 ^ w
      /\ i < n - 1 => g[i + 1] = h[i + 1] + q
      /\ i = n - 1 => g[0] = h[0] + q * c
      /\ \A j \in 0 .. n - 1 : j # i /\ j # (IF i = n - 1 THEN 0 ELSE i + 1) => g[j] = h[j]
  <2>1. Carried(g, h, n, i, w, q, c)
    BY <1>6, <1>7, MovedEffect
  <2>. QED
    BY <2>1, Zenon DEF Carried
<1>9. g = Floored(h, i, w, c) => g[i] \in 0 .. 2 ^ w - 1
  <2>1. Moved(h, i, w, low, c)[i] = h[i] - low * 2 ^ w
    <3>1. Carried(Moved(h, i, w, low, c), h, n, i, w, low, c)
      BY <1>3, MovedEffect
    <3>. QED
      BY <3>1, Zenon DEF Carried
  <2>. QED
    BY <1>1, <1>3, <1>5, <2>1
<1>10. g = Nearest(h, i, w, c) => g[i] \in -(2 ^ (w - 1)) .. 2 ^ (w - 1) - 1
  <2>1. Moved(h, i, w, near, c)[i] = h[i] - near * 2 ^ w
    <3>1. Carried(Moved(h, i, w, near, c), h, n, i, w, near, c)
      BY <1>4, MovedEffect
    <3>. QED
      BY <3>1, Zenon DEF Carried
  <2>2. near * p \in Int /\ h[i] - near * p \in -half .. half - 1
    <3>1. PICK y \in Int : y = near * p
      BY <1>4
    <3>2. PICK x \in Int : x = h[i]
      BY <1>2
    <3>3. (x + half) - y \in 0 .. 2 * half - 1
      BY <3>1, <3>2, <1>1, <1>4
    <3>4. x - y \in -half .. half - 1
      BY <3>3, <1>1
    <3>. QED
      BY <3>1, <3>2, <3>4
  <2>. QED
    BY <1>1, <1>5, <2>1, <2>2
<1>11. i < n - 1 => g[i] + 2 ^ w * g[i + 1] = h[i] + 2 ^ w * h[i + 1]
  <2> SUFFICES ASSUME i < n - 1
               PROVE  g[i] + 2 ^ w * g[i + 1] = h[i] + 2 ^ w * h[i + 1]
    OBVIOUS
  <2>1. h[i + 1] \in Int
    OBVIOUS
  <2>2. p * (h[i + 1] + q) = p * h[i + 1] + q * p /\ q * p \in Int /\ p * h[i + 1] \in Int
    BY <1>7, <2>1
  <2>. QED
    BY <1>1, <1>2, <1>8, <2>2
<1>12. i = n - 1 => \E d \in Int : h[i] = g[i] + 2 ^ w * d /\ g[0] = h[0] + c * d
  <2> SUFFICES ASSUME i = n - 1
               PROVE  h[i] = g[i] + 2 ^ w * q /\ g[0] = h[0] + c * q
    BY <1>7
  <2>1. q * p = p * q /\ q * c = c * q /\ p * q \in Int
    BY <1>7
  <2>. QED
    BY <1>1, <1>2, <1>8, <2>1
<1>. QED
  BY <1>8, <1>9, <1>10, <1>11, <1>12

-----------------------------------------------------------------------------
(* Padding (utils.c)                                                       *)

(* A byte, and a string written out, of n bytes.                           *)
Byte == 0 .. Radix - 1
IsBytes(s, n) == s \in [1 .. n -> Byte] /\ Len(s) = n

(* The step of sodium_pad for byte i from the end of the last block.       *)
PadStep(t, i, xpadlen, xlen) ==
    LET barrier == IF i = xpadlen THEN Radix - 1 ELSE 0
    IN [buf  |-> [t.buf EXCEPT ![xlen - i + 1] = Either(Masked(@, t.mask), Masked(Barrier, barrier))],
        mask |-> Either(t.mask, barrier)]

(* The step of sodium_unpad for byte i from the end.                       *)
UnpadStep(t, i, buf, padded) ==
    LET c == buf[padded - i]
        barrier == IF t.acc = 0 /\ t.len = 0 /\ c = Barrier THEN 1 ELSE 0
    IN [acc |-> Either(t.acc, c), len |-> Either(t.len, Masked(i, barrier)),
        valid |-> Either(t.valid, barrier)]

(* The states of the loop of sodium_pad, and what comes of the last.       *)
PadRun(g, buf, n, block, x) ==
    /\ g[0] = [buf |-> buf, mask |-> 0]
    /\ \A k \in 1 .. block : g[k] = PadStep(g[k - 1], k - 1, x, n + x)
    /\ sodium_pad(buf, n, block) = [ret |-> 0, len |-> n + x + 1, buf |-> g[block].buf]

(* The loop of sodium_pad, byte by byte.                                   *)
LEMMA PadSteps ==
    ASSUME NEW buf, NEW L \in Nat, IsBytes(buf, L), NEW n \in Nat, NEW block \in Nat \ {0},
           NEW x \in Nat, x = (block - 1) - (n % block), n + x < L, x < SizeMax - n
    PROVE  \E g : PadRun(g, buf, n, block, x)
<1> DEFINE A == [buf : [1 .. L -> Byte], mask : Byte]
           base == [buf |-> buf, mask |-> 0]
<1>1. Radix \in Nat \ {0} /\ 0 \in Byte /\ Radix - 1 \in Byte /\ Barrier \in Byte
  BY BytesAssumption DEF Byte
<1>2. base \in A
  BY <1>1 DEF IsBytes
<1>3. \A t \in A, k \in 1 .. block : PadStep(t, k - 1, x, n + x) \in A
  <2> SUFFICES ASSUME NEW t \in A, NEW k \in 1 .. block
               PROVE  PadStep(t, k - 1, x, n + x) \in A
    OBVIOUS
  <2>1. \A b, m \in Byte : Either(b, m) \in Byte /\ Masked(b, m) \in Byte
    BY <1>1 DEF Either, Masked
  <2>2. PICK p : p = (n + x) - (k - 1) + 1
    OBVIOUS
  <2>3. PICK v \in Byte : v = IF k - 1 = x THEN Radix - 1 ELSE 0
    BY <1>1
  <2>4. [t.buf EXCEPT ![p] = Either(Masked(@, t.mask), Masked(Barrier, v))] \in [1 .. L -> Byte]
    BY <1>1, <2>1
  <2>5. Either(t.mask, v) \in Byte
    BY <2>1
  <2>. QED
    BY <2>2, <2>3, <2>4, <2>5 DEF PadStep
<1> HIDE DEF A, base
<1> DEFINE F == [p \in A \X (1 .. block) |-> PadStep(p[1], p[2] - 1, x, n + x)]
<1>4. F \in [A \X (1 .. block) -> A]
  BY <1>3
<1>5. \A t \in A, k \in 1 .. block : F[<<t, k>>] = PadStep(t, k - 1, x, n + x)
  OBVIOUS
<1> HIDE DEF F
<1>6. PICK iter \in [SUBSET (1 .. block) -> A] : LeftFold(iter, block, base, F)
  BY <1>2, <1>4, LeftExists
<1> DEFINE seq == [i \in 1 .. block |-> i - 1]
           y == (block - 1) - (n % block)
           Eq(f) == f = [S \in SUBSET (DOMAIN seq) |->
                           IF S = {} THEN [buf |-> buf, mask |-> 0]
                           ELSE PadStep(f[S \ {Max(S)}], seq[Max(S)], y, n + y)]
           h == CHOOSE f : Eq(f)
<1>7. DOMAIN seq = 1 .. block /\ \A k \in 1 .. block : seq[k] = k - 1
  OBVIOUS
<1>8. sodium_pad(buf, n, block) = [ret |-> 0, len |-> n + x + 1, buf |-> h[DOMAIN seq].buf]
  <2>1. block # 0 /\ ~(SizeMax - n <= y) /\ ~(n + y >= Len(buf))
    BY BytesAssumption DEF IsBytes
  <2>2. sodium_pad(buf, n, block) = [ret |-> 0, len |-> n + y + 1, buf |-> h[DOMAIN seq].buf]
    BY <2>1 DEF sodium_pad, PadStep, FoldLeft, MapThenFoldSet
  <2>. QED
    BY <2>2
<1>9. Eq(h)
  <2>1. \A S \in SUBSET (1 .. block) : S # {} => S \ {Max(S)} \in SUBSET (1 .. block) /\ Max(S) \in 1 .. block
    BY Largest
  <2>4. y = x /\ base = [buf |-> buf, mask |-> 0]
    BY DEF base
  <2> HIDE DEF seq, y
  <2>2. \A S \in SUBSET (1 .. block) : S # {} => F[<<iter[S \ {Max(S)}], Max(S)>>]
                                                  = PadStep(iter[S \ {Max(S)}], seq[Max(S)], x, n + x)
    BY <1>5, <1>7, <2>1
  <2>3. Eq(iter)
    BY <1>6, <1>7, <2>2, <2>4 DEF LeftFold
  <2>. QED
    BY <2>3, Zenon
<1>12. y = x
  OBVIOUS
<1> HIDE DEF seq, h, y
<1>10. h[1 .. 0] = base /\ \A k \in 1 .. block : h[1 .. k] = PadStep(h[1 .. k - 1], k - 1, x, n + x)
  <2>1. h[1 .. 0] = base
    BY <1>7, <1>9 DEF base
  <2>2. ASSUME NEW k \in 1 .. block
        PROVE  h[1 .. k] = PadStep(h[1 .. k - 1], k - 1, x, n + x)
    <3>1. PICK S : S = 1 .. k
      OBVIOUS
    <3>2. S \in SUBSET (1 .. block) /\ S # {} /\ Max(S) = k /\ S \ {k} = 1 .. k - 1
      BY <3>1, LargestOf
    <3>3. h[S] = PadStep(h[S \ {Max(S)}], seq[Max(S)], x, n + x)
      BY <1>7, <1>9, <1>12, <3>2
    <3>4. h[S] = PadStep(h[1 .. k - 1], k - 1, x, n + x)
      BY <1>7, <3>2, <3>3
    <3>. QED
      BY <3>1, <3>4
  <2>. QED
    BY <2>1, <2>2
<1> DEFINE g == [k \in 0 .. block |-> h[1 .. k]]
<1>11. /\ g[0] = [buf |-> buf, mask |-> 0]
       /\ \A k \in 1 .. block : g[k] = PadStep(g[k - 1], k - 1, x, n + x)
       /\ sodium_pad(buf, n, block) = [ret |-> 0, len |-> n + x + 1, buf |-> g[block].buf]
  BY <1>7, <1>8, <1>10 DEF base
<1> HIDE DEF g
<1>. QED
  BY <1>11 DEF PadRun

(* The byte at p after padding: the message, the barrier, then zeros.      *)
PaddedByte(buf, n, p) == IF p > n + 1 THEN 0 ELSE IF p = n + 1 THEN Barrier ELSE buf[p]

(* After k bytes from the end, those are done and the others as they were. *)
PadState(t, buf, L, n, x, k) ==
    /\ t.buf \in [1 .. L -> Byte]
    /\ t.mask = IF k <= x THEN 0 ELSE Radix - 1
    /\ \A p \in 1 .. L : t.buf[p] = IF p > n + x + 1 - k /\ p <= n + x + 1 THEN PaddedByte(buf, n, p) ELSE buf[p]

(* One more byte is done.                                                  *)
LEMMA PadMore ==
    ASSUME NEW buf, NEW L \in Nat, buf \in [1 .. L -> Byte], NEW n \in Nat, NEW x \in Nat, n + x < L,
           NEW k \in 0 .. n + x, NEW t, PadState(t, buf, L, n, x, k)
    PROVE  PadState(PadStep(t, k, x, n + x), buf, L, n, x, k + 1)
<1>1. Radix \in Nat /\ Radix > 1 /\ Barrier \in 1 .. Radix - 1
  BY BytesAssumption
<1>2. PICK P \in 1 .. L : P = n + x - k + 1
  OBVIOUS
<1>3. PICK v : v = IF k = x THEN Radix - 1 ELSE 0
  OBVIOUS
<1>4. PICK e : e = Either(Masked(t.buf[P], t.mask), Masked(Barrier, v))
  OBVIOUS
<1>5. t.buf[P] = buf[P] /\ buf[P] \in Nat /\ t.buf[P] \in Byte
  BY <1>2 DEF PadState, Byte
<1>6. e = PaddedByte(buf, n, P)
  <2>1. CASE k < x
    <3>1. P > n + 1 /\ t.mask = 0 /\ v = 0
      BY <1>2, <1>3, <2>1 DEF PadState
    <3>. QED
      BY <1>4, <3>1 DEF PaddedByte, Either, Masked
  <2>2. CASE k = x
    <3>1. P = n + 1 /\ t.mask = 0 /\ v # 0
      BY <1>1, <1>2, <1>3, <2>2 DEF PadState
    <3>. QED
      BY <1>4, <3>1 DEF PaddedByte, Either, Masked
  <2>3. CASE k > x
    <3>1. P < n + 1 /\ t.mask # 0 /\ v = 0
      BY <1>1, <1>2, <1>3, <2>3 DEF PadState
    <3>. QED
      BY <1>4, <1>5, <3>1 DEF PaddedByte, Either, Masked
  <2>. QED
    BY <2>1, <2>2, <2>3
<1>7. e \in Byte
  BY <1>1, <1>5, <1>6 DEF PaddedByte, Byte
<1>8. PICK u : u = PadStep(t, k, x, n + x)
  OBVIOUS
<1>9. u.buf = [t.buf EXCEPT ![P] = e] /\ u.mask = Either(t.mask, v)
  BY <1>2, <1>3, <1>4, <1>8 DEF PadStep
<1>10. u.mask = IF k + 1 <= x THEN 0 ELSE Radix - 1
  <2>1. t.mask = IF k <= x THEN 0 ELSE Radix - 1
    BY DEF PadState
  <2>. QED
    BY <1>1, <1>3, <1>9, <2>1 DEF Either
<1>11. t.buf \in [1 .. L -> Byte]
  BY DEF PadState
<1>12. u.buf \in [1 .. L -> Byte] /\ \A p \in 1 .. L : u.buf[p] = IF p = P THEN e ELSE t.buf[p]
  BY <1>7, <1>9, <1>11
<1>13. \A p \in 1 .. L : u.buf[p] = IF p > n + x + 1 - (k + 1) /\ p <= n + x + 1 THEN PaddedByte(buf, n, p) ELSE buf[p]
  <2> SUFFICES ASSUME NEW p \in 1 .. L
               PROVE  u.buf[p] = IF p > n + x + 1 - (k + 1) /\ p <= n + x + 1 THEN PaddedByte(buf, n, p) ELSE buf[p]
    OBVIOUS
  <2>1. t.buf[p] = IF p > n + x + 1 - k /\ p <= n + x + 1 THEN PaddedByte(buf, n, p) ELSE buf[p]
    BY DEF PadState
  <2>2. PICK z : z = PaddedByte(buf, n, p)
    OBVIOUS
  <2>3. p = P => e = z
    BY <1>6, <2>2
  <2>. QED
    BY <1>2, <1>12, <2>1, <2>2, <2>3
<1>. QED
  BY <1>8, <1>10, <1>12, <1>13 DEF PadState

(* What sodium_pad answers where the padding fits.                         *)
PadGives(a, buf, L, n, x) ==
    \E out \in [1 .. L -> Byte] :
        /\ a = [ret |-> 0, len |-> n + x + 1, buf |-> out]
        /\ \A p \in 1 .. L : out[p] = IF p <= n + x + 1 THEN PaddedByte(buf, n, p) ELSE buf[p]

LEMMA PadEffect ==
    ASSUME NEW buf, NEW L \in Nat, IsBytes(buf, L), NEW n \in Nat, NEW block \in Nat \ {0},
           NEW x \in Nat, x = (block - 1) - (n % block), n + x < L, x < SizeMax - n
    PROVE  PadGives(sodium_pad(buf, n, block), buf, L, n, x)
<1>0. PICK g : PadRun(g, buf, n, block, x)
  BY PadSteps
<1>1. /\ g[0] = [buf |-> buf, mask |-> 0]
      /\ \A k \in 1 .. block : g[k] = PadStep(g[k - 1], k - 1, x, n + x)
      /\ sodium_pad(buf, n, block) = [ret |-> 0, len |-> n + x + 1, buf |-> g[block].buf]
  BY <1>0 DEF PadRun
<1> DEFINE S == {k \in 0 .. block : PadState(g[k], buf, L, n, x, k)}
<1>2. 0 \in S
  BY <1>1 DEF IsBytes, PadState
<1>3. block - 1 <= n + x /\ n % block \in 0 .. block - 1
  OBVIOUS
<1>4. \A k \in 0 .. block - 1 : k \in S => k + 1 \in S
  <2> SUFFICES ASSUME NEW k \in 0 .. block - 1, PadState(g[k], buf, L, n, x, k)
               PROVE  PadState(g[k + 1], buf, L, n, x, k + 1)
    OBVIOUS
  <2>1. g[k + 1] = PadStep(g[k], k, x, n + x)
    BY <1>1
  <2>. QED
    BY <1>3, <2>1, PadMore DEF IsBytes
<1>5. block \in S
  <2> HIDE DEF S
  <2>1. 0 .. block \subseteq S
    BY <1>2, <1>4, UpTo
  <2>. QED
    BY <2>1
<1>6. PICK out : out = g[block].buf
  OBVIOUS
<1>7. /\ out \in [1 .. L -> Byte]
      /\ \A p \in 1 .. L : out[p] = IF p > n + x + 1 - block /\ p <= n + x + 1 THEN PaddedByte(buf, n, p) ELSE buf[p]
  BY <1>5, <1>6 DEF PadState
<1>8. \A p \in 1 .. L : p <= n + x + 1 - block => PaddedByte(buf, n, p) = buf[p]
  BY <1>3 DEF PaddedByte
<1>9. \A p \in 1 .. L : out[p] = IF p <= n + x + 1 THEN PaddedByte(buf, n, p) ELSE buf[p]
  <2> SUFFICES ASSUME NEW p \in 1 .. L
               PROVE  out[p] = IF p <= n + x + 1 THEN PaddedByte(buf, n, p) ELSE buf[p]
    OBVIOUS
  <2>1. PICK z : z = PaddedByte(buf, n, p)
    OBVIOUS
  <2>. QED
    BY <1>7, <1>8, <2>1
<1>. QED
  BY <1>1, <1>6, <1>7, <1>9 DEF PadGives

(* The states of the loop of sodium_unpad, and what comes of the last.     *)
UnpadRun(g, buf, padded, block) ==
    /\ g[0] = [acc |-> 0, len |-> 0, valid |-> 0]
    /\ \A k \in 1 .. block : g[k] = UnpadStep(g[k - 1], k - 1, buf, padded)
    /\ sodium_unpad(buf, padded, block) = [ret |-> g[block].valid - 1, len |-> (padded - 1) - g[block].len]

(* The loop of sodium_unpad, byte by byte.                                 *)
LEMMA UnpadSteps ==
    ASSUME NEW buf, NEW L \in Nat, buf \in [1 .. L -> Byte], NEW padded \in 0 .. L, NEW block \in 1 .. padded
    PROVE  \E g : UnpadRun(g, buf, padded, block)
<1> DEFINE A == [acc : Byte, len : Nat, valid : {0, 1}]
           base == [acc |-> 0, len |-> 0, valid |-> 0]
<1>0. block \in Nat
  OBVIOUS
<1>1. 0 \in Byte
  BY BytesAssumption DEF Byte
<1>2. base \in A
  BY <1>1
<1>3. \A t \in A, k \in 1 .. block : UnpadStep(t, k - 1, buf, padded) \in A
  <2> SUFFICES ASSUME NEW t \in A, NEW k \in 1 .. block
               PROVE  UnpadStep(t, k - 1, buf, padded) \in A
    OBVIOUS
  <2>1. PICK c \in Byte : c = buf[padded - (k - 1)]
    OBVIOUS
  <2>2. PICK v \in {0, 1} : v = IF t.acc = 0 /\ t.len = 0 /\ c = Barrier THEN 1 ELSE 0
    OBVIOUS
  <2>3. Either(t.acc, c) \in Byte /\ Either(t.valid, v) \in {0, 1} /\ Either(t.len, Masked(k - 1, v)) \in Nat
    BY <2>1, <2>2 DEF Either, Masked
  <2>. QED
    BY <2>1, <2>2, <2>3 DEF UnpadStep
<1> HIDE DEF A, base
<1> DEFINE F == [p \in A \X (1 .. block) |-> UnpadStep(p[1], p[2] - 1, buf, padded)]
<1>4. F \in [A \X (1 .. block) -> A]
  BY <1>3
<1>5. \A t \in A, k \in 1 .. block : F[<<t, k>>] = UnpadStep(t, k - 1, buf, padded)
  OBVIOUS
<1> HIDE DEF F
<1>6. PICK iter \in [SUBSET (1 .. block) -> A] : LeftFold(iter, block, base, F)
  BY <1>0, <1>2, <1>4, LeftExists
<1> DEFINE seq == [i \in 1 .. block |-> i - 1]
           Eq(f) == f = [S \in SUBSET (DOMAIN seq) |->
                           IF S = {} THEN [acc |-> 0, len |-> 0, valid |-> 0]
                           ELSE UnpadStep(f[S \ {Max(S)}], seq[Max(S)], buf, padded)]
           h == CHOOSE f : Eq(f)
<1>7. DOMAIN seq = 1 .. block /\ \A k \in 1 .. block : seq[k] = k - 1
  OBVIOUS
<1>8. sodium_unpad(buf, padded, block)
        = [ret |-> h[DOMAIN seq].valid - 1, len |-> (padded - 1) - h[DOMAIN seq].len]
  <2>1. ~(padded < block) /\ ~(block = 0)
    OBVIOUS
  <2>. QED
    BY <2>1 DEF sodium_unpad, UnpadStep, FoldLeft, MapThenFoldSet
<1>9. Eq(h)
  <2>1. \A S \in SUBSET (1 .. block) : S # {} => S \ {Max(S)} \in SUBSET (1 .. block) /\ Max(S) \in 1 .. block
    BY <1>0, Largest
  <2>4. base = [acc |-> 0, len |-> 0, valid |-> 0]
    BY DEF base
  <2> HIDE DEF seq
  <2>2. \A S \in SUBSET (1 .. block) : S # {} => F[<<iter[S \ {Max(S)}], Max(S)>>]
                                                  = UnpadStep(iter[S \ {Max(S)}], seq[Max(S)], buf, padded)
    BY <1>5, <1>7, <2>1
  <2>3. Eq(iter)
    BY <1>6, <1>7, <2>2, <2>4 DEF LeftFold
  <2>. QED
    BY <2>3, Zenon
<1> HIDE DEF seq, h
<1>10. h[1 .. 0] = base /\ \A k \in 1 .. block : h[1 .. k] = UnpadStep(h[1 .. k - 1], k - 1, buf, padded)
  <2>1. h[1 .. 0] = base
    BY <1>7, <1>9 DEF base
  <2>2. ASSUME NEW k \in 1 .. block
        PROVE  h[1 .. k] = UnpadStep(h[1 .. k - 1], k - 1, buf, padded)
    <3>1. PICK S : S = 1 .. k
      OBVIOUS
    <3>2. S \in SUBSET (1 .. block) /\ S # {} /\ Max(S) = k /\ S \ {k} = 1 .. k - 1
      BY <1>0, <3>1, LargestOf
    <3>3. h[S] = UnpadStep(h[S \ {Max(S)}], seq[Max(S)], buf, padded)
      BY <1>7, <1>9, <3>2
    <3>4. h[S] = UnpadStep(h[1 .. k - 1], k - 1, buf, padded)
      BY <1>7, <3>2, <3>3
    <3>. QED
      BY <3>1, <3>4
  <2>. QED
    BY <2>1, <2>2
<1> DEFINE g == [k \in 0 .. block |-> h[1 .. k]]
<1>11. /\ g[0] = [acc |-> 0, len |-> 0, valid |-> 0]
       /\ \A k \in 1 .. block : g[k] = UnpadStep(g[k - 1], k - 1, buf, padded)
       /\ sodium_unpad(buf, padded, block) = [ret |-> g[block].valid - 1, len |-> (padded - 1) - g[block].len]
  BY <1>7, <1>8, <1>10 DEF base
<1> HIDE DEF g
<1>. QED
  BY <1>11 DEF UnpadRun

(* The last byte that is not zero is j before the last.                    *)
LastAt(buf, padded, j) == buf[padded - j] # 0 /\ \A i \in 0 .. j - 1 : buf[padded - i] = 0

(* The first of the bytes from the end that is not zero decides.           *)
UnpadState(t, buf, padded, k) ==
    \/ (\A i \in 0 .. k - 1 : buf[padded - i] = 0) /\ t.acc = 0 /\ t.len = 0 /\ t.valid = 0
    \/ \E j \in 0 .. k - 1 :
          /\ LastAt(buf, padded, j)
          /\ t.acc = buf[padded - j]
          /\ t.valid = IF buf[padded - j] = Barrier THEN 1 ELSE 0
          /\ t.valid = 1 => t.len = j

(* One more byte is looked at.                                             *)
LEMMA UnpadMore ==
    ASSUME NEW buf, NEW padded \in Nat, NEW k \in Nat, k < padded, NEW t, UnpadState(t, buf, padded, k)
    PROVE  UnpadState(UnpadStep(t, k, buf, padded), buf, padded, k + 1)
<1>1. Barrier # 0
  BY BytesAssumption
<1>2. PICK c : c = buf[padded - k]
  OBVIOUS
<1>3. PICK v : v = IF t.acc = 0 /\ t.len = 0 /\ c = Barrier THEN 1 ELSE 0
  OBVIOUS
<1>4. PICK u : u = UnpadStep(t, k, buf, padded)
  OBVIOUS
<1>5. u.acc = Either(t.acc, c) /\ u.len = Either(t.len, Masked(k, v)) /\ u.valid = Either(t.valid, v)
  BY <1>2, <1>3, <1>4 DEF UnpadStep
<1>6. CASE (\A i \in 0 .. k - 1 : buf[padded - i] = 0) /\ t.acc = 0 /\ t.len = 0 /\ t.valid = 0
  <2>1. u.acc = c /\ u.valid = v /\ u.len = Masked(k, v)
    BY <1>5, <1>6 DEF Either
  <2>2. CASE c = 0
    <3>1. u.acc = 0 /\ u.valid = 0 /\ u.len = 0
      BY <1>1, <1>3, <2>1, <2>2 DEF Masked
    <3>2. ASSUME NEW i \in 0 .. (k + 1) - 1
          PROVE  buf[padded - i] = 0
      <4>1. CASE i = k
        BY <1>2, <2>2, <4>1
      <4>2. CASE i # k
        <5>1. i \in 0 .. k - 1
          BY <4>2
        <5>. QED
          BY <1>6, <5>1
      <4>. QED
        BY <4>1, <4>2
    <3>. QED
      BY <1>4, <3>1, <3>2 DEF UnpadState
  <2>3. CASE c # 0
    <3>1. LastAt(buf, padded, k) /\ k \in 0 .. (k + 1) - 1
      BY <1>2, <1>6, <2>3 DEF LastAt
    <3>2. u.acc = buf[padded - k] /\ u.valid = IF buf[padded - k] = Barrier THEN 1 ELSE 0
      BY <1>2, <1>3, <1>6, <2>1
    <3>3. u.valid = 1 => u.len = k
      BY <2>1 DEF Masked
    <3>. QED
      BY <1>4, <3>1, <3>2, <3>3 DEF UnpadState
  <2>. QED
    BY <2>2, <2>3
<1>7. ASSUME NEW j \in 0 .. k - 1, LastAt(buf, padded, j), t.acc = buf[padded - j],
             t.valid = IF buf[padded - j] = Barrier THEN 1 ELSE 0, t.valid = 1 => t.len = j
      PROVE  UnpadState(u, buf, padded, k + 1)
  <2>1. t.acc # 0 /\ v = 0
    BY <1>3, <1>7 DEF LastAt
  <2>2. u.acc = t.acc /\ u.valid = t.valid /\ u.len = t.len
    BY <1>5, <1>7, <2>1 DEF Either, Masked
  <2>3. j \in 0 .. (k + 1) - 1
    OBVIOUS
  <2>. QED
    BY <1>7, <2>2, <2>3 DEF UnpadState
<1>. QED
  BY <1>4, <1>6, <1>7 DEF UnpadState

(* What sodium_unpad answers.                                              *)
UnpadRight(r, buf, padded, block) ==
    /\ r.ret = 0 <=> \E j \in 0 .. block - 1 : LastAt(buf, padded, j) /\ buf[padded - j] = Barrier
    /\ \A j \in 0 .. block - 1 : LastAt(buf, padded, j) /\ buf[padded - j] = Barrier => r = [ret |-> 0, len |-> (padded - 1) - j]

(* sodium_unpad looks at the last byte that is not zero.                   *)
LEMMA UnpadEffect ==
    ASSUME NEW buf, NEW L \in Nat, buf \in [1 .. L -> Byte], NEW padded \in 0 .. L, NEW block \in 1 .. padded
    PROVE  UnpadRight(sodium_unpad(buf, padded, block), buf, padded, block)
<1>0. PICK g : UnpadRun(g, buf, padded, block)
  BY UnpadSteps
<1>1. /\ g[0] = [acc |-> 0, len |-> 0, valid |-> 0]
      /\ \A k \in 1 .. block : g[k] = UnpadStep(g[k - 1], k - 1, buf, padded)
      /\ sodium_unpad(buf, padded, block) = [ret |-> g[block].valid - 1, len |-> (padded - 1) - g[block].len]
  BY <1>0 DEF UnpadRun
<1> DEFINE S == {k \in 0 .. block : UnpadState(g[k], buf, padded, k)}
<1>2. 0 \in S
  BY <1>1 DEF UnpadState
<1>3. \A k \in 0 .. block - 1 : k \in S => k + 1 \in S
  <2> SUFFICES ASSUME NEW k \in 0 .. block - 1, UnpadState(g[k], buf, padded, k)
               PROVE  UnpadState(g[k + 1], buf, padded, k + 1)
    OBVIOUS
  <2>1. g[k + 1] = UnpadStep(g[k], k, buf, padded)
    BY <1>1
  <2>2. padded \in Nat /\ k \in Nat /\ k < padded
    OBVIOUS
  <2>. QED
    BY <2>1, <2>2, UnpadMore
<1>4. block \in S
  <2> HIDE DEF S
  <2>1. block \in Nat
    OBVIOUS
  <2>2. 0 .. block \subseteq S
    BY <1>2, <1>3, <2>1, UpTo
  <2>. QED
    BY <2>1, <2>2
<1>5. PICK t, r : t = g[block] /\ r = [ret |-> t.valid - 1, len |-> (padded - 1) - t.len]
                  /\ r = sodium_unpad(buf, padded, block)
  BY <1>1
<1>6. UnpadState(t, buf, padded, block)
  BY <1>4, <1>5
<1>7. CASE (\A i \in 0 .. block - 1 : buf[padded - i] = 0) /\ t.acc = 0 /\ t.len = 0 /\ t.valid = 0
  <2>1. r.ret # 0
    BY <1>5, <1>7
  <2>2. \A j \in 0 .. block - 1 : ~LastAt(buf, padded, j)
    BY <1>7 DEF LastAt
  <2>. QED
    BY <1>5, <2>1, <2>2 DEF UnpadRight
<1>8. ASSUME NEW j \in 0 .. block - 1, LastAt(buf, padded, j), t.acc = buf[padded - j],
             t.valid = IF buf[padded - j] = Barrier THEN 1 ELSE 0, t.valid = 1 => t.len = j
      PROVE  UnpadRight(r, buf, padded, block)
  <2>1. \A k \in 0 .. block - 1 : LastAt(buf, padded, k) => k = j
    <3> SUFFICES ASSUME NEW k \in 0 .. block - 1, LastAt(buf, padded, k), k # j
                 PROVE  FALSE
      OBVIOUS
    <3>1. CASE k < j
      <4>1. k \in 0 .. j - 1
        BY <3>1
      <4>. QED
        BY <1>8, <4>1 DEF LastAt
    <3>2. CASE j < k
      <4>1. j \in 0 .. k - 1
        BY <3>2
      <4>. QED
        BY <1>8, <4>1 DEF LastAt
    <3>. QED
      BY <3>1, <3>2
  <2>2. CASE buf[padded - j] = Barrier
    <3>1. t.valid = 1 /\ t.len = j
      BY <1>8, <2>2
    <3>2. r = [ret |-> 0, len |-> (padded - 1) - j]
      BY <1>5, <3>1
    <3>3. r.ret = 0
      BY <3>2
    <3>. QED
      BY <1>8, <2>1, <2>2, <3>2, <3>3 DEF UnpadRight
  <2>3. CASE buf[padded - j] # Barrier
    <3>1. t.valid = 0
      BY <1>8, <2>3
    <3>2. r.ret # 0
      BY <1>5, <3>1
    <3>. QED
      BY <1>8, <2>1, <2>3, <3>2 DEF UnpadRight
  <2>. QED
    BY <2>2, <2>3
<1>. QED
  BY <1>5, <1>6, <1>7, <1>8 DEF UnpadState

(* A message with its barrier and k zeros.                                 *)
Ended(a, k) == a \o <<Barrier>> \o Null(k)

(* The same byte by byte.                                                  *)
EndedBytes(s, a, n, k) ==
    /\ IsCells(s) /\ Len(s) = n + 1 + k
    /\ \A p \in 1 .. n + 1 + k : s[p] = IF p <= n THEN a[p] ELSE IF p = n + 1 THEN Barrier ELSE 0

LEMMA EndedIs ==
    ASSUME NEW a, IsCells(a), NEW n \in Nat, Len(a) = n, NEW k \in Nat
    PROVE  EndedBytes(Ended(a, k), a, n, k)
<1>1. PICK b, z : b = <<Barrier>> /\ z = Null(k)
  OBVIOUS
<1>2. IsCells(b) /\ Len(b) = 1 /\ b[1] = Barrier
  BY <1>1 DEF IsCells
<1>3. z = [i \in 1 .. k |-> z[i]] /\ \A i \in 1 .. k : z[i] = 0
  BY <1>1 DEF Null
<1>4. IsCells(z) /\ Len(z) = k
  BY <1>3, MadeCells
<1>5. PICK ab : ab = a \o b
  OBVIOUS
<1>6. Joins(a \o b, a, n, b, 1)
  BY <1>2, JoinedTo
<1>7. IsCells(ab) /\ Len(ab) = n + 1 /\ \A p \in 1 .. n + 1 : ab[p] = IF p <= n THEN a[p] ELSE b[p - n]
  BY <1>5, <1>6 DEF Joins
<1>8. PICK l \in Nat : l = n + 1
  OBVIOUS
<1>9. Joins(ab \o z, ab, l, z, k)
  BY <1>4, <1>7, <1>8, JoinedTo
<1>10. PICK s : s = ab \o z
  OBVIOUS
<1>11. IsCells(s) /\ Len(s) = l + k /\ \A p \in 1 .. l + k : s[p] = IF p <= l THEN ab[p] ELSE z[p - l]
  BY <1>9, <1>10 DEF Joins
<1>12. ASSUME NEW p \in 1 .. n + 1 + k
       PROVE  s[p] = IF p <= n THEN a[p] ELSE IF p = n + 1 THEN Barrier ELSE 0
  <2>1. p \in 1 .. l + k
    BY <1>8
  <2>2. CASE p <= n
    <3>1. p \in 1 .. n + 1 /\ p <= l
      BY <1>8, <2>2
    <3>. QED
      BY <1>7, <1>11, <2>1, <2>2, <3>1
  <2>3. CASE p = n + 1
    <3>1. p \in 1 .. n + 1 /\ p <= l /\ ~(p <= n) /\ p - n = 1
      BY <1>8, <2>3
    <3>. QED
      BY <1>2, <1>7, <1>11, <2>1, <3>1
  <2>4. CASE p > n + 1
    <3>1. p - l \in 1 .. k /\ ~(p <= l) /\ ~(p <= n) /\ p # n + 1
      BY <1>8, <2>1, <2>4
    <3>. QED
      BY <1>3, <1>11, <2>1, <2>4, <3>1
  <2>. QED
    BY <2>2, <2>3, <2>4
<1>. QED
  BY <1>1, <1>5, <1>8, <1>10, <1>11, <1>12 DEF Ended, EndedBytes

(* A text of bytes is one of cells, and a buffer with room after it.       *)
LEMMA TextCells ==
    ASSUME NEW text \in Seq(Byte)
    PROVE  IsCells(text) /\ text \in [1 .. Len(text) -> Byte]
BY DEF IsCells

(* PaddingComesOff of a call that pads, and of one that takes padding off. *)
PadRight(text, block, spare, a) ==
    IF block # 0 /\ Len(Padded(text, block)) <= Len(text) + spare
    THEN /\ a.ret = 0
         /\ SubSeq(a.buf, 1, a.len) = Padded(text, block)
         /\ \A i \in a.len + 1 .. Len(a.buf) : a.buf[i] = Radix - 1
         /\ sodium_unpad(a.buf, a.len, block) = [ret |-> 0, len |-> Len(text)]
    ELSE a.ret # 0

(* A buffer that was padded.                                               *)
PaddedOut(out, len, text, n, L) ==
    /\ out \in [1 .. L -> Byte] /\ len \in 1 .. L
    /\ \A p \in 1 .. L : out[p] = IF p > len THEN Radix - 1 ELSE IF p <= n THEN text[p] ELSE IF p = n + 1 THEN Barrier ELSE 0

(* It begins with the padded message, and the padding comes off.           *)
TakesOff(out, len, text, n, x, block) ==
    /\ SubSeq(out, 1, len) = Ended(text, x)
    /\ \A i \in len + 1 .. Len(out) : out[i] = Radix - 1
    /\ sodium_unpad(out, len, block) = [ret |-> 0, len |-> n]

LEMMA PaddedRight ==
    ASSUME NEW text, IsCells(text), NEW n \in Nat, n = Len(text), NEW L \in Nat, NEW out, NEW len,
           PaddedOut(out, len, text, n, L), NEW x \in Nat, len = n + x + 1,
           NEW block \in 1 .. len, x <= block - 1
    PROVE  TakesOff(out, len, text, n, x, block)
<1>1. out \in [1 .. L -> Byte] /\ len \in 1 .. L
  BY DEF PaddedOut
<1>2. out \in Seq(Byte) /\ Len(out) = L
  BY <1>1
<1>3. \A p \in 1 .. len : out[p] = IF p <= n THEN text[p] ELSE IF p = n + 1 THEN Barrier ELSE 0
  BY DEF PaddedOut
<1>4. SubSeq(out, 1, len) = Ended(text, x)
  <2>1. PICK s : s = SubSeq(out, 1, len)
    OBVIOUS
  <2>2. IsCells(s) /\ Len(s) = len /\ \A p \in 1 .. len : s[p] = out[p]
    BY <1>1, <1>2, <2>1 DEF IsCells
  <2>3. PICK e : e = Ended(text, x)
    OBVIOUS
  <2>4. EndedBytes(e, text, n, x)
    BY <2>3, EndedIs
  <2>5. len = n + 1 + x
    OBVIOUS
  <2>6. IsCells(e) /\ Len(e) = len /\ \A p \in 1 .. len : e[p] = s[p]
    BY <1>3, <2>2, <2>4, <2>5 DEF EndedBytes
  <2>7. s = e
    BY <2>2, <2>6 DEF IsCells
  <2>. QED
    BY <2>1, <2>3, <2>7
<1>5. \A i \in len + 1 .. Len(out) : out[i] = Radix - 1
  BY <1>2 DEF PaddedOut
<1>6. sodium_unpad(out, len, block) = [ret |-> 0, len |-> n]
  <2>1. UnpadRight(sodium_unpad(out, len, block), out, len, block)
    <3>. len \in 0 .. L
      BY <1>1
    <3>. QED
      BY <1>1, UnpadEffect
  <2>2. len - x = n + 1 /\ len - x \in 1 .. len /\ (len - 1) - x = n /\ x \in 0 .. block - 1
    BY <1>1
  <2>3. LastAt(out, len, x) /\ out[len - x] = Barrier
    <3>1. out[len - x] = Barrier
      BY <1>3, <2>2
    <3>2. ASSUME NEW i \in 0 .. x - 1
          PROVE  out[len - i] = 0
      <4>1. len - i \in 1 .. len /\ ~(len - i <= n) /\ len - i # n + 1
        BY <1>1
      <4>. QED
        BY <1>3, <4>1
    <3>3. Barrier # 0
      BY BytesAssumption
    <3>. QED
      BY <3>1, <3>2, <3>3 DEF LastAt
  <2>. QED
    BY <2>1, <2>2, <2>3 DEF UnpadRight
<1>. QED
  BY <1>4, <1>5, <1>6 DEF TakesOff

(* Padding fills the last block.                                           *)
LEMMA FillsBlock ==
    ASSUME NEW n \in Nat, NEW block \in Nat \ {0}, NEW x, x = (block - 1) - (n % block)
    PROVE  x \in Nat /\ x <= block - 1 /\ block <= n + x + 1
OBVIOUS

(* Padding that fits.                                                      *)
PadFitted(a, text, n, L, x) ==
    \E out, len : a = [ret |-> 0, len |-> len, buf |-> out] /\ PaddedOut(out, len, text, n, L) /\ len = n + x + 1

LEMMA PadFits ==
    ASSUME NEW text, IsCells(text), NEW n \in Nat, n = Len(text), text \in [1 .. n -> Byte], NEW L \in Nat, L <= SizeMax,
           NEW block \in Nat \ {0}, NEW x \in Nat, x = (block - 1) - (n % block), n + x < L,
           NEW buf, IsBytes(buf, L), \A i \in 1 .. L : buf[i] = IF i <= n THEN text[i] ELSE Radix - 1
    PROVE  PadFitted(sodium_pad(buf, n, block), text, n, L, x)
<1>1. x < SizeMax - n
  BY BytesAssumption
<1>2. PadGives(sodium_pad(buf, n, block), buf, L, n, x)
  BY <1>1, PadEffect
<1>3. PICK len \in 1 .. L : len = n + x + 1
  OBVIOUS
<1>4. PICK out \in [1 .. L -> Byte] :
              /\ sodium_pad(buf, n, block) = [ret |-> 0, len |-> len, buf |-> out]
              /\ \A p \in 1 .. L : out[p] = IF p <= len THEN PaddedByte(buf, n, p) ELSE buf[p]
  BY <1>2, <1>3 DEF PadGives
<1>5. ASSUME NEW p \in 1 .. L
      PROVE  out[p] = IF p > len THEN Radix - 1 ELSE IF p <= n THEN text[p] ELSE IF p = n + 1 THEN Barrier ELSE 0
  <2>1. buf[p] = IF p <= n THEN text[p] ELSE Radix - 1
    OBVIOUS
  <2>2. out[p] = IF p <= len THEN PaddedByte(buf, n, p) ELSE buf[p]
    BY <1>4
  <2>3. p \in Nat /\ n < len
    BY <1>3
  <2>. QED
    BY <2>1, <2>2, <2>3 DEF PaddedByte
<1>. QED
  BY <1>3, <1>4, <1>5 DEF PaddedOut, PadFitted

(* A call that pads is answered rightly.                                   *)
LEMMA PadAnswers ==
    ASSUME NEW text \in Seq(Byte), NEW block \in Nat, NEW spare \in Nat, Len(text) + spare <= SizeMax
    PROVE  PadRight(text, block, spare, sodium_pad(text \o [i \in 1 .. spare |-> Radix - 1], Len(text), block))
<1>1. Radix \in Nat /\ Radix > 1 /\ SizeMax \in Nat
  BY BytesAssumption
<1>2. PICK n \in Nat : n = Len(text)
  OBVIOUS
<1>3. PICK L \in Nat : L = n + spare
  OBVIOUS
<1>4. PICK room : room = [i \in 1 .. spare |-> Radix - 1]
  OBVIOUS
<1>5. PICK buf : buf = text \o room
  OBVIOUS
<1>6. IsCells(text) /\ text \in [1 .. n -> Byte]
  BY <1>2, TextCells
<1>7. IsCells(room) /\ Len(room) = spare
  BY <1>4, MadeCells
<1>8. Joins(text \o room, text, n, room, spare)
  BY <1>2, <1>6, <1>7, JoinedTo
<1>9. IsCells(buf) /\ Len(buf) = L /\ \A i \in 1 .. L : buf[i] = IF i <= n THEN text[i] ELSE room[i - n]
  BY <1>3, <1>5, <1>8 DEF Joins
<1>10. ASSUME NEW i \in 1 .. L
       PROVE  buf[i] = (IF i <= n THEN text[i] ELSE Radix - 1) /\ buf[i] \in Byte
  <2>1. CASE i <= n
    <3>1. i \in 1 .. n
      BY <2>1
    <3>. QED
      BY <1>6, <1>9, <2>1, <3>1
  <2>2. CASE ~(i <= n)
    <3>1. i - n \in 1 .. spare
      BY <1>3, <2>2
    <3>2. room[i - n] = Radix - 1
      BY <1>4, <3>1
    <3>. QED
      BY <1>1, <1>9, <2>2, <3>2 DEF Byte
  <2>. QED
    BY <2>1, <2>2
<1>11. IsBytes(buf, L)
  BY <1>9, <1>10 DEF IsBytes, IsCells
<1>12. PICK a : a = sodium_pad(buf, n, block)
  OBVIOUS
<1>13. CASE block = 0
  <2>1. a.ret # 0
    BY <1>12, <1>13 DEF sodium_pad, FoldLeft, MapThenFoldSet
  <2>. QED
    BY <1>2, <1>4, <1>5, <1>12, <1>13, <2>1 DEF PadRight
<1>14. CASE block # 0
  <2>1. block \in Nat \ {0}
    BY <1>14
  <2>2. PICK x : x = (block - 1) - (n % block)
    OBVIOUS
  <2>3. x \in Nat /\ x <= block - 1 /\ block <= n + x + 1
    BY <2>1, <2>2, FillsBlock
  <2>4. PICK p : p = Ended(text, x)
    OBVIOUS
  <2>5. EndedBytes(p, text, n, x)
    BY <1>2, <1>6, <2>3, <2>4, EndedIs
  <2>6. Len(p) = n + 1 + x /\ p = Padded(text, block)
    BY <1>2, <2>2, <2>4, <2>5 DEF EndedBytes, Padded, Ended
  <2>7. CASE n + x < L
    <3>1. L <= SizeMax
      BY <1>2, <1>3
    <3>6. PadFitted(sodium_pad(buf, n, block), text, n, L, x)
      <4>1. \A i \in 1 .. L : buf[i] = IF i <= n THEN text[i] ELSE Radix - 1
        BY <1>10
      <4>. QED
        BY <1>2, <1>6, <1>11, <2>1, <2>2, <2>3, <2>7, <3>1, <4>1, PadFits
    <3>2. PICK out, len : sodium_pad(buf, n, block) = [ret |-> 0, len |-> len, buf |-> out]
                         /\ PaddedOut(out, len, text, n, L) /\ len = n + x + 1
      BY <3>6 DEF PadFitted
    <3>3. block \in 1 .. len
      BY <2>1, <2>3, <3>2
    <3>7. TakesOff(out, len, text, n, x, block)
      BY <1>2, <1>6, <2>3, <3>2, <3>3, PaddedRight
    <3>4. /\ SubSeq(out, 1, len) = Ended(text, x)
          /\ \A i \in len + 1 .. Len(out) : out[i] = Radix - 1
          /\ sodium_unpad(out, len, block) = [ret |-> 0, len |-> n]
      BY <3>7 DEF TakesOff
    <3>5. a.ret = 0 /\ a.len = len /\ a.buf = out
      BY <1>12, <3>2
    <3>8. PadRight(text, block, spare, a)
      <4>1. Len(p) <= n + spare
        BY <1>3, <2>3, <2>6, <2>7
      <4>. QED
        BY <1>2, <2>1, <2>4, <2>6, <3>4, <3>5, <4>1, Zenon DEF PadRight
    <3>. QED
      BY <1>2, <1>4, <1>5, <1>12, <3>8
  <2>8. CASE ~(n + x < L)
    <3>1. a.ret # 0
      <4>1. n + x >= Len(buf)
        BY <1>3, <1>9, <2>3, <2>8
      <4>2. Misuse # 0
        BY DEF Misuse
      <4>. QED
        BY <1>12, <2>1, <2>2, <4>1, <4>2 DEF sodium_pad, FoldLeft, MapThenFoldSet
    <3>2. ~(Len(p) <= n + spare)
      BY <1>3, <2>3, <2>6, <2>8
    <3>3. PadRight(text, block, spare, a)
      BY <1>2, <2>6, <3>1, <3>2, Zenon DEF PadRight
    <3>. QED
      BY <1>2, <1>4, <1>5, <1>12, <3>3
  <2>. QED
    BY <2>7, <2>8
<1>. QED
  BY <1>13, <1>14

(* PaddingComesOff of a call that takes padding off.                       *)
TakenOff(text, block, a) ==
    /\ a.ret = 0 <=> \E n \in 0 .. Len(text) - 1 :
          /\ block \in 1 .. Len(text) /\ Len(text) - n <= block
          /\ text = SubSeq(text, 1, n) \o <<Barrier>> \o Null(Len(text) - n - 1)
    /\ a.ret = 0 => a.len < Len(text) /\ text[a.len + 1] = Barrier

(* A text ends with a barrier and zeros.                                   *)
LEMMA EndsAt ==
    ASSUME NEW text \in Seq(Byte), NEW L \in Nat, L = Len(text), NEW n \in 0 .. L - 1, NEW j, j = L - n - 1
    PROVE  text = Ended(SubSeq(text, 1, n), j) <=> LastAt(text, L, j) /\ text[L - j] = Barrier
<1>1. IsCells(text) /\ n \in Nat /\ j \in Nat /\ L = n + 1 + j /\ L - j = n + 1
  BY TextCells
<1>2. PICK s : s = SubSeq(text, 1, n)
  OBVIOUS
<1>3. IsCells(s) /\ Len(s) = n /\ \A p \in 1 .. n : s[p] = text[p]
  BY <1>2 DEF IsCells
<1>4. PICK e : e = Ended(s, j)
  OBVIOUS
<1>5. EndedBytes(e, s, n, j)
  BY <1>1, <1>3, <1>4, EndedIs
<1>6. IsCells(e) /\ Len(e) = L /\ \A p \in 1 .. L : e[p] = IF p <= n THEN s[p] ELSE IF p = n + 1 THEN Barrier ELSE 0
  BY <1>1, <1>5 DEF EndedBytes
<1>7. text = e <=> \A p \in 1 .. L : text[p] = e[p]
  BY <1>1, <1>6 DEF IsCells
<1>8. (\A p \in 1 .. L : text[p] = e[p]) <=> text[n + 1] = Barrier /\ \A p \in n + 2 .. L : text[p] = 0
  <2>1. ASSUME \A p \in 1 .. L : text[p] = e[p]
        PROVE  text[n + 1] = Barrier /\ \A p \in n + 2 .. L : text[p] = 0
    BY <1>1, <1>6, <2>1
  <2>2. ASSUME text[n + 1] = Barrier, \A p \in n + 2 .. L : text[p] = 0, NEW p \in 1 .. L
        PROVE  text[p] = e[p]
    <3>1. CASE p <= n
      <4>1. p \in 1 .. n
        BY <3>1
      <4>. QED
        BY <1>3, <1>6, <3>1, <4>1
    <3>2. CASE p = n + 1
      BY <1>1, <1>6, <2>2, <3>2
    <3>3. CASE p > n + 1
      <4>1. p \in n + 2 .. L /\ ~(p <= n) /\ p # n + 1
        BY <1>1, <3>3
      <4>. QED
        BY <1>6, <2>2, <4>1
    <3>4. p <= n \/ p = n + 1 \/ p > n + 1
      BY <1>1
    <3>. QED
      BY <3>1, <3>2, <3>3, <3>4
  <2>. QED
    BY <2>1, <2>2
<1>9. (\A p \in n + 2 .. L : text[p] = 0) <=> \A i \in 0 .. j - 1 : text[L - i] = 0
  <2>1. ASSUME \A p \in n + 2 .. L : text[p] = 0, NEW i \in 0 .. j - 1
        PROVE  text[L - i] = 0
    <3>1. L - i \in n + 2 .. L
      BY <1>1
    <3>. QED
      BY <2>1, <3>1
  <2>2. ASSUME \A i \in 0 .. j - 1 : text[L - i] = 0, NEW p \in n + 2 .. L
        PROVE  text[p] = 0
    <3>0. L - p \in 0 .. j - 1
      BY <1>1
    <3>1. PICK i \in 0 .. j - 1 : i = L - p
      BY <3>0
    <3>2. L - i = p
      BY <1>1, <3>1
    <3>. QED
      BY <2>2, <3>2
  <2>. QED
    BY <2>1, <2>2
<1>10. Barrier # 0
  BY BytesAssumption
<1>. QED
  BY <1>1, <1>2, <1>4, <1>7, <1>8, <1>9, <1>10 DEF LastAt

(* A call that takes padding off is answered rightly.                      *)
LEMMA UnpadAnswers ==
    ASSUME NEW text \in Seq(Byte), NEW block \in Nat
    PROVE  TakenOff(text, block, sodium_unpad(text, Len(text), block))
<1>1. PICK L \in Nat : L = Len(text)
  OBVIOUS
<1>2. PICK a : a = sodium_unpad(text, L, block)
  OBVIOUS
<1>3. PICK ends : ends = {n \in 0 .. L - 1 : L - n <= block /\ text = SubSeq(text, 1, n) \o <<Barrier>> \o Null(L - n - 1)}
  OBVIOUS
<1>4. CASE L < block \/ block = 0
  <2>1. a.ret # 0
    BY <1>2, <1>4 DEF sodium_unpad, FoldLeft, MapThenFoldSet
  <2>2. ~(block \in 1 .. L)
    BY <1>4
  <2>. QED
    BY <1>1, <1>2, <2>1, <2>2 DEF TakenOff
<1>5. CASE ~(L < block \/ block = 0)
  <2>1. block \in 1 .. L /\ L \in 0 .. L /\ text \in [1 .. L -> Byte]
    BY <1>1, <1>5, TextCells
  <2>2. UnpadRight(a, text, L, block)
    BY <1>2, <2>1, UnpadEffect
  <2>3. \A n \in 0 .. L - 1 : n \in ends <=> L - n <= block /\ LastAt(text, L, L - n - 1) /\ text[L - (L - n - 1)] = Barrier
    <3> SUFFICES ASSUME NEW n \in 0 .. L - 1
                 PROVE  n \in ends <=> L - n <= block /\ LastAt(text, L, L - n - 1) /\ text[L - (L - n - 1)] = Barrier
      OBVIOUS
    <3>1. PICK j : j = L - n - 1
      OBVIOUS
    <3>2. text = Ended(SubSeq(text, 1, n), j) <=> LastAt(text, L, j) /\ text[L - j] = Barrier
      BY <1>1, <3>1, EndsAt
    <3>. QED
      BY <1>3, <3>1, <3>2 DEF Ended
  <2>4. a.ret = 0 <=> ends # {}
    <3>1. ASSUME NEW j \in 0 .. block - 1, LastAt(text, L, j), text[L - j] = Barrier
          PROVE  ends # {}
      <4>1. PICK n \in 0 .. L - 1 : n = L - j - 1
        BY <2>1
      <4>2. L - n <= block /\ L - n - 1 = j
        BY <2>1, <4>1
      <4>. QED
        BY <2>3, <3>1, <4>2
    <3>2. ASSUME NEW n \in ends
          PROVE  \E j \in 0 .. block - 1 : LastAt(text, L, j) /\ text[L - j] = Barrier
      <4>1. n \in 0 .. L - 1 /\ L - n <= block
        BY <1>3
      <4>2. PICK j \in 0 .. block - 1 : j = L - n - 1
        BY <2>1, <4>1
      <4>. QED
        BY <2>3, <4>1, <4>2
    <3>. QED
      BY <2>2, <3>1, <3>2 DEF UnpadRight
  <2>5. a.ret = 0 => a.len < L /\ text[a.len + 1] = Barrier
    <3> SUFFICES ASSUME a.ret = 0
                 PROVE  a.len < L /\ text[a.len + 1] = Barrier
      OBVIOUS
    <3>1. PICK j \in 0 .. block - 1 : LastAt(text, L, j) /\ text[L - j] = Barrier
      BY <2>2 DEF UnpadRight
    <3>2. a.len = (L - 1) - j
      BY <2>2, <3>1 DEF UnpadRight
    <3>3. a.len + 1 = L - j /\ a.len < L
      BY <2>1, <3>2
    <3>. QED
      BY <3>1, <3>3
  <2>6. ends # {} <=> \E n \in 0 .. L - 1 : /\ block \in 1 .. L /\ L - n <= block
                                           /\ text = SubSeq(text, 1, n) \o <<Barrier>> \o Null(L - n - 1)
    BY <1>3, <2>1
  <2>. QED
    BY <1>1, <1>2, <2>4, <2>5, <2>6 DEF TakenOff
<1>. QED
  BY <1>4, <1>5

(* A caller of the functions on bytes.                                     *)
BytesSpec == CallInit /\ [][AskBytes \/ AnswerBytes \/ Return]_callVars

(* The calls that pad and take padding off which a caller makes.           *)
PadCall(c) ==
    /\ c.fn = "pad" => /\ c.text \in Seq(Byte) /\ c.block \in Nat /\ c.spare \in Nat
                       /\ Len(c.text) + c.spare <= SizeMax
    /\ c.fn = "unpad" => c.text \in Seq(Byte) /\ c.block \in Nat

PadsRight(c, a) ==
    /\ c.fn = "pad" => PadRight(c.text, c.block, c.spare, a)
    /\ c.fn = "unpad" => TakenOff(c.text, c.block, a)

PadInv == PadCall(call) /\ (stage = "answered" => PadsRight(call, answer))

(* What a caller asks to be padded fits in memory.                         *)
LEMMA PadAsks == ASSUME AskBytes PROVE stage' = "called" /\ PadCall(call')
<1>1. stage' = "called"
  BY DEF AskBytes, Ask
<1>2. CASE \E t \in Texts, block \in Blocks, spare \in 0 .. 4 :
              Len(t) + spare <= SizeMax /\ Ask([fn |-> "pad", text |-> t, block |-> block, spare |-> spare])
  <2>1. PICK t \in Texts, block \in Blocks, spare \in 0 .. 4 :
              Len(t) + spare <= SizeMax /\ call' = [fn |-> "pad", text |-> t, block |-> block, spare |-> spare]
    BY <1>2 DEF Ask
  <2>2. t \in Seq(Byte) /\ block \in Nat /\ spare \in Nat
    BY <2>1, BytesAssumption DEF Byte
  <2>. QED
    BY <1>1, <2>1, <2>2 DEF PadCall
<1>3. CASE \E t \in Texts, block \in Blocks : Ask([fn |-> "unpad", text |-> t, block |-> block])
  <2>1. PICK t \in Texts, block \in Blocks : call' = [fn |-> "unpad", text |-> t, block |-> block]
    BY <1>3 DEF Ask
  <2>2. t \in Seq(Byte) /\ block \in Nat
    BY <2>1, BytesAssumption DEF Byte
  <2>. QED
    BY <1>1, <2>1, <2>2 DEF PadCall
<1>4. CASE call'.fn # "pad" /\ call'.fn # "unpad"
  BY <1>1, <1>4 DEF PadCall
<1>5. \/ call'.fn # "pad" /\ call'.fn # "unpad"
      \/ \E t \in Texts, block \in Blocks, spare \in 0 .. 4 :
              Len(t) + spare <= SizeMax /\ Ask([fn |-> "pad", text |-> t, block |-> block, spare |-> spare])
      \/ \E t \in Texts, block \in Blocks : Ask([fn |-> "unpad", text |-> t, block |-> block])
  <2>1. CASE \E a \in Strings, fn \in {"increment", "is_zero"} : Len(a) <= 3 * Word /\ Ask([fn |-> fn, a |-> a])
    BY <2>1 DEF Ask
  <2>2. CASE \E a, b \in Strings, fn \in {"add", "sub", "compare", "memcmp", "verify"} :
                Len(a) = Len(b) /\ (Len(a) <= 3 * Word \/ fn = "sub") /\ Ask([fn |-> fn, a |-> a, b |-> b])
    BY <2>2 DEF Ask
  <2>3. CASE \E m, n \in Counts : Ask([fn |-> "DataSize", m |-> m, n |-> n])
    BY <2>3 DEF Ask
  <2>. QED
    BY <2>1, <2>2, <2>3 DEF AskBytes
<1>. QED
  BY <1>2, <1>3, <1>4, <1>5

(* Every such call is answered rightly.                                    *)
LEMMA PadAnswered ==
    ASSUME AnswerBytes, PadCall(call)
    PROVE  call' = call /\ PadsRight(call', answer')
<1>1. call' = call
  BY DEF AnswerBytes, Answer
<1>2. CASE call.fn = "pad"
  <2>1. answer' = Padding
    BY <1>2 DEF AnswerBytes, Called, Answer
  <2>2. call.text \in Seq(Byte) /\ call.block \in Nat /\ call.spare \in Nat /\ Len(call.text) + call.spare <= SizeMax
    BY <1>2 DEF PadCall
  <2>3. PadRight(call.text, call.block, call.spare, Padding)
    BY <2>2, PadAnswers DEF Padding
  <2>. QED
    BY <1>1, <1>2, <2>1, <2>3 DEF PadsRight
<1>3. CASE call.fn = "unpad"
  <2>1. answer' = sodium_unpad(call.text, Len(call.text), call.block)
    BY <1>3 DEF AnswerBytes, Called, Answer
  <2>2. call.text \in Seq(Byte) /\ call.block \in Nat
    BY <1>3 DEF PadCall
  <2>3. TakenOff(call.text, call.block, sodium_unpad(call.text, Len(call.text), call.block))
    BY <2>2, UnpadAnswers
  <2>. QED
    BY <1>1, <1>3, <2>1, <2>3 DEF PadsRight
<1>4. CASE call.fn # "pad" /\ call.fn # "unpad"
  BY <1>1, <1>4 DEF PadsRight
<1>. QED
  BY <1>2, <1>3, <1>4

(* Padding a text of any length to any block size writes the text, the     *)
(* barrier and zeros up to the next multiple of the block and no byte      *)
(* after it, taking it off gives back the length of the text, and no other *)
(* ending is taken for a padding (sodium_pad, sodium_unpad).               *)
THEOREM PadsAndUnpads == BytesSpec => []PaddingComesOff
<1>1. CallInit => PadInv
  BY DEF CallInit, Idle, PadInv, PadCall
<1>2. PadInv /\ [AskBytes \/ AnswerBytes \/ Return]_callVars => PadInv'
  <2> SUFFICES ASSUME PadInv, [AskBytes \/ AnswerBytes \/ Return]_callVars
               PROVE  PadInv'
    OBVIOUS
  <2>1. CASE AskBytes
    <3>1. stage' = "called" /\ PadCall(call')
      BY <2>1, PadAsks
    <3>. QED
      BY <3>1 DEF PadInv
  <2>2. CASE AnswerBytes
    <3>1. call' = call /\ PadsRight(call', answer')
      BY <2>2, PadAnswered DEF PadInv
    <3>2. PadCall(call')
      BY <3>1 DEF PadInv
    <3>. QED
      BY <3>1, <3>2 DEF PadInv
  <2>3. CASE Return
    <3>1. stage' = "idle" /\ call' = Idle
      BY <2>3 DEF Return
    <3>2. PadCall(call')
      BY <3>1 DEF PadCall, Idle
    <3>. QED
      BY <3>1, <3>2 DEF PadInv
  <2>4. CASE UNCHANGED callVars
    BY <2>4 DEF callVars, PadInv
  <2>. QED
    BY <2>1, <2>2, <2>3, <2>4
<1>3. PadInv => PaddingComesOff
  <2> SUFFICES ASSUME PadInv
               PROVE  PaddingComesOff
    OBVIOUS
  <2>1. ASSUME Answered({"pad"})
        PROVE  PadRight(call.text, call.block, call.spare, answer)
    BY <2>1 DEF PadInv, PadsRight, Answered
  <2>2. ASSUME Answered({"unpad"})
        PROVE  TakenOff(call.text, call.block, answer)
    BY <2>2 DEF PadInv, PadsRight, Answered
  <2>. QED
    BY <2>1, <2>2, Zenon DEF PaddingComesOff, PadRight, TakenOff
<1>. QED
  BY <1>1, <1>2, <1>3, PTL DEF BytesSpec

-----------------------------------------------------------------------------
(* Numbers in bytes (utils.c)                                              *)

(* What is assumed of powers: they are products.                           *)
Powers ==
    /\ Radix ^ 0 = 1
    /\ \A k \in Nat : Radix ^ k \in Nat \ {0} /\ Radix ^ (k + 1) = Radix ^ k * Radix

(* The recursion of a fold over a sequence of n from right to left.        *)
RightFold(iter, n, base, F) ==
    iter = [s \in SUBSET (1 .. n) |-> IF s = {} THEN base ELSE F[<<iter[s \ {Min(s)}], Min(s)>>]]

(* A set of numbers from 1 to n has a smallest.                            *)
LEMMA Smallest ==
    ASSUME NEW n \in Nat, NEW s \in SUBSET (1 .. n), s # {}
    PROVE  Min(s) \in s /\ \A x \in s : Min(s) <= x
<1>1. s \in SUBSET Nat
  OBVIOUS
<1>2. \E m \in s : \A k \in s : m <= k
  BY <1>1, Least
<1>3. Min(s) \in s /\ \A y \in s : Min(s) <= y
  BY <1>2 DEF Min
<1>. QED
  BY <1>3

(* The smallest of k .. n is k, and without it k + 1 .. n is left.         *)
LEMMA SmallestOf ==
    ASSUME NEW n \in Nat, NEW k \in 1 .. n
    PROVE  k .. n \in SUBSET (1 .. n) /\ k .. n # {} /\ Min(k .. n) = k /\ (k .. n) \ {k} = k + 1 .. n
<1>1. k .. n \in SUBSET (1 .. n) /\ k \in k .. n
  OBVIOUS
<1>2. Min(k .. n) = k
  <2>1. PICK m : m = Min(k .. n)
    OBVIOUS
  <2>2. m \in k .. n /\ m <= k
    BY <1>1, <2>1, Smallest
  <2>. QED
    BY <2>1, <2>2
<1>3. (k .. n) \ {k} = k + 1 .. n
  OBVIOUS
<1>. QED
  BY <1>1, <1>2, <1>3

(* A fold from the right exists for every step function on a set.          *)
LEMMA RightExists ==
    ASSUME NEW n \in Nat, NEW A, NEW base \in A, NEW F \in [A \X (1 .. n) -> A]
    PROVE  \E iter \in [SUBSET (1 .. n) -> A] : RightFold(iter, n, base, F)
<1>1. PICK D : D = 1 .. n
  OBVIOUS
<1>2. IsFiniteSet(D)
  <2>. 1 \in Int /\ n \in Int
    OBVIOUS
  <2>. QED
    BY <1>1, FS_Interval
<1>3. PICK ch : ch = [s \in SUBSET D |-> Min(s)]
  OBVIOUS
<1>4. \A s \in SUBSET D : s # {} => ch[s] \in s
  <2>. \A s \in SUBSET (1 .. n) : s # {} => Min(s) \in s
    BY Smallest
  <2>. QED
    BY <1>1, <1>3
<1>5. F \in [A \X D -> A]
  BY <1>1
<1>6. PICK iter \in [SUBSET D -> A] : FoldedBy(iter, D, base, F, ch)
  BY <1>2, <1>4, <1>5, FoldExists
<1>7. RightFold(iter, n, base, F)
  <2>1. iter = [s \in SUBSET D |-> IF s = {} THEN base ELSE F[<<iter[s \ {Min(s)}], Min(s)>>]]
    BY <1>3, <1>6 DEF FoldedBy
  <2>. QED
    BY <1>1, <2>1 DEF RightFold
<1>. QED
  BY <1>1, <1>6, <1>7

(* The values of the ends of a string, from byte k on.                     *)
ValuesFrom(v, b, n) == v[n + 1] = 0 /\ \A k \in 1 .. n : v[k] = v[k + 1] * Radix + b[k]

(* A number in bytes, byte by byte from the most significant.              *)
LEMMA ValueSteps ==
    ASSUME NEW b, NEW n \in Nat, IsBytes(b, n)
    PROVE  \E v \in [1 .. n + 1 -> Nat] : ValuesFrom(v, b, n) /\ Value(b) = v[1]
<1>1. Radix \in Nat /\ b \in [1 .. n -> Nat] /\ DOMAIN b = 1 .. n
  BY BytesAssumption DEF IsBytes, Byte
<1> DEFINE F == [p \in Nat \X (1 .. n) |-> p[1] * Radix + b[p[2]]]
<1>2. F \in [Nat \X (1 .. n) -> Nat] /\ \A x \in Nat, k \in 1 .. n : F[<<x, k>>] = x * Radix + b[k]
  <2>1. \A x \in Nat, k \in 1 .. n : x * Radix \in Nat /\ b[k] \in Nat /\ x * Radix + b[k] \in Nat
    BY <1>1, Products
  <2>. QED
    BY <2>1
<1> HIDE DEF F
<1>3. PICK iter \in [SUBSET (1 .. n) -> Nat] : RightFold(iter, n, 0, F)
  <2>1. 0 \in Nat
    OBVIOUS
  <2>. QED
    BY <1>2, <2>1, RightExists
<1> DEFINE Eq(f) == f = [S \in SUBSET (DOMAIN b) |-> IF S = {} THEN 0 ELSE f[S \ {Min(S)}] * Radix + b[Min(S)]]
           h == CHOOSE f : Eq(f)
<1>4. Value(b) = h[DOMAIN b]
  BY DEF Value, FoldRight, MapThenFoldSet
<1>5. \A S \in SUBSET (1 .. n) : S # {} => S \ {Min(S)} \in SUBSET (1 .. n) /\ Min(S) \in 1 .. n
  BY Smallest
<1>6. Eq(iter)
  BY <1>1, <1>2, <1>3, <1>5 DEF RightFold
<1>7. Eq(h)
  BY <1>6, Zenon
<1> HIDE DEF h
<1>8. \A S \in SUBSET (1 .. n) : h[S] = IF S = {} THEN 0 ELSE h[S \ {Min(S)}] * Radix + b[Min(S)]
  BY <1>1, <1>7
<1> DEFINE v == [k \in 1 .. n + 1 |-> h[k .. n]]
<1>9. v[n + 1] = 0
  <2>1. n + 1 .. n = {} /\ n + 1 \in 1 .. n + 1
    OBVIOUS
  <2>. QED
    BY <1>8, <2>1
<1>10. ASSUME NEW k \in 1 .. n
       PROVE  v[k] = v[k + 1] * Radix + b[k]
  <2>1. PICK S : S = k .. n
    OBVIOUS
  <2>2. S \in SUBSET (1 .. n) /\ S # {} /\ Min(S) = k /\ S \ {k} = k + 1 .. n
    BY <2>1, SmallestOf
  <2>3. h[S] = h[S \ {Min(S)}] * Radix + b[Min(S)]
    BY <1>8, <2>2
  <2>4. h[S] = h[k + 1 .. n] * Radix + b[k]
    BY <2>2, <2>3
  <2>5. v[k] = h[S] /\ v[k + 1] = h[k + 1 .. n]
    BY <2>1
  <2>. QED
    BY <2>4, <2>5
<1>11. v \in [1 .. n + 1 -> Nat]
  <2> DEFINE T == {k \in 0 .. n : v[n + 1 - k] \in Nat}
  <2>1. 0 \in T
    BY <1>9
  <2>2. \A k \in 0 .. n - 1 : k \in T => k + 1 \in T
    <3> SUFFICES ASSUME NEW k \in 0 .. n - 1, v[n + 1 - k] \in Nat
                 PROVE  v[n + 1 - (k + 1)] \in Nat
      <4> HIDE DEF v
      <4>. QED
        OBVIOUS
    <3>1. PICK j \in 1 .. n : j = n + 1 - (k + 1) /\ j + 1 = n + 1 - k
      OBVIOUS
    <3> HIDE DEF v, T
    <3>2. v[j] = v[j + 1] * Radix + b[j] /\ b[j] \in Nat /\ v[j + 1] \in Nat
      BY <1>1, <1>10, <3>1
    <3>4. v[j + 1] * Radix \in Nat
      BY <1>1, <3>2, Products
    <3>3. v[j] \in Nat
      BY <3>2, <3>4
    <3>. QED
      BY <3>1, <3>3
  <2>3. 0 .. n \subseteq T
    <3> HIDE DEF T
    <3>. QED
      BY <2>1, <2>2, UpTo
  <2>4. ASSUME NEW j \in 1 .. n + 1
        PROVE  v[j] \in Nat
    <3>1. PICK k \in 0 .. n : k = n + 1 - j /\ n + 1 - k = j
      OBVIOUS
    <3> HIDE DEF v
    <3>2. v[n + 1 - k] \in Nat
      BY <2>3
    <3>. QED
      BY <3>1, <3>2
  <2>5. v = [k \in 1 .. n + 1 |-> v[k]]
    OBVIOUS
  <2> HIDE DEF v
  <2>. QED
    BY <2>4, <2>5
<1>12. Value(b) = v[1]
  BY <1>1, <1>4
<1>. QED
  <2> HIDE DEF v
  <2>. QED
    BY <1>9, <1>10, <1>11, <1>12 DEF ValuesFrom

(* A quotient is known by its remainder.                                   *)
LEMMA Quotient ==
    ASSUME NEW x \in Int, NEW m \in Nat \ {0}, NEW f \in Int, x - f * m \in 0 .. m - 1
    PROVE  x \div m = f
<1>1. PICK g \in Int : g = x \div m /\ x - g * m \in 0 .. m - 1
  BY FloorDivision
<1>2. PICK fm \in Int, gm \in Int : fm = f * m /\ gm = g * m
  OBVIOUS
<1>3. ASSUME NEW a \in Int, NEW b \in Int, a < b
      PROVE  a * m + m <= b * m
  <2>1. PICK d \in Nat : b = a + 1 + d
    BY <1>3
  <2>2. d * m \in Nat
    OBVIOUS
  <2>3. b * m = a * m + m + d * m
    BY <2>1
  <2>. QED
    BY <2>2, <2>3
<1>4. f < g => fm + m <= gm
  BY <1>2, <1>3
<1>5. g < f => gm + m <= fm
  BY <1>2, <1>3
<1>6. x - fm \in 0 .. m - 1 /\ x - gm \in 0 .. m - 1
  BY <1>1, <1>2
<1>. QED
  BY <1>1, <1>4, <1>5, <1>6

(* What a division leaves.                                                 *)
LEMMA Remainder ==
    ASSUME NEW x \in Int, NEW m \in Nat \ {0}
    PROVE  x % m = x - (x \div m) * m /\ x % m \in 0 .. m - 1
OBVIOUS

(* Dividing twice divides by the product.                                  *)
LEMMA DivideTwice ==
    ASSUME NEW x \in Int, NEW P \in Nat \ {0}, NEW r \in Nat \ {0}
    PROVE  P * r \in Nat \ {0} /\ x \div (P * r) = (x \div P) \div r
<1>1. PICK e \in Int : e = x \div P /\ x - e * P \in 0 .. P - 1
  BY FloorDivision
<1>2. PICK f \in Int : f = e \div r /\ e - f * r \in 0 .. r - 1
  BY FloorDivision
<1>3. PICK g \in 0 .. r - 1 : e = f * r + g
  <2>1. e - f * r \in 0 .. r - 1 /\ f * r \in Int
    BY <1>2
  <2>. QED
    BY <2>1
<1>4. PICK PR \in Nat \ {0} : PR = P * r
  OBVIOUS
<1>5. e * P = f * PR + g * P
  BY <1>3, <1>4
<1>6. g * P \in Nat /\ g * P + P <= PR
  <2>1. PICK h \in Nat : r = g + 1 + h
    <3>1. r - g - 1 \in Nat
      OBVIOUS
    <3>. QED
      BY <3>1
  <2>2. h * P \in Nat /\ g * P \in Nat /\ PR = g * P + P + h * P
    BY <1>4, <2>1
  <2>. QED
    BY <2>2
<1>7. PICK eP \in Int, fPR \in Int, gP \in Int : eP = e * P /\ fPR = f * PR /\ gP = g * P
  OBVIOUS
<1>8. x - fPR \in 0 .. PR - 1
  BY <1>1, <1>5, <1>6, <1>7
<1>9. x \div PR = f
  BY <1>7, <1>8, Quotient
<1>. QED
  BY <1>1, <1>2, <1>4, <1>9

(* The values of the beginnings of a string.                               *)
Sums(p, b, n) ==
    /\ p \in [0 .. n -> Int] /\ p[0] = 0
    /\ \A k \in 1 .. n : p[k] = p[k - 1] + Radix ^ (k - 1) * b[k]

(* They are the same however they come about.                              *)
LEMMA SumsAgree ==
    ASSUME NEW b, NEW n \in Nat, NEW p, Sums(p, b, n), NEW q, Sums(q, b, n)
    PROVE  \A k \in 0 .. n : p[k] = q[k]
<1> DEFINE T == {k \in 0 .. n : p[k] = q[k]}
<1>1. 0 \in T
  BY DEF Sums
<1>2. \A k \in 0 .. n - 1 : k \in T => k + 1 \in T
  <2> SUFFICES ASSUME NEW k \in 0 .. n - 1, p[k] = q[k]
               PROVE  p[k + 1] = q[k + 1]
    OBVIOUS
  <2>1. PICK j \in 1 .. n : j = k + 1 /\ j - 1 = k
    OBVIOUS
  <2>2. p[j] = p[j - 1] + Radix ^ (j - 1) * b[j] /\ q[j] = q[j - 1] + Radix ^ (j - 1) * b[j]
    BY DEF Sums
  <2>3. p[j - 1] = q[j - 1]
    BY <2>1
  <2>. QED
    BY <2>1, <2>2, <2>3
<1>3. 0 .. n \subseteq T
  <2> HIDE DEF T
  <2>. QED
    BY <1>1, <1>2, UpTo
<1>. QED
  BY <1>3

(* A number in bytes, byte by byte from the least significant.             *)
LEMMA ValueSums ==
    ASSUME Powers, NEW b, NEW n \in Nat, IsBytes(b, n)
    PROVE  \E p : Sums(p, b, n) /\ Value(b) = p[n]
<1>1. PICK v \in [1 .. n + 1 -> Nat] : ValuesFrom(v, b, n) /\ Value(b) = v[1]
  BY ValueSteps
<1>2. Radix \in Nat /\ b \in [1 .. n -> Nat]
  BY BytesAssumption DEF IsBytes, Byte
<1> DEFINE p == [k \in 0 .. n |-> v[1] - Radix ^ k * v[k + 1]]
<1>3. \A k \in 0 .. n : Radix ^ k * v[k + 1] \in Nat /\ p[k] = v[1] - Radix ^ k * v[k + 1]
  <2> SUFFICES ASSUME NEW k \in 0 .. n
               PROVE  Radix ^ k * v[k + 1] \in Nat
    OBVIOUS
  <2>1. k \in Nat /\ k + 1 \in 1 .. n + 1
    OBVIOUS
  <2>2. Radix ^ k \in Nat
    BY <2>1 DEF Powers
  <2>3. v[k + 1] \in Nat
    BY <1>1, <2>1
  <2>4. PICK P \in Nat, x \in Nat : P = Radix ^ k /\ x = v[k + 1]
    BY <2>2, <2>3
  <2>. QED
    BY <2>4, Products
<1>4. p \in [0 .. n -> Int]
  <2>1. \A k \in 0 .. n : p[k] \in Int
    <3>1. v[1] \in Nat
      BY <1>1
    <3> HIDE DEF p
    <3>. QED
      BY <1>3, <3>1
  <2>. QED
    BY <2>1
<1>5. p[0] = 0
  <2>1. Radix ^ 0 * v[1] = v[1] /\ v[1] \in Nat
    BY <1>1 DEF Powers
  <2>2. p[0] = v[1] - Radix ^ 0 * v[0 + 1] /\ 0 + 1 = 1
    BY <1>3
  <2> HIDE DEF p
  <2>. QED
    BY <2>1, <2>2
<1>6. p[n] = v[1]
  <2>1. v[n + 1] = 0 /\ Radix ^ n \in Nat /\ v[1] \in Nat
    BY <1>1 DEF ValuesFrom, Powers
  <2>2. Radix ^ n * v[n + 1] = 0
    BY <2>1
  <2>3. p[n] = v[1] - Radix ^ n * v[n + 1]
    BY <1>3
  <2> HIDE DEF p
  <2>. QED
    BY <2>1, <2>2, <2>3
<1>7. ASSUME NEW k \in 1 .. n
      PROVE  p[k] = p[k - 1] + Radix ^ (k - 1) * b[k]
  <2>1. PICK j \in 0 .. n - 1 : j = k - 1 /\ j + 1 = k
    OBVIOUS
  <2>10. Radix ^ j \in Nat /\ Radix ^ k = Radix ^ j * Radix
    <3>1. j \in Nat /\ k = j + 1
      BY <2>1
    <3>. QED
      BY <3>1 DEF Powers
  <2>2. PICK P \in Nat, Q \in Nat : P = Radix ^ j /\ Q = Radix ^ k /\ Q = P * Radix
    BY <1>2, <2>10
  <2>3. PICK x \in Nat, y \in Nat, z \in Nat : x = v[k] /\ y = v[k + 1] /\ z = v[1]
    BY <1>1
  <2>4. PICK d \in Nat : d = b[k]
    BY <1>2
  <2>5. x = y * Radix + d
    BY <1>1, <2>3, <2>4 DEF ValuesFrom
  <2>6. p[k] = z - Q * y /\ p[j] = z - P * x
    <3>1. p[k] = v[1] - Radix ^ k * v[k + 1] /\ p[j] = v[1] - Radix ^ j * v[j + 1]
      BY <1>3
    <3> HIDE DEF p
    <3>. QED
      BY <2>1, <2>2, <2>3, <3>1
  <2>7. P * x = Q * y + P * d
    <3>1. \A r \in Nat : P * (y * r + d) = (P * r) * y + P * d
      OBVIOUS
    <3>. QED
      BY <1>2, <2>2, <2>5, <3>1
  <2>8. P * x \in Int /\ Q * y \in Int /\ P * d \in Int
    OBVIOUS
  <2> HIDE DEF p
  <2>9. p[k] = p[j] + P * d
    BY <2>6, <2>7, <2>8
  <2>. QED
    BY <2>1, <2>2, <2>4, <2>9
<1> HIDE DEF p
<1>8. Sums(p, b, n)
  BY <1>4, <1>5, <1>7 DEF Sums
<1>. QED
  BY <1>1, <1>6, <1>8

(* A power of the sum of two exponents.                                    *)
LEMMA PowerOfSum ==
    ASSUME Powers, NEW n \in Nat, NEW m \in Nat
    PROVE  Radix ^ (n + m) = Radix ^ n * Radix ^ m
<1> DEFINE T == {k \in 0 .. m : Radix ^ (n + k) = Radix ^ n * Radix ^ k}
<1>1. 0 \in T
  <2>1. Radix ^ n \in Nat /\ Radix ^ 0 = 1 /\ n + 0 = n
    BY DEF Powers
  <2>2. Radix ^ n * Radix ^ 0 = Radix ^ n
    BY <2>1
  <2>. QED
    BY <2>1, <2>2
<1>2. \A k \in 0 .. m - 1 : k \in T => k + 1 \in T
  <2> SUFFICES ASSUME NEW k \in 0 .. m - 1, Radix ^ (n + k) = Radix ^ n * Radix ^ k
               PROVE  Radix ^ (n + (k + 1)) = Radix ^ n * Radix ^ (k + 1)
    OBVIOUS
  <2>1. k \in Nat /\ n + k \in Nat /\ n + (k + 1) = (n + k) + 1
    OBVIOUS
  <2>2. /\ Radix ^ n \in Nat /\ Radix ^ k \in Nat /\ Radix ^ (k + 1) = Radix ^ k * Radix
        /\ Radix ^ ((n + k) + 1) = Radix ^ (n + k) * Radix
    BY <2>1 DEF Powers
  <2>3. PICK P \in Nat, Q \in Nat, r \in Nat : P = Radix ^ n /\ Q = Radix ^ k /\ r = Radix
    BY <2>2, BytesAssumption
  <2>4. (P * Q) * r = P * (Q * r)
    OBVIOUS
  <2>. QED
    BY <2>1, <2>2, <2>3, <2>4
<1>3. 0 .. m \subseteq T
  <2> HIDE DEF T
  <2>. QED
    BY <1>1, <1>2, UpTo
<1>. QED
  BY <1>3

(* The beginning of a number is smaller than the power of its length.      *)
LEMMA SumsBelow ==
    ASSUME Powers, NEW n \in Nat, NEW b, IsBytes(b, n), NEW p, Sums(p, b, n)
    PROVE  \A k \in 0 .. n : p[k] \in 0 .. Radix ^ k - 1
<1> DEFINE T == {k \in 0 .. n : p[k] \in 0 .. Radix ^ k - 1}
<1>1. 0 \in T
  <2>1. p[0] = 0 /\ Radix ^ 0 = 1
    BY DEF Sums, Powers
  <2>. QED
    BY <2>1
<1>2. \A k \in 0 .. n - 1 : k \in T => k + 1 \in T
  <2> SUFFICES ASSUME NEW k \in 0 .. n - 1, p[k] \in 0 .. Radix ^ k - 1
               PROVE  p[k + 1] \in 0 .. Radix ^ (k + 1) - 1
    OBVIOUS
  <2>1. PICK j \in 1 .. n : j = k + 1 /\ j - 1 = k
    OBVIOUS
  <2>2. k \in Nat
    OBVIOUS
  <2>3. Radix ^ k \in Nat /\ Radix ^ j = Radix ^ k * Radix
    BY <2>1, <2>2 DEF Powers
  <2>10. b[j] \in 0 .. Radix - 1 /\ Radix \in Nat
    BY BytesAssumption DEF IsBytes, Byte
  <2>11. p[k] \in Int
    BY DEF Sums
  <2>13. b[j] \in Nat
    BY <2>10
  <2>4. PICK P \in Nat, r \in Nat, d \in Nat, s \in Int : P = Radix ^ k /\ r = Radix /\ d = b[j] /\ s = p[k]
    BY <2>3, <2>10, <2>11, <2>13
  <2>5. d <= r - 1
    BY <2>4, <2>10
  <2>12. s \in 0 .. P - 1
    BY <2>4
  <2>6. p[j] = s + P * d
    BY <2>1, <2>4 DEF Sums
  <2>7. P * d \in Nat /\ P * d + P <= P * r
    <3>1. PICK h \in Nat : r = d + 1 + h
      <4>1. r - d - 1 \in Nat
        BY <2>5
      <4>. QED
        BY <4>1
    <3>2. P * h \in Nat /\ P * d \in Nat
      BY Products
    <3>3. P * (d + 1 + h) = P * d + P + P * h
      OBVIOUS
    <3>. QED
      BY <3>1, <3>2, <3>3
  <2>8. PICK x \in Nat, y \in Int : x = P * d /\ y = P * r
    BY <2>7
  <2>9. s + x \in 0 .. y - 1
    <3>1. x + P <= y /\ 0 <= s /\ s <= P - 1
      BY <2>7, <2>8, <2>12
    <3>. QED
      BY <3>1
  <2>. QED
    BY <2>1, <2>3, <2>4, <2>6, <2>8, <2>9
<1>3. 0 .. n \subseteq T
  <2> HIDE DEF T
  <2>. QED
    BY <1>1, <1>2, UpTo
<1>. QED
  BY <1>3

(* So is a number, which is never negative.                                *)
LEMMA ValueBelow ==
    ASSUME Powers, NEW n \in Nat, NEW b, IsBytes(b, n)
    PROVE  Value(b) \in 0 .. Radix ^ n - 1
<1>1. PICK p : Sums(p, b, n) /\ Value(b) = p[n]
  BY ValueSums
<1>. QED
  BY <1>1, SumsBelow

(* A part of a string, after at bytes.                                     *)
Part(b, at, size) == SubSeq(b, at + 1, at + size)

(* Its bytes are those of the string.                                      *)
LEMMA PartBytes ==
    ASSUME NEW n \in Nat, NEW b, IsBytes(b, n), NEW at \in 0 .. n, NEW size \in 0 .. n - at
    PROVE  IsBytes(Part(b, at, size), size) /\ \A i \in 1 .. size : Part(b, at, size)[i] = b[at + i]
<1>1. PICK w : w = SubSeq(b, at + 1, at + size)
  OBVIOUS
<1>2. IsBytes(w, size) /\ \A i \in 1 .. size : w[i] = b[at + i]
  <2>1. b \in Seq(Byte) /\ Len(b) = n
    BY DEF IsBytes
  <2>2. Len(w) = size /\ \A i \in 1 .. size : w[i] = b[at + i]
    BY <1>1, <2>1
  <2>3. w \in Seq(Byte)
    BY <1>1, <2>1
  <2>. QED
    BY <2>2, <2>3 DEF IsBytes
<1>. QED
  BY <1>1, <1>2 DEF Part

(* Part of a number is the number of those bytes.                          *)
LEMMA Segment ==
    ASSUME Powers, NEW n \in Nat, NEW b, IsBytes(b, n), NEW p, Sums(p, b, n),
           NEW at \in 0 .. n, NEW size \in 0 .. n - at
    PROVE  Radix ^ at * Value(Part(b, at, size)) = p[at + size] - p[at]
<1>1. PICK w : w = Part(b, at, size)
  OBVIOUS
<1>2. IsBytes(w, size) /\ \A i \in 1 .. size : w[i] = b[at + i]
  BY <1>1, PartBytes
<1>3. size \in Nat /\ at \in Nat
  OBVIOUS
<1>4. PICK q : Sums(q, w, size) /\ Value(w) = q[size]
  BY <1>2, <1>3, ValueSums
<1>5. PICK A \in Nat : A = Radix ^ at
  BY <1>3 DEF Powers
<1> DEFINE T == {k \in 0 .. size : A * q[k] = p[at + k] - p[at]}
<1>6. 0 \in T
  <2>1. q[0] = 0 /\ at + 0 = at /\ p[at] \in Int
    BY <1>4 DEF Sums
  <2>2. A * 0 = 0
    OBVIOUS
  <2>. QED
    BY <2>1, <2>2
<1>7. \A k \in 0 .. size - 1 : k \in T => k + 1 \in T
  <2> SUFFICES ASSUME NEW k \in 0 .. size - 1, A * q[k] = p[at + k] - p[at]
               PROVE  A * q[k + 1] = p[at + (k + 1)] - p[at]
    OBVIOUS
  <2>1. PICK i \in 1 .. size : i = k + 1 /\ i - 1 = k
    OBVIOUS
  <2>2. PICK j \in 1 .. n : j = at + i /\ j - 1 = at + k
    BY <2>1
  <2>3. q[i] = q[i - 1] + Radix ^ (i - 1) * w[i] /\ p[j] = p[j - 1] + Radix ^ (j - 1) * b[j]
    BY <1>4 DEF Sums
  <2>4. k \in Nat /\ Radix ^ k \in Nat /\ Radix ^ (at + k) = A * Radix ^ k
    <3>1. k \in Nat
      OBVIOUS
    <3>2. Radix ^ k \in Nat /\ Radix ^ (at + k) = Radix ^ at * Radix ^ k
      BY <1>3, <3>1, PowerOfSum DEF Powers
    <3>. QED
      BY <1>5, <3>1, <3>2
  <2>5. b[j] \in Nat /\ w[i] = b[j]
    BY <1>2, <2>2, BytesAssumption DEF IsBytes, Byte
  <2>6. PICK P \in Nat, d \in Nat, x \in Int, y \in Int, z \in Int :
            P = Radix ^ k /\ d = b[j] /\ x = q[k] /\ y = p[at + k] /\ z = p[at]
    <3>1. q[k] \in Int
      BY <1>4 DEF Sums
    <3>2. at + k \in 0 .. n /\ at \in 0 .. n
      BY <2>2
    <3>3. p[at + k] \in Int /\ p[at] \in Int
      BY <3>2 DEF Sums
    <3>. QED
      BY <2>4, <2>5, <3>1, <3>3
  <2>7. q[i] = x + P * d /\ p[j] = y + (A * P) * d
    BY <2>1, <2>2, <2>3, <2>4, <2>5, <2>6
  <2>8. A * (x + P * d) = A * x + (A * P) * d
    OBVIOUS
  <2>9. A * x \in Int /\ (A * P) * d \in Int /\ A * x = y - z
    BY <2>6
  <2>10. A * q[i] = p[j] - z
    BY <2>7, <2>8, <2>9
  <2>. QED
    BY <2>1, <2>2, <2>6, <2>10
<1>8. 0 .. size \subseteq T
  <2> HIDE DEF T
  <2>. QED
    BY <1>3, <1>6, <1>7, UpTo
<1>9. size \in T
  BY <1>8
<1>. QED
  BY <1>1, <1>2, <1>4, <1>5, <1>9

(* A number followed by another.                                           *)
LEMMA Joining ==
    ASSUME Powers, NEW n \in Nat, NEW a, IsBytes(a, n), NEW m \in Nat, NEW w, IsBytes(w, m)
    PROVE  IsBytes(a \o w, n + m) /\ Value(a \o w) = Value(a) + Radix ^ n * Value(w)
<1>1. PICK b : b = a \o w
  OBVIOUS
<1>2. a \in [1 .. n -> Byte] /\ w \in [1 .. m -> Byte] /\ Len(a) = n /\ Len(w) = m
  BY DEF IsBytes
<1>3. IsBytes(b, n + m) /\ (\A i \in 1 .. n : b[0 + i] = a[i]) /\ \A i \in 1 .. m : b[n + i] = w[i]
  <2>1. a = [i \in 1 .. n |-> a[i]] /\ w = [i \in 1 .. m |-> w[i]]
    BY <1>2
  <2>2. IsCells(a) /\ IsCells(w)
    BY <1>2, <2>1 DEF IsCells
  <2>3. Joins(b, a, n, w, m)
    BY <1>1, <1>2, <2>2, JoinedTo
  <2>4. \A i \in 1 .. n + m : b[i] = IF i <= n THEN a[i] ELSE w[i - n]
    BY <2>3 DEF Joins
  <2>5. \A i \in 1 .. n + m : b[i] \in Byte
    <3> SUFFICES ASSUME NEW i \in 1 .. n + m
                 PROVE  b[i] \in Byte
      OBVIOUS
    <3>1. CASE i <= n
      BY <1>2, <2>4, <3>1
    <3>2. CASE ~(i <= n)
      <4>1. i - n \in 1 .. m
        BY <3>2
      <4>. QED
        BY <1>2, <2>4, <3>2, <4>1
    <3>. QED
      BY <3>1, <3>2
  <2>6. IsBytes(b, n + m)
    <3>1. b = [i \in 1 .. n + m |-> b[i]] /\ Len(b) = n + m
      BY <2>3 DEF Joins, IsCells
    <3>. QED
      BY <2>5, <3>1 DEF IsBytes
  <2>7. ASSUME NEW i \in 1 .. n
        PROVE  b[0 + i] = a[i]
    <3>1. 0 + i = i /\ i \in 1 .. n + m /\ i <= n
      OBVIOUS
    <3>. QED
      BY <2>4, <3>1
  <2>8. ASSUME NEW i \in 1 .. m
        PROVE  b[n + i] = w[i]
    <3>1. PICK j \in 1 .. n + m : j = n + i /\ ~(j <= n) /\ j - n = i
      OBVIOUS
    <3>. QED
      BY <2>4, <3>1
  <2>. QED
    BY <2>6, <2>7, <2>8
<1>5. n + m \in Nat /\ 0 \in 0 .. n + m /\ n \in 0 .. n + m /\ n \in 0 .. (n + m) - 0 /\ m \in 0 .. (n + m) - n
  OBVIOUS
<1>6. PICK p : Sums(p, b, n + m) /\ Value(b) = p[n + m]
  BY <1>3, <1>5, ValueSums
<1>4. Part(b, 0, n) = a /\ Part(b, n, m) = w
  <2>1. PICK u, v : u = Part(b, 0, n) /\ v = Part(b, n, m)
    OBVIOUS
  <2>2. /\ IsBytes(u, n) /\ \A i \in 1 .. n : u[i] = b[0 + i]
        /\ IsBytes(v, m) /\ \A i \in 1 .. m : v[i] = b[n + i]
    BY <1>3, <1>5, <2>1, PartBytes
  <2>3. u = a /\ v = w
    BY <1>2, <1>3, <2>2 DEF IsBytes
  <2>. QED
    BY <2>1, <2>3
<1>7. Radix ^ 0 * Value(Part(b, 0, n)) = p[0 + n] - p[0]
  BY <1>3, <1>5, <1>6, Segment
<1>8. Radix ^ n * Value(Part(b, n, m)) = p[n + m] - p[n]
  BY <1>3, <1>5, <1>6, Segment
<1>9. Radix ^ 0 = 1 /\ p[0] = 0 /\ p[n] \in Int /\ p[n + m] \in Int
  BY <1>5, <1>6 DEF Sums, Powers
<1>10. Value(a) \in Int
  BY ValueBelow
<1>11. Value(a) = p[n]
  <2>1. 1 * Value(a) = p[n] - 0
    BY <1>4, <1>7, <1>9
  <2>. QED
    BY <1>9, <1>10, <2>1
<1>12. Radix ^ n * Value(w) = p[n + m] - Value(a)
  BY <1>4, <1>8, <1>11
<1>13. p[n + m] = Value(a) + Radix ^ n * Value(w)
  BY <1>9, <1>10, <1>12
<1>. QED
  BY <1>1, <1>3, <1>6, <1>13

(* The bytes that end with x, from its least significant on: what is left  *)
(* of x by the power of their number.                                      *)
Digits(x, size) == [i \in 1 .. size |-> (x \div Radix ^ (i - 1)) % Radix]

(* As many bytes, and as much of x as they hold.                           *)
LEMMA DigitsOf ==
    ASSUME Powers, NEW x \in Int, NEW size \in Nat
    PROVE  /\ IsBytes(Digits(x, size), size)
           /\ x \div Radix ^ size \in Int
           /\ Value(Digits(x, size)) = x - (x \div Radix ^ size) * Radix ^ size
<1>1. PICK w : w = Digits(x, size)
  OBVIOUS
<1>2. \A k \in Nat : Radix ^ k \in Nat \ {0} /\ x \div Radix ^ k \in Int
  BY FloorDivision DEF Powers
<1>10. \A P, r \in Nat \ {0} : x \div (P * r) = (x \div P) \div r
  <2> SUFFICES ASSUME NEW P \in Nat \ {0}, NEW r \in Nat \ {0}
               PROVE  x \div (P * r) = (x \div P) \div r
    OBVIOUS
  <2>. QED
    BY DivideTwice
<1>3. Radix \in Nat \ {0}
  BY BytesAssumption
<1>4. IsBytes(w, size) /\ \A i \in 1 .. size : w[i] = (x \div Radix ^ (i - 1)) % Radix
  <2>1. \A i \in 1 .. size : (x \div Radix ^ (i - 1)) % Radix \in Byte
    <3> SUFFICES ASSUME NEW i \in 1 .. size
                 PROVE  (x \div Radix ^ (i - 1)) % Radix \in Byte
      OBVIOUS
    <3>1. i - 1 \in Nat
      OBVIOUS
    <3>2. PICK e \in Int : e = x \div Radix ^ (i - 1)
      BY <1>2, <3>1
    <3>3. e % Radix \in 0 .. Radix - 1
      BY <1>3, Remainder
    <3>. QED
      BY <3>2, <3>3 DEF Byte
  <2>2. w = [i \in 1 .. size |-> (x \div Radix ^ (i - 1)) % Radix]
    BY <1>1 DEF Digits
  <2>3. w \in [1 .. size -> Byte]
    BY <2>1, <2>2
  <2>4. Len(w) = size
    BY <2>3
  <2>. QED
    BY <2>2, <2>3, <2>4 DEF IsBytes
<1>5. PICK p : Sums(p, w, size) /\ Value(w) = p[size]
  BY <1>4, ValueSums
<1> DEFINE T == {k \in 0 .. size : p[k] = x - (x \div Radix ^ k) * Radix ^ k}
<1>6. 0 \in T
  <2>1. Radix ^ 0 = 1 /\ p[0] = 0
    BY <1>5 DEF Powers, Sums
  <2>2. x - (x \div 1) * 1 = 0
    OBVIOUS
  <2>. QED
    BY <2>1, <2>2
<1>7. \A k \in 0 .. size - 1 : k \in T => k + 1 \in T
  <2> SUFFICES ASSUME NEW k \in 0 .. size - 1, p[k] = x - (x \div Radix ^ k) * Radix ^ k
               PROVE  p[k + 1] = x - (x \div Radix ^ (k + 1)) * Radix ^ (k + 1)
    OBVIOUS
  <2>1. PICK i \in 1 .. size : i = k + 1 /\ i - 1 = k
    OBVIOUS
  <2>2. k \in Nat
    OBVIOUS
  <2>3. PICK P \in Nat \ {0}, r \in Nat \ {0}, e \in Int : P = Radix ^ k /\ r = Radix /\ e = x \div P
    BY <1>2, <1>3, <2>2
  <2>4. PICK f \in Int : f = e \div r /\ e % r = e - f * r
    BY <2>3, FloorDivision, Remainder
  <2>5. Radix ^ i = P * r
    BY <2>1, <2>2, <2>3 DEF Powers
  <2>6. x \div Radix ^ i = f
    <3>1. x \div (P * r) = (x \div P) \div r
      BY <1>10
    <3>. QED
      BY <2>3, <2>4, <2>5, <3>1
  <2>7. w[i] = e - f * r
    BY <1>4, <2>1, <2>3, <2>4
  <2>8. p[i] = p[k] + P * (e - f * r)
    BY <1>5, <2>1, <2>3, <2>7 DEF Sums
  <2>9. p[k] = x - e * P
    BY <2>3
  <2>10. (x - e * P) + P * (e - f * r) = x - f * (P * r)
    OBVIOUS
  <2>. QED
    BY <2>1, <2>5, <2>6, <2>8, <2>9, <2>10
<1>8. 0 .. size \subseteq T
  <2> HIDE DEF T
  <2>. QED
    BY <1>6, <1>7, UpTo
<1>9. size \in T
  BY <1>8
<1>. QED
  BY <1>1, <1>2, <1>4, <1>5, <1>9

(* A number that a word is added to at its end, of which the word keeps    *)
(* what fits and the rest is carried.                                      *)
LEMMA WordAdded ==
    ASSUME Powers, NEW at \in Nat, NEW out, IsBytes(out, at), NEW sum \in Int, NEW size \in Nat
    PROVE  /\ IsBytes(out \o Digits(sum, size), at + size)
           /\ sum \div Radix ^ size \in Int
           /\ Value(out \o Digits(sum, size)) + Radix ^ (at + size) * (sum \div Radix ^ size)
                = Value(out) + Radix ^ at * sum
<1>1. PICK w : w = Digits(sum, size)
  OBVIOUS
<1>2. IsBytes(w, size) /\ sum \div Radix ^ size \in Int /\ Value(w) = sum - (sum \div Radix ^ size) * Radix ^ size
  BY <1>1, DigitsOf
<1>3. IsBytes(out \o w, at + size) /\ Value(out \o w) = Value(out) + Radix ^ at * Value(w)
  BY <1>2, Joining
<1>4. Radix ^ at \in Nat /\ Radix ^ size \in Nat /\ Radix ^ (at + size) = Radix ^ at * Radix ^ size
  BY PowerOfSum DEF Powers
<1>5. Value(out) \in Int
  BY ValueBelow
<1>6. PICK P \in Nat, Q \in Nat, f \in Int, v \in Int :
          P = Radix ^ at /\ Q = Radix ^ size /\ f = sum \div Radix ^ size /\ v = Value(out)
  BY <1>2, <1>4, <1>5
<1>7. (v + P * (sum - f * Q)) + (P * Q) * f = v + P * sum
  OBVIOUS
<1>. QED
  BY <1>1, <1>2, <1>3, <1>4, <1>6, <1>7

(* A quotient and remainder are known by what they make.                   *)
LEMMA SameParts ==
    ASSUME NEW P \in Nat \ {0}, NEW x \in 0 .. P - 1, NEW y \in 0 .. P - 1, NEW d \in Int, NEW e \in Int,
           x + P * d = y + P * e
    PROVE  d = e /\ x = y
<1>1. PICK z \in Int : z = x + P * d
  OBVIOUS
<1>2. z - d * P \in 0 .. P - 1 /\ z - e * P \in 0 .. P - 1
  <2>1. z - d * P = x /\ z - e * P = y
    BY <1>1
  <2>. QED
    BY <2>1
<1>3. z \div P = d
  BY <1>2, Quotient
<1>4. z \div P = e
  BY <1>2, Quotient
<1>. QED
  BY <1>3, <1>4

(* Strings of one length are the same if they are the same number.         *)
LEMMA ValueOnce ==
    ASSUME Powers, NEW n \in Nat, NEW a, IsBytes(a, n), NEW b, IsBytes(b, n), Value(a) = Value(b)
    PROVE  a = b
<1>1. PICK p : Sums(p, a, n) /\ Value(a) = p[n]
  BY ValueSums
<1>2. PICK q : Sums(q, b, n) /\ Value(b) = q[n]
  BY ValueSums
<1>3. ASSUME NEW k \in 1 .. n, p[k] = q[k]
      PROVE  a[k] = b[k] /\ p[k - 1] = q[k - 1]
  <2>1. PICK j \in 0 .. n - 1 : j = k - 1
    OBVIOUS
  <2>2. j \in 0 .. n /\ j \in Nat
    OBVIOUS
  <2>3. Radix ^ j \in Nat \ {0} /\ p[j] \in 0 .. Radix ^ j - 1 /\ q[j] \in 0 .. Radix ^ j - 1
    BY <1>1, <1>2, <2>2, SumsBelow DEF Powers
  <2>4. a[k] \in Int /\ b[k] \in Int
    BY BytesAssumption DEF IsBytes, Byte
  <2>5. p[j] + Radix ^ j * a[k] = q[j] + Radix ^ j * b[k]
    BY <1>1, <1>2, <1>3, <2>1 DEF Sums
  <2>6. a[k] = b[k] /\ p[j] = q[j]
    <3>1. PICK P \in Nat \ {0}, d \in Int, e \in Int : P = Radix ^ j /\ d = a[k] /\ e = b[k]
      BY <2>3, <2>4
    <3>2. PICK x \in 0 .. P - 1, y \in 0 .. P - 1 : x = p[j] /\ y = q[j]
      BY <2>3, <3>1
    <3>3. x + P * d = y + P * e
      BY <2>5, <3>1, <3>2
    <3>4. d = e /\ x = y
      BY <3>3, SameParts
    <3>. QED
      BY <3>1, <3>2, <3>4
  <2>. QED
    BY <2>1, <2>6
<1> DEFINE T == {k \in 0 .. n : p[n - k] = q[n - k]}
<1>4. 0 \in T
  <2>1. p[n] = q[n]
    BY <1>1, <1>2, Zenon
  <2>2. n - 0 = n
    OBVIOUS
  <2>. QED
    BY <2>1, <2>2
<1>5. \A k \in 0 .. n - 1 : k \in T => k + 1 \in T
  <2> SUFFICES ASSUME NEW k \in 0 .. n - 1, p[n - k] = q[n - k]
               PROVE  p[n - (k + 1)] = q[n - (k + 1)]
    OBVIOUS
  <2>1. PICK j \in 1 .. n : j = n - k /\ j - 1 = n - (k + 1)
    OBVIOUS
  <2>. QED
    BY <1>3, <2>1
<1>6. 0 .. n \subseteq T
  <2> HIDE DEF T
  <2>. QED
    BY <1>4, <1>5, UpTo
<1>7. \A k \in 1 .. n : a[k] = b[k]
  <2> SUFFICES ASSUME NEW k \in 1 .. n
               PROVE  a[k] = b[k]
    OBVIOUS
  <2>1. PICK j \in 0 .. n : j = n - k /\ n - j = k
    OBVIOUS
  <2>. QED
    BY <1>3, <1>6, <2>1
<1>. QED
  BY <1>7 DEF IsBytes

-----------------------------------------------------------------------------
(* Loops that make a string longer                                         *)

(* The lengths of the parts of a string of n: pre[k] is where part k ends. *)
DividedBy(pre, sizes, N, n) ==
    /\ pre \in [0 .. N -> 0 .. n] /\ pre[0] = 0 /\ pre[N] = n
    /\ \A k \in 1 .. N : sizes[k] \in Nat /\ pre[k] = pre[k - 1] + sizes[k]

(* Before each part the string ends where the part begins at the latest.   *)
StaysIn(iter, N, len, pre) ==
    \A s \in SUBSET (1 .. N) : s # {} => len[iter[s \ {Max(s)}]] <= pre[Max(s) - 1]

(* A loop that makes its string longer part by part never makes it longer  *)
(* than the parts, whichever of them it takes.                             *)
LEMMA PartsFold ==
    ASSUME NEW N \in Nat, NEW n \in Nat, NEW pre, NEW sizes, DividedBy(pre, sizes, N, n),
           NEW A, NEW base \in A, NEW F \in [A \X (1 .. N) -> A], NEW len \in [A -> Nat], len[base] = 0,
           \A t \in A, k \in 1 .. N : len[t] <= pre[k - 1] => len[F[<<t, k>>]] <= pre[k]
    PROVE  \E iter \in [SUBSET (1 .. N) -> A] : LeftFold(iter, N, base, F) /\ StaysIn(iter, N, len, pre)
<1>1. PICK iter \in [SUBSET (1 .. N) -> A] : LeftFold(iter, N, base, F)
  BY LeftExists
<1> DEFINE T == {k \in 0 .. N : \A s \in SUBSET (1 .. k) : len[iter[s]] <= pre[k]}
<1>2. \A s \in SUBSET (1 .. N) : iter[s] = IF s = {} THEN base ELSE F[<<iter[s \ {Max(s)}], Max(s)>>]
  BY <1>1 DEF LeftFold
<1>3. 0 \in T
  <2>1. \A s \in SUBSET (1 .. 0) : s = {} /\ s \in SUBSET (1 .. N)
    OBVIOUS
  <2>2. iter[{}] = base
    BY <1>2
  <2>3. pre[0] = 0
    BY DEF DividedBy
  <2>4. len[iter[{}]] <= 0
    BY <2>2
  <2>5. \A s \in SUBSET (1 .. 0) : len[iter[s]] <= pre[0]
    <3> HIDE DEF T
    <3>. QED
      BY <2>1, <2>3, <2>4, Zenon
  <2>. QED
    BY <2>5
<1>4. \A k \in 0 .. N - 1 : k \in T => k + 1 \in T
  <2> SUFFICES ASSUME NEW k \in 0 .. N - 1, \A s \in SUBSET (1 .. k) : len[iter[s]] <= pre[k],
                      NEW s \in SUBSET (1 .. k + 1)
               PROVE  len[iter[s]] <= pre[k + 1]
    OBVIOUS
  <2>1. PICK j \in 1 .. N : j = k + 1 /\ j - 1 = k
    OBVIOUS
  <2>2. pre[j] = pre[k] + sizes[j] /\ sizes[j] \in Nat /\ pre[k] \in Nat /\ pre[j] \in Nat
    <3>1. k \in 0 .. N /\ j \in 0 .. N /\ 0 .. n \subseteq Nat
      OBVIOUS
    <3>. QED
      BY <2>1, <3>1 DEF DividedBy
  <2>3. CASE j \notin s
    <3>1. s \in SUBSET (1 .. k) /\ s \in SUBSET (1 .. N)
      BY <2>1, <2>3
    <3>2. len[iter[s]] <= pre[k] /\ len[iter[s]] \in Nat
      BY <1>1, <3>1
    <3>. QED
      BY <2>1, <2>2, <3>2
  <2>4. CASE j \in s
    <3>1. s \in SUBSET (1 .. N) /\ s # {}
      BY <2>1, <2>4
    <3>2. Max(s) = j
      <4>1. PICK m : m = Max(s)
        OBVIOUS
      <4>2. m \in s /\ m >= j
        BY <2>4, <3>1, <4>1, Largest
      <4>3. m = j
        BY <2>1, <4>2
      <4>. QED
        BY <4>1, <4>3
    <3>3. s \ {j} \in SUBSET (1 .. k) /\ s \ {j} \in SUBSET (1 .. N)
      BY <2>1
    <3>4. iter[s] = F[<<iter[s \ {j}], j>>]
      BY <1>2, <3>1, <3>2
    <3>5. iter[s \ {j}] \in A /\ len[iter[s \ {j}]] <= pre[k]
      BY <1>1, <3>3
    <3>. QED
      BY <2>1, <3>4, <3>5
  <2>. QED
    BY <2>3, <2>4
<1>5. 0 .. N \subseteq T
  <2> HIDE DEF T
  <2>. QED
    BY <1>3, <1>4, UpTo
<1>6. ASSUME NEW s \in SUBSET (1 .. N), s # {}
      PROVE  len[iter[s \ {Max(s)}]] <= pre[Max(s) - 1]
  <2>1. PICK j : j = Max(s)
    OBVIOUS
  <2>2. j \in s /\ \A y \in s : j >= y
    BY <1>6, <2>1, Largest
  <2>3. PICK k \in 0 .. N : k = j - 1
    BY <2>2
  <2>4. s \ {j} \in SUBSET (1 .. k)
    BY <2>2, <2>3
  <2>. QED
    BY <1>5, <2>1, <2>3, <2>4
<1>. QED
  BY <1>1, <1>6 DEF StaysIn

(* The step of Chained, for a word of size bytes.                          *)
ChainStep(t, size, a, b) ==
    LET sum == Value(Part(a, Len(t.out), size)) + Value(Part(b, Len(t.out), size)) + t.c
    IN [out |-> t.out \o Digits(sum, size), c |-> sum \div Radix ^ size]

(* The states of the loop of Chained, and what comes of the last.          *)
ChainRun(g, a, b, carry, sizes, N) ==
    /\ g[0] = [out |-> <<>>, c |-> carry]
    /\ \A k \in 1 .. N : g[k] = ChainStep(g[k - 1], sizes[k], a, b)
    /\ Chained(a, b, carry, sizes) = g[N].out

(* A step adds its word to the string.                                     *)
LEMMA ChainStepMade ==
    ASSUME Powers, NEW n \in Nat, NEW a, IsBytes(a, n), NEW b, IsBytes(b, n),
           NEW t \in [out : Seq(Byte), c : Int], NEW size \in Nat, Len(t.out) + size <= n
    PROVE  /\ ChainStep(t, size, a, b) \in [out : Seq(Byte), c : Int]
           /\ Len(ChainStep(t, size, a, b).out) = Len(t.out) + size
<1>1. PICK at \in Nat : at = Len(t.out)
  OBVIOUS
<1>2. IsBytes(t.out, at)
  BY <1>1 DEF IsBytes
<1>3. at \in 0 .. n /\ size \in 0 .. n - at
  BY <1>1
<1>4. IsBytes(Part(a, at, size), size) /\ IsBytes(Part(b, at, size), size)
  BY <1>3, PartBytes
<1>5. Value(Part(a, at, size)) \in Int /\ Value(Part(b, at, size)) \in Int
  BY <1>4, ValueBelow
<1>6. PICK sum \in Int : sum = Value(Part(a, at, size)) + Value(Part(b, at, size)) + t.c
  BY <1>5
<1>7. IsBytes(t.out \o Digits(sum, size), at + size) /\ sum \div Radix ^ size \in Int
  BY <1>2, <1>6, WordAdded
<1>8. PICK o : o = t.out \o Digits(sum, size)
  OBVIOUS
<1>9. ChainStep(t, size, a, b) = [out |-> o, c |-> sum \div Radix ^ size]
  BY <1>1, <1>6, <1>8 DEF ChainStep
<1>10. o \in Seq(Byte) /\ Len(o) = at + size
  <2>1. at + size \in Nat /\ IsBytes(o, at + size)
    BY <1>7, <1>8
  <2>2. PICK m \in Nat : m = at + size /\ IsBytes(o, m)
    BY <2>1
  <2>3. o \in Seq(Byte) /\ Len(o) = m
    BY <2>2 DEF IsBytes
  <2>. QED
    BY <2>2, <2>3
<1>. QED
  BY <1>1, <1>7, <1>9, <1>10

(* The loop of Chained, word by word.                                      *)
LEMMA ChainSteps ==
    ASSUME Powers, NEW n \in Nat, NEW a, IsBytes(a, n), NEW b, IsBytes(b, n), NEW carry \in Int,
           NEW N \in Nat, NEW pre, NEW sizes \in [1 .. N -> Nat], DividedBy(pre, sizes, N, n)
    PROVE  \E g : ChainRun(g, a, b, carry, sizes, N)
<1> DEFINE A == [out : Seq(Byte), c : Int]
           base == [out |-> <<>>, c |-> carry]
           len == [t \in A |-> Len(t.out)]
<1>1. base \in A /\ len[base] = 0 /\ len \in [A -> Nat] /\ \A t \in A : len[t] = Len(t.out)
  OBVIOUS
<1>2. ASSUME NEW t \in A, NEW k \in 1 .. N, len[t] <= pre[k - 1]
      PROVE  ChainStep(t, sizes[k], a, b) \in A /\ len[ChainStep(t, sizes[k], a, b)] <= pre[k]
  <2>1. PICK j \in 0 .. N - 1 : j = k - 1
    OBVIOUS
  <2>2. j \in 0 .. N /\ k \in 0 .. N
    OBVIOUS
  <2>3. pre[k] = pre[j] + sizes[k] /\ sizes[k] \in Nat /\ pre[j] \in Nat /\ pre[k] \in Nat /\ pre[k] <= n
    BY <2>1, <2>2 DEF DividedBy
  <2>4. t \in [out : Seq(Byte), c : Int] /\ Len(t.out) \in Nat /\ Len(t.out) <= pre[j]
    BY <1>2, <2>1
  <2>5. Len(t.out) + sizes[k] <= n /\ Len(t.out) + sizes[k] <= pre[k]
    BY <2>3, <2>4
  <2>6. PICK u : u = ChainStep(t, sizes[k], a, b)
    OBVIOUS
  <2>7. u \in A /\ Len(u.out) = Len(t.out) + sizes[k]
    <3>1. PICK size \in Nat : size = sizes[k]
      BY <2>3
    <3>2. Len(t.out) + size <= n /\ u = ChainStep(t, size, a, b)
      BY <2>5, <2>6, <3>1
    <3>3. t \in [out : Seq(Byte), c : Int]
      BY <2>4
    <3> HIDE DEF A, base, len
    <3>4. /\ ChainStep(t, size, a, b) \in [out : Seq(Byte), c : Int]
          /\ Len(ChainStep(t, size, a, b).out) = Len(t.out) + size
      BY ONLY Powers, n \in Nat, IsBytes(a, n), IsBytes(b, n), <3>2, <3>3, ChainStepMade
    <3>. QED
      BY <3>1, <3>2, <3>4 DEF A
  <2>. QED
    BY <1>1, <2>5, <2>6, <2>7
<1> HIDE DEF A, base, len
<1> DEFINE F == [p \in A \X (1 .. N) |-> IF len[p[1]] <= pre[p[2] - 1] THEN ChainStep(p[1], sizes[p[2]], a, b) ELSE p[1]]
<1>3. F \in [A \X (1 .. N) -> A]
  BY <1>2
<1>4. \A t \in A, k \in 1 .. N : len[t] <= pre[k - 1] => F[<<t, k>>] = ChainStep(t, sizes[k], a, b)
  OBVIOUS
<1> HIDE DEF F
<1>5. \A t \in A, k \in 1 .. N : len[t] <= pre[k - 1] => len[F[<<t, k>>]] <= pre[k]
  BY <1>2, <1>4
<1>6. PICK iter \in [SUBSET (1 .. N) -> A] : LeftFold(iter, N, base, F) /\ StaysIn(iter, N, len, pre)
  BY <1>1, <1>3, <1>5, PartsFold
<1> DEFINE Eq(f) == f = [S \in SUBSET (DOMAIN sizes) |->
                           IF S = {} THEN [out |-> <<>>, c |-> carry]
                           ELSE ChainStep(f[S \ {Max(S)}], sizes[Max(S)], a, b)]
           h == CHOOSE f : Eq(f)
<1>7. DOMAIN sizes = 1 .. N
  OBVIOUS
<1>8. Chained(a, b, carry, sizes) = h[DOMAIN sizes].out
  BY DEF Chained, ChainStep, Part, Digits, FoldLeft, MapThenFoldSet
<1>9. Eq(h)
  <2>1. \A S \in SUBSET (1 .. N) : S # {} => S \ {Max(S)} \in SUBSET (1 .. N) /\ Max(S) \in 1 .. N
    BY Largest
  <2>2. \A S \in SUBSET (1 .. N) : S # {} => F[<<iter[S \ {Max(S)}], Max(S)>>]
                                               = ChainStep(iter[S \ {Max(S)}], sizes[Max(S)], a, b)
    BY <1>4, <1>6, <2>1 DEF StaysIn
  <2>3. Eq(iter)
    BY <1>6, <1>7, <2>2 DEF LeftFold, base
  <2>. QED
    BY <2>3, Zenon
<1> HIDE DEF h
<1>10. h[1 .. 0] = base
  BY <1>7, <1>9 DEF base
<1>11. ASSUME NEW k \in 1 .. N
       PROVE  h[1 .. k] = ChainStep(h[1 .. k - 1], sizes[k], a, b)
  <2>1. PICK S : S = 1 .. k
    OBVIOUS
  <2>2. S \in SUBSET (1 .. N) /\ S # {} /\ Max(S) = k /\ S \ {k} = 1 .. k - 1
    BY <2>1, LargestOf
  <2>3. h[S] = ChainStep(h[S \ {Max(S)}], sizes[Max(S)], a, b)
    BY <1>7, <1>9, <2>2
  <2>4. h[S] = ChainStep(h[1 .. k - 1], sizes[k], a, b)
    BY <2>2, <2>3
  <2>. QED
    BY <2>1, <2>4
<1> DEFINE g == [k \in 0 .. N |-> h[1 .. k]]
<1>12. /\ g[0] = [out |-> <<>>, c |-> carry]
       /\ \A k \in 1 .. N : g[k] = ChainStep(g[k - 1], sizes[k], a, b)
       /\ Chained(a, b, carry, sizes) = g[N].out
  BY <1>7, <1>8, <1>10, <1>11 DEF base
<1> HIDE DEF g
<1>. QED
  BY <1>12 DEF ChainRun

(* After words of at bytes: the sum of what was added, less what is        *)
(* carried.                                                                *)
ChainState(t, at, p, q, carry) ==
    /\ IsBytes(t.out, at) /\ t.c \in Int
    /\ Value(t.out) + Radix ^ at * t.c = p[at] + q[at] + carry

(* The next word keeps it so.                                              *)
LEMMA ChainMore ==
    ASSUME Powers, NEW n \in Nat, NEW a, IsBytes(a, n), NEW b, IsBytes(b, n), NEW carry \in Int,
           NEW p, Sums(p, a, n), NEW q, Sums(q, b, n),
           NEW at \in 0 .. n, NEW size \in 0 .. n - at, NEW t, ChainState(t, at, p, q, carry)
    PROVE  ChainState(ChainStep(t, size, a, b), at + size, p, q, carry)
<1>1. at \in Nat /\ size \in Nat /\ Len(t.out) = at /\ IsBytes(t.out, at) /\ t.c \in Int
  BY DEF ChainState, IsBytes
<1>2. IsBytes(Part(a, at, size), size) /\ IsBytes(Part(b, at, size), size)
  BY PartBytes
<1>3. PICK x \in Int, y \in Int, c \in Int : x = Value(Part(a, at, size)) /\ y = Value(Part(b, at, size)) /\ c = t.c
  BY <1>1, <1>2, ValueBelow
<1>4. PICK sum \in Int : sum = x + y + c
  OBVIOUS
<1>5. PICK o : o = t.out \o Digits(sum, size)
  OBVIOUS
<1>6. PICK d : d = sum \div Radix ^ size
  OBVIOUS
<1>7. ChainStep(t, size, a, b) = [out |-> o, c |-> d]
  BY <1>1, <1>3, <1>4, <1>5, <1>6 DEF ChainStep
<1>8. IsBytes(o, at + size) /\ d \in Int /\ Value(o) + Radix ^ (at + size) * d = Value(t.out) + Radix ^ at * sum
  BY <1>1, <1>5, <1>6, WordAdded
<1>9. PICK P \in Int, v \in Int : P = Radix ^ at /\ v = Value(t.out)
  BY <1>1, ValueBelow DEF Powers
<1>10. P * x = p[at + size] - p[at] /\ P * y = q[at + size] - q[at]
  BY <1>3, <1>9, Segment
<1>11. v + P * c = p[at] + q[at] + carry
  BY <1>3, <1>9 DEF ChainState
<1>12. p[at] \in Int /\ q[at] \in Int /\ p[at + size] \in Int /\ q[at + size] \in Int
  <2>1. at + size \in 0 .. n
    OBVIOUS
  <2>. QED
    BY <2>1 DEF Sums
<1>13. P * sum = P * x + P * y + P * c
  BY <1>4
<1>14. P * x \in Int /\ P * y \in Int /\ P * c \in Int
  OBVIOUS
<1>15. v + P * sum = p[at + size] + q[at + size] + carry
  <2>1. PICK Px \in Int, Py \in Int, Pc \in Int, Ps \in Int : Px = P * x /\ Py = P * y /\ Pc = P * c /\ Ps = P * sum
    BY <1>14
  <2>2. PICK p1 \in Int, p2 \in Int, q1 \in Int, q2 \in Int :
            p1 = p[at] /\ p2 = p[at + size] /\ q1 = q[at] /\ q2 = q[at + size]
    BY <1>12
  <2>3. Px = p2 - p1 /\ Py = q2 - q1 /\ v + Pc = p1 + q1 + carry /\ Ps = Px + Py + Pc
    BY <1>10, <1>11, <1>13, <2>1, <2>2
  <2>4. v + Ps = p2 + q2 + carry
    BY <2>3
  <2>. QED
    BY <2>1, <2>2, <2>4
<1>. QED
  BY <1>7, <1>8, <1>9, <1>15 DEF ChainState

(* The empty string is zero.                                               *)
LEMMA Nothing == ASSUME Powers PROVE IsBytes(<<>>, 0) /\ Value(<<>>) = 0
<1>1. IsBytes(<<>>, 0)
  BY DEF IsBytes
<1>2. Value(<<>>) \in 0 .. Radix ^ 0 - 1 /\ Radix ^ 0 = 1
  BY <1>1, ValueBelow DEF Powers
<1>. QED
  BY <1>1, <1>2

(* Chained adds numbers, up to the power of their length.                  *)
LEMMA ChainedRight ==
    ASSUME Powers, NEW n \in Nat, NEW a, IsBytes(a, n), NEW b, IsBytes(b, n), NEW carry \in Int,
           NEW N \in Nat, NEW pre, NEW sizes \in [1 .. N -> Nat], DividedBy(pre, sizes, N, n)
    PROVE  /\ IsBytes(Chained(a, b, carry, sizes), n)
           /\ Value(Chained(a, b, carry, sizes)) = (Value(a) + Value(b) + carry) % Radix ^ n
<1>1. PICK g : ChainRun(g, a, b, carry, sizes, N)
  BY ChainSteps
<1>2. PICK p, q : Sums(p, a, n) /\ Value(a) = p[n] /\ Sums(q, b, n) /\ Value(b) = q[n]
  BY ValueSums
<1> DEFINE T == {k \in 0 .. N : ChainState(g[k], pre[k], p, q, carry)}
<1>3. 0 \in T
  <2>1. g[0] = [out |-> <<>>, c |-> carry] /\ pre[0] = 0 /\ p[0] = 0 /\ q[0] = 0
    BY <1>1, <1>2 DEF ChainRun, DividedBy, Sums
  <2>2. Radix ^ 0 = 1
    BY DEF Powers
  <2>3. Value(<<>>) + Radix ^ 0 * carry = 0 + 0 + carry
    BY <2>2, Nothing
  <2>4. ChainState([out |-> <<>>, c |-> carry], 0, p, q, carry)
    BY <2>1, <2>3, Nothing DEF ChainState
  <2>. QED
    BY <2>1, <2>4
<1>4. \A k \in 0 .. N - 1 : k \in T => k + 1 \in T
  <2> SUFFICES ASSUME NEW k \in 0 .. N - 1, ChainState(g[k], pre[k], p, q, carry)
               PROVE  ChainState(g[k + 1], pre[k + 1], p, q, carry)
    OBVIOUS
  <2>1. PICK j \in 1 .. N : j = k + 1 /\ j - 1 = k
    OBVIOUS
  <2>2. g[j] = ChainStep(g[k], sizes[j], a, b)
    BY <1>1, <2>1 DEF ChainRun
  <2>3. k \in 0 .. N /\ j \in 0 .. N
    OBVIOUS
  <2>4. pre[j] = pre[k] + sizes[j] /\ sizes[j] \in Nat /\ pre[k] \in 0 .. n /\ pre[j] \in 0 .. n
    BY <2>1, <2>3 DEF DividedBy
  <2>5. PICK at \in 0 .. n, size \in Nat : at = pre[k] /\ size = sizes[j]
    BY <2>4
  <2>6. size \in 0 .. n - at
    BY <2>4, <2>5
  <2>7. ChainState(ChainStep(g[k], size, a, b), at + size, p, q, carry)
    BY <1>2, <2>5, <2>6, ChainMore
  <2>. QED
    BY <2>1, <2>2, <2>4, <2>5, <2>7
<1>5. 0 .. N \subseteq T
  <2> HIDE DEF T
  <2>. QED
    BY <1>3, <1>4, UpTo
<1>6. ChainState(g[N], n, p, q, carry)
  <2>1. N \in T /\ pre[N] = n
    BY <1>5 DEF DividedBy
  <2>. QED
    BY <2>1
<1>7. PICK o : o = Chained(a, b, carry, sizes)
  OBVIOUS
<1>8. IsBytes(o, n) /\ g[N].c \in Int /\ Value(o) + Radix ^ n * g[N].c = p[n] + q[n] + carry
  BY <1>1, <1>6, <1>7 DEF ChainRun, ChainState
<1>9. Value(o) \in 0 .. Radix ^ n - 1 /\ Radix ^ n \in Nat \ {0} /\ Value(a) \in Int /\ Value(b) \in Int
  BY <1>8, ValueBelow DEF Powers
<1>10. PICK P \in Nat \ {0}, c \in Int, v \in Int, x \in Int :
           P = Radix ^ n /\ c = g[N].c /\ v = Value(o) /\ x = Value(a) + Value(b) + carry
  BY <1>8, <1>9
<1>11. v + P * c = x /\ v \in 0 .. P - 1
  BY <1>2, <1>8, <1>9, <1>10
<1>12. x \div P = c
  <2>1. P * c = c * P /\ P * c \in Int
    OBVIOUS
  <2>2. x - c * P \in 0 .. P - 1
    BY <1>11, <2>1
  <2>. QED
    BY <2>2, Quotient
<1>13. x % P = v
  <2>1. x % P = x - (x \div P) * P
    BY Remainder
  <2>2. P * c = c * P /\ P * c \in Int
    OBVIOUS
  <2>. QED
    BY <1>11, <1>12, <2>1, <2>2
<1>. QED
  BY <1>7, <1>8, <1>10, <1>13

(* The parts of sodium_sub.                                                *)
SubSizes(n) == IF n = 8 * Word THEN [i \in 1 .. 8 |-> Word] ELSE [i \in 1 .. n |-> 1]

(* The step of sodium_sub, for a word of size bytes.                       *)
SubStep(t, size, a, b) ==
    LET diff == (Value(Part(a, Len(t.out), size)) - Value(Part(b, Len(t.out), size))) - t.c
    IN [out |-> t.out \o Digits(diff, size), c |-> (diff \div Radix ^ size) % 2]

(* The states of the loop of sodium_sub, and what comes of the last.       *)
SubRun(g, a, b, sizes, N) ==
    /\ g[0] = [out |-> <<>>, c |-> 0]
    /\ \A k \in 1 .. N : g[k] = SubStep(g[k - 1], sizes[k], a, b)
    /\ (sizes = SubSizes(Len(a)) => sodium_sub(a, b) = g[N].out)

(* A step adds its word to the string and borrows at most one.             *)
LEMMA SubStepMade ==
    ASSUME Powers, NEW n \in Nat, NEW a, IsBytes(a, n), NEW b, IsBytes(b, n),
           NEW t \in [out : Seq(Byte), c : 0 .. 1], NEW size \in Nat, Len(t.out) + size <= n
    PROVE  /\ SubStep(t, size, a, b) \in [out : Seq(Byte), c : 0 .. 1]
           /\ Len(SubStep(t, size, a, b).out) = Len(t.out) + size
<1>1. PICK at \in Nat : at = Len(t.out)
  OBVIOUS
<1>2. IsBytes(t.out, at)
  BY <1>1 DEF IsBytes
<1>3. at \in 0 .. n /\ size \in 0 .. n - at
  BY <1>1
<1>4. IsBytes(Part(a, at, size), size) /\ IsBytes(Part(b, at, size), size)
  BY <1>3, PartBytes
<1>5. Value(Part(a, at, size)) \in Int /\ Value(Part(b, at, size)) \in Int
  BY <1>4, ValueBelow
<1>6. PICK diff \in Int : diff = (Value(Part(a, at, size)) - Value(Part(b, at, size))) - t.c
  BY <1>5
<1>11. IsBytes(t.out \o Digits(diff, size), at + size) /\ diff \div Radix ^ size \in Int
  BY <1>2, <1>6, WordAdded
<1>7. IsBytes(t.out \o Digits(diff, size), at + size) /\ (diff \div Radix ^ size) % 2 \in 0 .. 1
  <2>1. \A f \in Int : f % 2 \in 0 .. 1
    OBVIOUS
  <2>. QED
    BY <1>11, <2>1
<1>8. PICK o : o = t.out \o Digits(diff, size)
  OBVIOUS
<1>9. SubStep(t, size, a, b) = [out |-> o, c |-> (diff \div Radix ^ size) % 2]
  BY <1>1, <1>6, <1>8 DEF SubStep
<1>10. o \in Seq(Byte) /\ Len(o) = at + size
  <2>1. at + size \in Nat /\ IsBytes(o, at + size)
    BY <1>7, <1>8
  <2>2. PICK m \in Nat : m = at + size /\ IsBytes(o, m)
    BY <2>1
  <2>3. o \in Seq(Byte) /\ Len(o) = m
    BY <2>2 DEF IsBytes
  <2>. QED
    BY <2>2, <2>3
<1>. QED
  BY <1>1, <1>7, <1>9, <1>10

(* The loop of sodium_sub, word by word.                                   *)
LEMMA SubSteps ==
    ASSUME Powers, NEW n \in Nat, NEW a, IsBytes(a, n), NEW b, IsBytes(b, n),
           NEW N \in Nat, NEW pre, NEW sizes \in [1 .. N -> Nat], DividedBy(pre, sizes, N, n)
    PROVE  \E g : SubRun(g, a, b, sizes, N)
<1> DEFINE A == [out : Seq(Byte), c : 0 .. 1]
           base == [out |-> <<>>, c |-> 0]
           len == [t \in A |-> Len(t.out)]
<1>1. base \in A /\ len[base] = 0 /\ len \in [A -> Nat] /\ \A t \in A : len[t] = Len(t.out)
  OBVIOUS
<1>2. ASSUME NEW t \in A, NEW k \in 1 .. N, len[t] <= pre[k - 1]
      PROVE  SubStep(t, sizes[k], a, b) \in A /\ len[SubStep(t, sizes[k], a, b)] <= pre[k]
  <2>1. PICK j \in 0 .. N - 1 : j = k - 1
    OBVIOUS
  <2>2. j \in 0 .. N /\ k \in 0 .. N
    OBVIOUS
  <2>3. pre[k] = pre[j] + sizes[k] /\ sizes[k] \in Nat /\ pre[j] \in Nat /\ pre[k] \in Nat /\ pre[k] <= n
    BY <2>1, <2>2 DEF DividedBy
  <2>4. t \in [out : Seq(Byte), c : 0 .. 1] /\ Len(t.out) \in Nat /\ Len(t.out) <= pre[j]
    BY <1>2, <2>1
  <2>5. Len(t.out) + sizes[k] <= n /\ Len(t.out) + sizes[k] <= pre[k]
    BY <2>3, <2>4
  <2>6. PICK u : u = SubStep(t, sizes[k], a, b)
    OBVIOUS
  <2>7. u \in A /\ Len(u.out) = Len(t.out) + sizes[k]
    BY <2>3, <2>4, <2>5, <2>6, SubStepMade
  <2>. QED
    BY <1>1, <2>5, <2>6, <2>7
<1> HIDE DEF A, base, len
<1> DEFINE F == [p \in A \X (1 .. N) |-> IF len[p[1]] <= pre[p[2] - 1] THEN SubStep(p[1], sizes[p[2]], a, b) ELSE p[1]]
<1>3. F \in [A \X (1 .. N) -> A]
  BY <1>2
<1>4. \A t \in A, k \in 1 .. N : len[t] <= pre[k - 1] => F[<<t, k>>] = SubStep(t, sizes[k], a, b)
  OBVIOUS
<1> HIDE DEF F
<1>5. \A t \in A, k \in 1 .. N : len[t] <= pre[k - 1] => len[F[<<t, k>>]] <= pre[k]
  BY <1>2, <1>4
<1>6. PICK iter \in [SUBSET (1 .. N) -> A] : LeftFold(iter, N, base, F) /\ StaysIn(iter, N, len, pre)
  BY <1>1, <1>3, <1>5, PartsFold
<1> DEFINE Eq(f) == f = [S \in SUBSET (DOMAIN sizes) |->
                           IF S = {} THEN [out |-> <<>>, c |-> 0]
                           ELSE SubStep(f[S \ {Max(S)}], sizes[Max(S)], a, b)]
           h == CHOOSE f : Eq(f)
<1>7. DOMAIN sizes = 1 .. N
  OBVIOUS
<1>8. sizes = SubSizes(Len(a)) => sodium_sub(a, b) = h[DOMAIN sizes].out
  BY DEF sodium_sub, SubSizes, SubStep, Part, Digits, FoldLeft, MapThenFoldSet
<1>9. Eq(h)
  <2>1. \A S \in SUBSET (1 .. N) : S # {} => S \ {Max(S)} \in SUBSET (1 .. N) /\ Max(S) \in 1 .. N
    BY Largest
  <2>2. \A S \in SUBSET (1 .. N) : S # {} => F[<<iter[S \ {Max(S)}], Max(S)>>]
                                               = SubStep(iter[S \ {Max(S)}], sizes[Max(S)], a, b)
    BY <1>4, <1>6, <2>1 DEF StaysIn
  <2>3. Eq(iter)
    BY <1>6, <1>7, <2>2 DEF LeftFold, base
  <2>. QED
    BY <2>3, Zenon
<1> HIDE DEF h
<1>10. h[1 .. 0] = base
  BY <1>7, <1>9 DEF base
<1>11. ASSUME NEW k \in 1 .. N
       PROVE  h[1 .. k] = SubStep(h[1 .. k - 1], sizes[k], a, b)
  <2>1. PICK S : S = 1 .. k
    OBVIOUS
  <2>2. S \in SUBSET (1 .. N) /\ S # {} /\ Max(S) = k /\ S \ {k} = 1 .. k - 1
    BY <2>1, LargestOf
  <2>3. h[S] = SubStep(h[S \ {Max(S)}], sizes[Max(S)], a, b)
    BY <1>7, <1>9, <2>2
  <2>4. h[S] = SubStep(h[1 .. k - 1], sizes[k], a, b)
    BY <2>2, <2>3
  <2>. QED
    BY <2>1, <2>4
<1> DEFINE g == [k \in 0 .. N |-> h[1 .. k]]
<1>12. /\ g[0] = [out |-> <<>>, c |-> 0]
       /\ \A k \in 1 .. N : g[k] = SubStep(g[k - 1], sizes[k], a, b)
       /\ (sizes = SubSizes(Len(a)) => sodium_sub(a, b) = g[N].out)
  BY <1>7, <1>8, <1>10, <1>11 DEF base
<1> HIDE DEF g
<1>. QED
  BY <1>12 DEF SubRun

(* A difference of two numbers of size bytes and a borrow is borrowed once *)
(* at most.                                                                *)
LEMMA BorrowedOnce ==
    ASSUME NEW Q \in Nat \ {0}, NEW x \in 0 .. Q - 1, NEW y \in 0 .. Q - 1, NEW c \in 0 .. 1
    PROVE  /\ ((x - y) - c) \div Q \in {-1, 0}
           /\ (((x - y) - c) \div Q) % 2 = -(((x - y) - c) \div Q)
<1>1. PICK d \in Int : d = (x - y) - c
  OBVIOUS
<1>2. -Q <= d /\ d <= Q - 1
  BY <1>1
<1>3. CASE d < 0
  <2>1. d - (-1) * Q \in 0 .. Q - 1
    BY <1>2, <1>3
  <2>2. d \div Q = -1
    BY <2>1, Quotient
  <2>3. PICK e \in Int : e = d \div Q /\ e = -1
    BY <2>2
  <2>4. PICK f \in Int, r \in 0 .. 1 : r = e - f * 2 /\ e % 2 = r
    <3>1. 2 \in Nat \ {0}
      OBVIOUS
    <3>2. e % 2 = e - (e \div 2) * 2 /\ e % 2 \in 0 .. 2 - 1 /\ e \div 2 \in Int
      BY <3>1, Remainder, FloorDivision
    <3>. QED
      BY <3>2
  <2>5. r = 1 /\ -e = 1
    BY <2>3, <2>4
  <2>. QED
    BY <1>1, <2>3, <2>4, <2>5
<1>4. CASE ~(d < 0)
  <2>1. d - 0 * Q \in 0 .. Q - 1
    BY <1>2, <1>4
  <2>2. d \div Q = 0
    BY <2>1, Quotient
  <2>3. 0 % 2 = 0
    OBVIOUS
  <2>. QED
    BY <1>1, <2>2, <2>3
<1>. QED
  BY <1>3, <1>4

(* After words of at bytes: the difference, with what was borrowed.        *)
SubState(t, at, p, q) ==
    /\ IsBytes(t.out, at) /\ t.c \in 0 .. 1
    /\ Value(t.out) - Radix ^ at * t.c = p[at] - q[at]

(* The next word keeps it so.                                              *)
LEMMA SubMore ==
    ASSUME Powers, NEW n \in Nat, NEW a, IsBytes(a, n), NEW b, IsBytes(b, n),
           NEW p, Sums(p, a, n), NEW q, Sums(q, b, n),
           NEW at \in 0 .. n, NEW size \in 0 .. n - at, NEW t, SubState(t, at, p, q)
    PROVE  SubState(SubStep(t, size, a, b), at + size, p, q)
<1>1. at \in Nat /\ size \in Nat /\ Len(t.out) = at /\ IsBytes(t.out, at) /\ t.c \in 0 .. 1
  BY DEF SubState, IsBytes
<1>2. IsBytes(Part(a, at, size), size) /\ IsBytes(Part(b, at, size), size)
  BY PartBytes
<1>16. PICK Q \in Nat \ {0} : Q = Radix ^ size
  BY <1>1 DEF Powers
<1>3. PICK x \in 0 .. Q - 1, y \in 0 .. Q - 1, c \in 0 .. 1 :
          x = Value(Part(a, at, size)) /\ y = Value(Part(b, at, size)) /\ c = t.c
  BY <1>1, <1>2, <1>16, ValueBelow
<1>4. PICK diff \in Int : diff = (x - y) - c
  OBVIOUS
<1>5. PICK o : o = t.out \o Digits(diff, size)
  OBVIOUS
<1>6. PICK d : d = diff \div Q
  OBVIOUS
<1>17. d \in {-1, 0} /\ d % 2 = -d
  BY <1>4, <1>6, BorrowedOnce
<1>7. SubStep(t, size, a, b) = [out |-> o, c |-> -d]
  BY <1>1, <1>3, <1>4, <1>5, <1>6, <1>16, <1>17 DEF SubStep
<1>8. IsBytes(o, at + size) /\ Value(o) + Radix ^ (at + size) * d = Value(t.out) + Radix ^ at * diff
  BY <1>1, <1>5, <1>6, <1>16, WordAdded
<1>9. PICK P \in Int, v \in Int : P = Radix ^ at /\ v = Value(t.out)
  BY <1>1, ValueBelow DEF Powers
<1>10. P * x = p[at + size] - p[at] /\ P * y = q[at + size] - q[at]
  BY <1>3, <1>9, Segment
<1>11. v - P * c = p[at] - q[at]
  BY <1>3, <1>9 DEF SubState
<1>12. p[at] \in Int /\ q[at] \in Int /\ p[at + size] \in Int /\ q[at + size] \in Int
  <2>1. at + size \in 0 .. n
    OBVIOUS
  <2>. QED
    BY <2>1 DEF Sums
<1>13. P * diff = P * x - P * y - P * c
  BY <1>4
<1>14. P * x \in Int /\ P * y \in Int /\ P * c \in Int /\ P * diff \in Int
  OBVIOUS
<1>15. v + P * diff = p[at + size] - q[at + size]
  <2>1. PICK Px \in Int, Py \in Int, Pc \in Int, Pd \in Int : Px = P * x /\ Py = P * y /\ Pc = P * c /\ Pd = P * diff
    BY <1>14
  <2>2. PICK p1 \in Int, p2 \in Int, q1 \in Int, q2 \in Int :
            p1 = p[at] /\ p2 = p[at + size] /\ q1 = q[at] /\ q2 = q[at + size]
    BY <1>12
  <2>3. Px = p2 - p1 /\ Py = q2 - q1 /\ v - Pc = p1 - q1 /\ Pd = Px - Py - Pc
    BY <1>10, <1>11, <1>13, <2>1, <2>2
  <2>4. v + Pd = p2 - q2
    BY <2>3
  <2>. QED
    BY <2>1, <2>2, <2>4
<1>18. Radix ^ (at + size) \in Int /\ Value(o) \in Int
  <2>1. at + size \in Nat
    BY <1>1
  <2>. QED
    BY <1>8, <2>1, ValueBelow DEF Powers
<1>19. PICK PQ \in Int, w \in Int : PQ = Radix ^ (at + size) /\ w = Value(o)
  BY <1>18
<1>20. w - PQ * (-d) = p[at + size] - q[at + size]
  <2>1. w + PQ * d = v + P * diff
    BY <1>8, <1>9, <1>19
  <2>2. PQ * (-d) = -(PQ * d) /\ PQ * d \in Int
    BY <1>17
  <2>. QED
    BY <1>15, <2>1, <2>2
<1>21. -d \in 0 .. 1
  BY <1>17
<1>. QED
  BY <1>7, <1>8, <1>19, <1>20, <1>21 DEF SubState

(* The difference of two numbers comes out with one borrow at most.        *)
LEMMA SubRight ==
    ASSUME Powers, NEW n \in Nat, NEW a, IsBytes(a, n), NEW b, IsBytes(b, n),
           NEW N \in Nat, NEW pre, NEW sizes \in [1 .. N -> Nat], DividedBy(pre, sizes, N, n), sizes = SubSizes(n)
    PROVE  /\ IsBytes(sodium_sub(a, b), n)
           /\ \E c \in 0 .. 1 : Value(sodium_sub(a, b)) - Radix ^ n * c = Value(a) - Value(b)
<1>1. PICK g : SubRun(g, a, b, sizes, N)
  BY SubSteps
<1>2. PICK p, q : Sums(p, a, n) /\ Value(a) = p[n] /\ Sums(q, b, n) /\ Value(b) = q[n]
  BY ValueSums
<1> DEFINE T == {k \in 0 .. N : SubState(g[k], pre[k], p, q)}
<1>3. 0 \in T
  <2>1. g[0] = [out |-> <<>>, c |-> 0] /\ pre[0] = 0 /\ p[0] = 0 /\ q[0] = 0
    BY <1>1, <1>2 DEF SubRun, DividedBy, Sums
  <2>2. Radix ^ 0 = 1
    BY DEF Powers
  <2>3. Value(<<>>) - Radix ^ 0 * 0 = 0 - 0
    BY <2>2, Nothing
  <2>4. SubState([out |-> <<>>, c |-> 0], 0, p, q)
    BY <2>1, <2>3, Nothing DEF SubState
  <2>. QED
    BY <2>1, <2>4
<1>4. \A k \in 0 .. N - 1 : k \in T => k + 1 \in T
  <2> SUFFICES ASSUME NEW k \in 0 .. N - 1, SubState(g[k], pre[k], p, q)
               PROVE  SubState(g[k + 1], pre[k + 1], p, q)
    OBVIOUS
  <2>1. PICK j \in 1 .. N : j = k + 1 /\ j - 1 = k
    OBVIOUS
  <2>2. g[j] = SubStep(g[k], sizes[j], a, b)
    BY <1>1, <2>1 DEF SubRun
  <2>3. k \in 0 .. N /\ j \in 0 .. N
    OBVIOUS
  <2>4. pre[j] = pre[k] + sizes[j] /\ sizes[j] \in Nat /\ pre[k] \in 0 .. n /\ pre[j] \in 0 .. n
    BY <2>1, <2>3 DEF DividedBy
  <2>5. PICK at \in 0 .. n, size \in Nat : at = pre[k] /\ size = sizes[j]
    BY <2>4
  <2>6. size \in 0 .. n - at
    BY <2>4, <2>5
  <2>7. SubState(SubStep(g[k], size, a, b), at + size, p, q)
    BY <1>2, <2>5, <2>6, SubMore
  <2>. QED
    BY <2>1, <2>2, <2>4, <2>5, <2>7
<1>5. 0 .. N \subseteq T
  <2> HIDE DEF T
  <2>. QED
    BY <1>3, <1>4, UpTo
<1>6. SubState(g[N], n, p, q)
  <2>1. N \in T /\ pre[N] = n
    BY <1>5 DEF DividedBy
  <2>. QED
    BY <2>1
<1>7. Len(a) = n
  BY DEF IsBytes
<1>8. sodium_sub(a, b) = g[N].out
  BY <1>1, <1>7 DEF SubRun
<1>. QED
  BY <1>2, <1>6, <1>8 DEF SubState

-----------------------------------------------------------------------------
(* The parts of increment, add and sub                                     *)

(* Parts of one size.                                                      *)
LEMMA Evenly ==
    ASSUME NEW N \in Nat, NEW s \in Nat
    PROVE  /\ [i \in 1 .. N |-> s] \in [1 .. N -> Nat]
           /\ DividedBy([k \in 0 .. N |-> k * s], [i \in 1 .. N |-> s], N, N * s)
<1>1. PICK pre : pre = [k \in 0 .. N |-> k * s]
  OBVIOUS
<1>2. \A k \in 0 .. N : pre[k] = k * s /\ k * s \in Nat /\ k * s <= N * s
  <2> SUFFICES ASSUME NEW k \in 0 .. N
               PROVE  k * s \in Nat /\ k * s <= N * s
    BY <1>1
  <2>1. k \in Nat /\ k <= N
    OBVIOUS
  <2>. QED
    BY <2>1, Products
<1>3. N * s \in Nat
  BY Products
<1>4. pre \in [0 .. N -> 0 .. N * s]
  <2>1. \A k \in 0 .. N : pre[k] \in 0 .. N * s
    BY <1>2, <1>3
  <2>. QED
    BY <1>1, <2>1
<1>5. \A k \in 1 .. N : pre[k] = pre[k - 1] + s
  <2> SUFFICES ASSUME NEW k \in 1 .. N
               PROVE  pre[k] = pre[k - 1] + s
    OBVIOUS
  <2>1. PICK j \in Nat : j = k - 1 /\ k = j + 1 /\ j \in 0 .. N /\ k \in 0 .. N
    OBVIOUS
  <2>2. (j + 1) * s = j * s + s
    BY <2>1, Products
  <2>. QED
    BY <1>2, <2>1, <2>2
<1>6. pre[0] = 0 /\ pre[N] = N * s
  BY <1>2
<1>. QED
  BY <1>1, <1>4, <1>5, <1>6 DEF DividedBy

(* A string in bytes.                                                      *)
LEMMA ByBytes ==
    ASSUME NEW n \in Nat
    PROVE  /\ [i \in 1 .. n |-> 1] \in [1 .. n -> Nat]
           /\ \E pre : DividedBy(pre, [i \in 1 .. n |-> 1], n, n)
<1>1. n * 1 = n
  OBVIOUS
<1>. QED
  BY <1>1, Evenly

(* The words that the assembly of increment and add takes make up the      *)
(* string.                                                                 *)
LEMMA SizesDivide ==
    ASSUME NEW n \in Nat
    PROVE  \E N \in Nat : Sizes(n) \in [1 .. N -> Nat] /\ \E pre : DividedBy(pre, Sizes(n), N, n)
<1>1. Word \in Nat /\ Word # 0 /\ Word \div 2 \in Nat
  BY BytesAssumption
<1>2. CASE n = Word + Word \div 2
  <2>1. PICK W \in Nat, h \in Nat : W = Word /\ h = Word \div 2
    BY <1>1
  <2>2. Sizes(n) = <<W, h>>
    BY <1>2, <2>1 DEF Sizes
  <2>3. <<W, h>> \in [1 .. 2 -> Nat]
    OBVIOUS
  <2>4. DividedBy([k \in 0 .. 2 |-> IF k = 0 THEN 0 ELSE IF k = 1 THEN W ELSE W + h], <<W, h>>, 2, W + h)
    <3>1. PICK pre : pre = [k \in 0 .. 2 |-> IF k = 0 THEN 0 ELSE IF k = 1 THEN W ELSE W + h]
      OBVIOUS
    <3>2. pre \in [0 .. 2 -> 0 .. W + h] /\ pre[0] = 0 /\ pre[1] = W /\ pre[2] = W + h
      BY <3>1
    <3>3. \A k \in 1 .. 2 : k = 1 \/ k = 2
      OBVIOUS
    <3>4. \A k \in 1 .. 2 : <<W, h>>[k] \in Nat /\ pre[k] = pre[k - 1] + <<W, h>>[k]
      BY <3>2, <3>3
    <3>. QED
      BY <3>1, <3>2, <3>4 DEF DividedBy
  <2>. QED
    BY <1>2, <2>1, <2>2, <2>3, <2>4
<1>3. CASE n # Word + Word \div 2 /\ n = 3 * Word
  <2>1. Sizes(n) = [i \in 1 .. 3 |-> Word]
    <3>1. Sizes(n) = <<Word, Word, Word>>
      BY <1>3 DEF Sizes
    <3>2. <<Word, Word, Word>> = [i \in 1 .. 3 |-> Word]
      OBVIOUS
    <3>. QED
      BY <3>1, <3>2
  <2>2. [i \in 1 .. 3 |-> Word] \in [1 .. 3 -> Nat] /\ \E pre : DividedBy(pre, [i \in 1 .. 3 |-> Word], 3, 3 * Word)
    BY <1>1, Evenly
  <2>. QED
    BY <1>3, <2>1, <2>2
<1>4. CASE n # Word + Word \div 2 /\ n # 3 * Word /\ n = Word
  <2>1. Sizes(n) = [i \in 1 .. 1 |-> Word]
    <3>1. Sizes(n) = <<Word>>
      BY <1>4 DEF Sizes
    <3>2. <<Word>> = [i \in 1 .. 1 |-> Word]
      OBVIOUS
    <3>. QED
      BY <3>1, <3>2
  <2>2. [i \in 1 .. 1 |-> Word] \in [1 .. 1 -> Nat] /\ \E pre : DividedBy(pre, [i \in 1 .. 1 |-> Word], 1, 1 * Word)
    BY <1>1, Evenly
  <2>3. 1 * Word = n
    BY <1>1, <1>4
  <2>. QED
    BY <2>1, <2>2, <2>3
<1>5. CASE n # Word + Word \div 2 /\ n # 3 * Word /\ n # Word
  <2>1. Sizes(n) = [i \in 1 .. n |-> 1]
    BY <1>5 DEF Sizes
  <2>. QED
    BY <2>1, ByBytes
<1>. QED
  BY <1>2, <1>3, <1>4, <1>5

(* So do those of sub.                                                     *)
LEMMA SubSizesDivide ==
    ASSUME NEW n \in Nat
    PROVE  \E N \in Nat : SubSizes(n) \in [1 .. N -> Nat] /\ \E pre : DividedBy(pre, SubSizes(n), N, n)
<1>1. CASE n = 8 * Word
  <2>1. SubSizes(n) = [i \in 1 .. 8 |-> Word] /\ Word \in Nat /\ 8 \in Nat
    BY <1>1, BytesAssumption DEF SubSizes
  <2>2. [i \in 1 .. 8 |-> Word] \in [1 .. 8 -> Nat] /\ \E pre : DividedBy(pre, [i \in 1 .. 8 |-> Word], 8, 8 * Word)
    BY <2>1, Evenly
  <2>. QED
    BY <1>1, <2>1, <2>2
<1>2. CASE n # 8 * Word
  <2>1. SubSizes(n) = [i \in 1 .. n |-> 1]
    BY <1>2 DEF SubSizes
  <2>. QED
    BY <2>1, ByBytes
<1>. QED
  BY <1>1, <1>2

(* Nothing but zeros is zero.                                              *)
LEMMA NullIsZero ==
    ASSUME Powers, NEW n \in Nat
    PROVE  IsBytes(Null(n), n) /\ Value(Null(n)) = 0
<1>1. IsBytes(Null(n), n)
  <2>1. Null(n) \in [1 .. n -> Byte]
    BY BytesAssumption DEF Null, Byte
  <2>2. Len(Null(n)) = n
    BY DEF Null
  <2>. QED
    BY <2>1, <2>2 DEF IsBytes
<1>2. Value(Null(n)) = 0
  <2>1. PICK p : Sums(p, Null(n), n) /\ Value(Null(n)) = p[n]
    BY <1>1, ValueSums
  <2> DEFINE q == [k \in 0 .. n |-> 0]
  <2>2. Sums(q, Null(n), n)
    <3>1. ASSUME NEW k \in 1 .. n
          PROVE  q[k] = q[k - 1] + Radix ^ (k - 1) * Null(n)[k]
      <4>1. k - 1 \in Nat /\ Null(n)[k] = 0
        BY DEF Null
      <4>2. Radix ^ (k - 1) \in Nat
        BY <4>1 DEF Powers
      <4>3. PICK P \in Nat : P = Radix ^ (k - 1)
        BY <4>2
      <4>4. P * 0 = 0
        OBVIOUS
      <4>. QED
        BY <4>1, <4>3, <4>4
    <3>2. q \in [0 .. n -> Int] /\ q[0] = 0
      OBVIOUS
    <3> HIDE DEF q
    <3>. QED
      BY <3>1, <3>2 DEF Sums
  <2>3. q[n] = 0
    OBVIOUS
  <2> HIDE DEF q
  <2>4. n \in 0 .. n
    OBVIOUS
  <2>5. p[n] = q[n]
    BY <2>1, <2>2, <2>4, SumsAgree
  <2>. QED
    BY <2>1, <2>3, <2>5
<1>. QED
  BY <1>1, <1>2

(* What increment, add and sub answer, for strings of any length.          *)
LEMMA IncrementRight ==
    ASSUME Powers, NEW n \in Nat, NEW a, IsBytes(a, n)
    PROVE  Value(sodium_increment(a)) = (Value(a) + 1) % Radix ^ n
<1>1. PICK N \in Nat : Sizes(n) \in [1 .. N -> Nat] /\ \E pre : DividedBy(pre, Sizes(n), N, n)
  BY SizesDivide
<1>2. IsBytes(Null(n), n) /\ Len(a) = n
  BY NullIsZero DEF IsBytes
<1>3. Value(Null(n)) = 0
  BY NullIsZero
<1>4. sodium_increment(a) = Chained(a, Null(n), 1, Sizes(n))
  BY <1>2 DEF sodium_increment
<1>5. 1 \in Int
  OBVIOUS
<1>6. Value(Chained(a, Null(n), 1, Sizes(n))) = (Value(a) + Value(Null(n)) + 1) % Radix ^ n
  BY <1>1, <1>2, <1>5, ChainedRight
<1>7. Value(a) \in Int
  BY ValueBelow
<1>8. Value(a) + Value(Null(n)) + 1 = Value(a) + 1
  BY <1>3, <1>7
<1>. QED
  BY <1>4, <1>6, <1>8

(* The sum wraps at the length.                                            *)
LEMMA AddRight ==
    ASSUME Powers, NEW n \in Nat, NEW a, IsBytes(a, n), NEW b, IsBytes(b, n)
    PROVE  Value(sodium_add(a, b)) = (Value(a) + Value(b)) % Radix ^ n
<1>1. PICK N \in Nat : Sizes(n) \in [1 .. N -> Nat] /\ \E pre : DividedBy(pre, Sizes(n), N, n)
  BY SizesDivide
<1>2. sodium_add(a, b) = Chained(a, b, 0, Sizes(n))
  BY DEF sodium_add, IsBytes
<1>3. 0 \in Int
  OBVIOUS
<1>4. Value(Chained(a, b, 0, Sizes(n))) = (Value(a) + Value(b) + 0) % Radix ^ n
  BY <1>1, <1>3, ChainedRight
<1>5. Value(a) \in Int /\ Value(b) \in Int
  BY ValueBelow
<1>6. Value(a) + Value(b) + 0 = Value(a) + Value(b)
  BY <1>5
<1>. QED
  BY <1>2, <1>4, <1>6

(* Adding what was subtracted gives the number back.                       *)
LEMMA SubtractRight ==
    ASSUME Powers, NEW n \in Nat, NEW a, IsBytes(a, n), NEW b, IsBytes(b, n)
    PROVE  Chained(sodium_sub(a, b), b, 0, [i \in 1 .. Len(sodium_sub(a, b)) |-> 1]) = a
<1>1. PICK d : d = sodium_sub(a, b)
  OBVIOUS
<1>2. PICK N \in Nat : SubSizes(n) \in [1 .. N -> Nat] /\ \E pre : DividedBy(pre, SubSizes(n), N, n)
  BY SubSizesDivide
<1>3. IsBytes(d, n) /\ \E c \in 0 .. 1 : Value(d) - Radix ^ n * c = Value(a) - Value(b)
  BY <1>1, <1>2, SubRight
<1>4. PICK ones, pre1 : ones = [i \in 1 .. n |-> 1] /\ ones \in [1 .. n -> Nat] /\ DividedBy(pre1, ones, n, n)
  BY ByBytes
<1>5. PICK s : s = Chained(d, b, 0, ones)
  OBVIOUS
<1>6. 0 \in Int
  OBVIOUS
<1>7. IsBytes(s, n) /\ Value(s) = (Value(d) + Value(b) + 0) % Radix ^ n
  BY <1>3, <1>4, <1>5, <1>6, ChainedRight
<1>8. Radix ^ n \in Nat \ {0}
  BY DEF Powers
<1>9. PICK P \in Nat \ {0} : P = Radix ^ n
  BY <1>8
<1>10. PICK x \in 0 .. P - 1, y \in 0 .. P - 1, z \in 0 .. P - 1 : x = Value(a) /\ y = Value(b) /\ z = Value(d)
  BY <1>3, <1>9, ValueBelow
<1>11. PICK c \in 0 .. 1 : z - P * c = x - y
  BY <1>3, <1>9, <1>10
<1>12. z + y + 0 = x + c * P
  BY <1>11
<1>13. PICK t \in Int : t = z + y + 0
  OBVIOUS
<1>14. t - c * P \in 0 .. P - 1
  <2>1. t - c * P = x
    BY <1>12, <1>13
  <2>. QED
    BY <2>1
<1>15. t \div P = c
  BY <1>14, Quotient
<1>16. t % P = x
  <2>1. t % P = t - (t \div P) * P
    BY Remainder
  <2>. QED
    BY <1>12, <1>13, <1>15, <2>1
<1>17. Value(s) = Value(a)
  BY <1>7, <1>9, <1>10, <1>13, <1>16
<1>18. s = a
  BY <1>7, <1>17, ValueOnce
<1>19. Len(d) = n
  BY <1>3 DEF IsBytes
<1>. QED
  BY <1>1, <1>4, <1>5, <1>18, <1>19

-----------------------------------------------------------------------------
(* Comparisons                                                             *)

(* The borrow of a difference of bytes is a byte with its last bit set if  *)
(* and only if the difference is negative.                                 *)
LEMMA BorrowOf ==
    ASSUME NEW x \in Int, -Radix < x, x < Radix
    PROVE  Borrow(x) % 2 = IF x < 0 THEN 1 ELSE 0
<1>1. Radix \in Nat \ {0} /\ Radix % 2 = 0
  BY BytesAssumption
<1>2. PICK h \in Nat : Radix = 2 * h
  BY <1>1
<1>3. CASE x < 0
  <2>1. x - (-1) * Radix \in 0 .. Radix - 1
    BY <1>1, <1>3
  <2>2. x \div Radix = -1
    BY <1>1, <2>1, Quotient
  <2>3. PICK e \in Int : e = x \div Radix /\ e = -1
    BY <2>2
  <2>4. e - (-1) * Radix = Radix - 1 /\ e - (-1) * Radix \in 0 .. Radix - 1
    BY <1>1, <2>3
  <2>5. e \div Radix = -1
    BY <1>1, <2>4, Quotient
  <2>6. e % Radix = Radix - 1
    <3>1. e % Radix = e - (e \div Radix) * Radix
      BY <1>1, Remainder
    <3>. QED
      BY <2>4, <2>5, <3>1
  <2>7. (Radix - 1) % 2 = 1
    <3>1. PICK r \in Nat : r = Radix - 1
      BY <1>1
    <3>2. r = 2 * h - 1
      BY <1>2, <3>1
    <3>3. r % 2 = 1
      BY <3>2
    <3>. QED
      BY <3>1, <3>3
  <2>. QED
    BY <1>3, <2>3, <2>6, <2>7 DEF Borrow
<1>4. CASE ~(x < 0)
  <2>1. x - 0 * Radix \in 0 .. Radix - 1
    BY <1>1, <1>4
  <2>2. x \div Radix = 0
    BY <1>1, <2>1, Quotient
  <2>3. 0 % Radix = 0
    BY <1>1
  <2>4. 0 % 2 = 0
    OBVIOUS
  <2>. QED
    BY <1>4, <2>2, <2>3, <2>4 DEF Borrow
<1>. QED
  BY <1>3, <1>4

(* The step of sodium_compare, for bytes x of the first and y of the       *)
(* second.                                                                 *)
CompareStep(t, x, y) ==
    [gt |-> Either(t.gt, Masked(Borrow(y - x) % 2, t.eq)), eq |-> IF x = y THEN t.eq ELSE 0]

(* From the most significant byte to byte k.                               *)
CompareRun(g, a, b, n) ==
    /\ g[n + 1] = [gt |-> 0, eq |-> 1]
    /\ \A k \in 1 .. n : g[k] = CompareStep(g[k + 1], a[k], b[k])
    /\ sodium_compare(a, b) = (g[1].gt + g[1].gt + g[1].eq) - 1

(* The loop of sodium_compare, byte by byte.                               *)
LEMMA CompareSteps ==
    ASSUME NEW n \in Nat, NEW a, IsBytes(a, n), NEW b, IsBytes(b, n)
    PROVE  \E g : CompareRun(g, a, b, n)
<1> DEFINE A == [gt : 0 .. 1, eq : 0 .. 1]
           base == [gt |-> 0, eq |-> 1]
<1>1. base \in A
  OBVIOUS
<1>2. ASSUME NEW t \in A, NEW k \in 1 .. n
      PROVE  CompareStep(t, a[k], b[k]) \in A
  <2>1. a[k] \in 0 .. Radix - 1 /\ b[k] \in 0 .. Radix - 1 /\ Radix \in Nat
    BY BytesAssumption DEF IsBytes, Byte
  <2>2. PICK x \in Int : x = b[k] - a[k] /\ -Radix < x /\ x < Radix
    BY <2>1
  <2>3. Borrow(x) % 2 \in 0 .. 1
    BY <2>2, BorrowOf
  <2>4. t.gt \in 0 .. 1 /\ t.eq \in 0 .. 1
    OBVIOUS
  <2>5. Either(t.gt, Masked(Borrow(x) % 2, t.eq)) \in 0 .. 1 /\ (IF a[k] = b[k] THEN t.eq ELSE 0) \in 0 .. 1
    BY <2>3, <2>4 DEF Either, Masked
  <2>. QED
    BY <2>2, <2>5 DEF CompareStep
<1> HIDE DEF A, base
<1> DEFINE F == [p \in A \X (1 .. n) |-> CompareStep(p[1], a[p[2]], b[p[2]])]
<1>3. F \in [A \X (1 .. n) -> A]
  BY <1>2
<1>4. \A t \in A, k \in 1 .. n : F[<<t, k>>] = CompareStep(t, a[k], b[k])
  OBVIOUS
<1> HIDE DEF F
<1>5. PICK iter \in [SUBSET (1 .. n) -> A] : RightFold(iter, n, base, F)
  BY <1>1, <1>3, RightExists
<1> DEFINE seq == [i \in 1 .. Len(a) |-> <<a[i], b[i]>>]
           Eq(f) == f = [S \in SUBSET (DOMAIN seq) |->
                           IF S = {} THEN [gt |-> 0, eq |-> 1]
                           ELSE CompareStep(f[S \ {Min(S)}], seq[Min(S)][1], seq[Min(S)][2])]
           h == CHOOSE f : Eq(f)
<1>6. DOMAIN seq = 1 .. n /\ \A k \in 1 .. n : seq[k][1] = a[k] /\ seq[k][2] = b[k]
  BY DEF IsBytes
<1>7. sodium_compare(a, b) = (h[DOMAIN seq].gt + h[DOMAIN seq].gt + h[DOMAIN seq].eq) - 1
  BY DEF sodium_compare, CompareStep, FoldRight, MapThenFoldSet
<1> HIDE DEF seq
<1>8. Eq(h)
  <2>1. \A S \in SUBSET (1 .. n) : S # {} => S \ {Min(S)} \in SUBSET (1 .. n) /\ Min(S) \in 1 .. n
    BY Smallest
  <2>2. \A S \in SUBSET (1 .. n) : S # {} => F[<<iter[S \ {Min(S)}], Min(S)>>]
                                               = CompareStep(iter[S \ {Min(S)}], seq[Min(S)][1], seq[Min(S)][2])
    BY <1>4, <1>6, <2>1
  <2>3. Eq(iter)
    BY <1>5, <1>6, <2>2 DEF RightFold, base
  <2>. QED
    BY <2>3, Zenon
<1> HIDE DEF h
<1>9. h[n + 1 .. n] = base
  <2>1. n + 1 .. n = {}
    OBVIOUS
  <2>. QED
    BY <1>6, <1>8, <2>1 DEF base
<1>10. ASSUME NEW k \in 1 .. n
       PROVE  h[k .. n] = CompareStep(h[k + 1 .. n], a[k], b[k])
  <2>1. PICK S : S = k .. n
    OBVIOUS
  <2>2. S \in SUBSET (1 .. n) /\ S # {} /\ Min(S) = k /\ S \ {k} = k + 1 .. n
    BY <2>1, SmallestOf
  <2>3. h[S] = CompareStep(h[S \ {Min(S)}], seq[Min(S)][1], seq[Min(S)][2])
    BY <1>6, <1>8, <2>2
  <2>4. h[S] = CompareStep(h[k + 1 .. n], a[k], b[k])
    BY <1>6, <2>2, <2>3
  <2>. QED
    BY <2>1, <2>4
<1> DEFINE g == [k \in 1 .. n + 1 |-> h[k .. n]]
<1>11. g[n + 1] = base
  BY <1>9
<1>12. \A k \in 1 .. n : g[k] = CompareStep(g[k + 1], a[k], b[k])
  BY <1>10
<1>13. g[1] = h[DOMAIN seq]
  BY <1>6
<1> HIDE DEF g
<1>. QED
  BY <1>7, <1>11, <1>12, <1>13 DEF CompareRun, base

(* What is known of a byte and all above it.                               *)
InOrderOf(t, x, y) == t = [gt |-> IF x > y THEN 1 ELSE 0, eq |-> IF x = y THEN 1 ELSE 0]

(* One byte more below them.                                               *)
LEMMA CompareMore ==
    ASSUME NEW x \in Nat, NEW y \in Nat, NEW d \in Byte, NEW e \in Byte, NEW t, InOrderOf(t, x, y)
    PROVE  InOrderOf(CompareStep(t, d, e), x * Radix + d, y * Radix + e)
<1>1. Radix \in Nat \ {0} /\ d \in 0 .. Radix - 1 /\ e \in 0 .. Radix - 1
  BY BytesAssumption DEF Byte
<1>2. PICK xr \in Nat, yr \in Nat : xr = x * Radix /\ yr = y * Radix
  BY <1>1, Products
<1>3. ASSUME NEW u \in Nat, NEW v \in Nat, u > v
      PROVE  u * Radix >= v * Radix + Radix
  <2>1. (v + 1) * Radix = v * Radix + Radix /\ v + 1 <= u /\ v + 1 \in Nat
    BY <1>1, <1>3, Products
  <2>2. (v + 1) * Radix <= u * Radix
    BY <1>1, <2>1, Products
  <2>. QED
    BY <1>1, <2>1, <2>2
<1>4. Borrow(e - d) % 2 = IF e - d < 0 THEN 1 ELSE 0
  <2>1. PICK z \in Int : z = e - d /\ -Radix < z /\ z < Radix
    BY <1>1
  <2>. QED
    BY <2>1, BorrowOf
<1>5. CASE x > y
  <2>1. xr >= yr + Radix
    BY <1>2, <1>3, <1>5
  <2>2. xr + d > yr + e
    BY <1>1, <2>1
  <2>3. t.gt = 1 /\ t.eq = 0
    BY <1>5 DEF InOrderOf
  <2>4. CompareStep(t, d, e) = [gt |-> 1, eq |-> 0]
    BY <2>3 DEF CompareStep, Either, Masked
  <2>. QED
    BY <1>1, <1>2, <2>2, <2>4 DEF InOrderOf
<1>6. CASE y > x
  <2>1. yr >= xr + Radix
    BY <1>2, <1>3, <1>6
  <2>2. yr + e > xr + d
    BY <1>1, <2>1
  <2>3. t.gt = 0 /\ t.eq = 0
    BY <1>6 DEF InOrderOf
  <2>4. CompareStep(t, d, e) = [gt |-> 0, eq |-> 0]
    BY <2>3 DEF CompareStep, Either, Masked
  <2>. QED
    BY <1>1, <1>2, <2>2, <2>4 DEF InOrderOf
<1>7. CASE x = y
  <2>1. t.gt = 0 /\ t.eq = 1 /\ xr = yr
    BY <1>2, <1>7 DEF InOrderOf
  <2>2. CompareStep(t, d, e) = [gt |-> IF d > e THEN 1 ELSE 0, eq |-> IF d = e THEN 1 ELSE 0]
    BY <1>1, <1>4, <2>1 DEF CompareStep, Either, Masked
  <2>. QED
    BY <1>1, <1>2, <2>1, <2>2 DEF InOrderOf
<1>. QED
  BY <1>5, <1>6, <1>7

(* sodium_compare orders numbers.                                          *)
LEMMA CompareRight ==
    ASSUME Powers, NEW n \in Nat, NEW a, IsBytes(a, n), NEW b, IsBytes(b, n)
    PROVE  sodium_compare(a, b) = IF Value(a) < Value(b) THEN -1 ELSE IF a = b THEN 0 ELSE 1
<1>1. PICK g : CompareRun(g, a, b, n)
  BY CompareSteps
<1>2. PICK v \in [1 .. n + 1 -> Nat] : ValuesFrom(v, a, n) /\ Value(a) = v[1]
  BY ValueSteps
<1>3. PICK w \in [1 .. n + 1 -> Nat] : ValuesFrom(w, b, n) /\ Value(b) = w[1]
  BY ValueSteps
<1> DEFINE T == {k \in 0 .. n : InOrderOf(g[n + 1 - k], v[n + 1 - k], w[n + 1 - k])}
<1>4. 0 \in T
  <2>1. g[n + 1] = [gt |-> 0, eq |-> 1] /\ v[n + 1] = 0 /\ w[n + 1] = 0
    BY <1>1, <1>2, <1>3 DEF CompareRun, ValuesFrom
  <2>2. InOrderOf(g[n + 1], v[n + 1], w[n + 1])
    BY <2>1 DEF InOrderOf
  <2>3. n + 1 - 0 = n + 1 /\ 0 \in 0 .. n
    OBVIOUS
  <2>. QED
    BY <2>2, <2>3
<1>5. \A k \in 0 .. n - 1 : k \in T => k + 1 \in T
  <2> SUFFICES ASSUME NEW k \in 0 .. n - 1, InOrderOf(g[n + 1 - k], v[n + 1 - k], w[n + 1 - k])
               PROVE  InOrderOf(g[n + 1 - (k + 1)], v[n + 1 - (k + 1)], w[n + 1 - (k + 1)])
    OBVIOUS
  <2>1. PICK j \in 1 .. n : j = n + 1 - (k + 1) /\ j + 1 = n + 1 - k
    OBVIOUS
  <2>2. g[j] = CompareStep(g[j + 1], a[j], b[j]) /\ v[j] = v[j + 1] * Radix + a[j] /\ w[j] = w[j + 1] * Radix + b[j]
    BY <1>1, <1>2, <1>3 DEF CompareRun, ValuesFrom
  <2>3. a[j] \in Byte /\ b[j] \in Byte
    BY DEF IsBytes
  <2>4. v[j + 1] \in Nat /\ w[j + 1] \in Nat
    <3>1. j + 1 \in 1 .. n + 1
      OBVIOUS
    <3>. QED
      BY <3>1
  <2>5. InOrderOf(g[j + 1], v[j + 1], w[j + 1])
    BY <2>1
  <2>6. InOrderOf(CompareStep(g[j + 1], a[j], b[j]), v[j + 1] * Radix + a[j], w[j + 1] * Radix + b[j])
    BY <2>3, <2>4, <2>5, CompareMore
  <2>. QED
    BY <2>1, <2>2, <2>6
<1>6. 0 .. n \subseteq T
  <2> HIDE DEF T
  <2>. QED
    BY <1>4, <1>5, UpTo
<1>7. InOrderOf(g[1], v[1], w[1])
  <2>1. n \in 0 .. n
    OBVIOUS
  <2>2. PICK k : k = n /\ k \in T
    <3> HIDE DEF T
    <3>. QED
      BY <1>6, <2>1
  <2>3. PICK j \in Int : j = n + 1 - k
    BY <2>2
  <2>4. j = 1 /\ InOrderOf(g[j], v[j], w[j])
    BY <2>2, <2>3
  <2>. QED
    BY <2>4
<1>8. PICK x \in Nat, y \in Nat : x = Value(a) /\ y = Value(b) /\ InOrderOf(g[1], x, y)
  <2>1. v[1] \in Nat /\ w[1] \in Nat
    BY <1>2, <1>3
  <2>. QED
    BY <1>2, <1>3, <1>7, <2>1
<1>9. a = b <=> x = y
  BY <1>8, ValueOnce
<1>10. sodium_compare(a, b) = IF x < y THEN -1 ELSE IF x = y THEN 0 ELSE 1
  <2>1. g[1].gt = (IF x > y THEN 1 ELSE 0) /\ g[1].eq = IF x = y THEN 1 ELSE 0
    BY <1>8 DEF InOrderOf
  <2>2. sodium_compare(a, b) = (g[1].gt + g[1].gt + g[1].eq) - 1
    BY <1>1 DEF CompareRun
  <2>3. CASE x < y
    BY <2>1, <2>2, <2>3
  <2>4. CASE x = y
    BY <2>1, <2>2, <2>4
  <2>5. CASE x > y
    BY <2>1, <2>2, <2>5
  <2>. QED
    BY <2>3, <2>4, <2>5
<1>. QED
  BY <1>8, <1>9, <1>10

(* Bits gathered in the way of the folds of memcmp and is_zero.            *)
EitherOf(h, d, n) ==
    h = [S \in SUBSET (1 .. n) |-> IF S = {} THEN 0 ELSE Either(h[S \ {Max(S)}], d[Max(S)])]

(* They can be gathered from any string.                                   *)
LEMMA EitherExists ==
    ASSUME NEW n \in Nat, NEW d \in [1 .. n -> Nat]
    PROVE  \E h : EitherOf(h, d, n)
<1> DEFINE F == [p \in Nat \X (1 .. n) |-> Either(p[1], d[p[2]])]
<1>1. F \in [Nat \X (1 .. n) -> Nat] /\ \A t \in Nat, k \in 1 .. n : F[<<t, k>>] = Either(t, d[k])
  BY DEF Either
<1> HIDE DEF F
<1>2. 0 \in Nat
  OBVIOUS
<1>3. PICK iter \in [SUBSET (1 .. n) -> Nat] : LeftFold(iter, n, 0, F)
  BY <1>1, <1>2, LeftExists
<1>4. \A S \in SUBSET (1 .. n) : S # {} => S \ {Max(S)} \in SUBSET (1 .. n) /\ Max(S) \in 1 .. n
  BY Largest
<1>5. \A S \in SUBSET (1 .. n) : S # {} => F[<<iter[S \ {Max(S)}], Max(S)>>] = Either(iter[S \ {Max(S)}], d[Max(S)])
  BY <1>1, <1>4
<1>6. EitherOf(iter, d, n)
  BY <1>3, <1>5 DEF LeftFold, EitherOf
<1>. QED
  BY <1>6

(* They are all clear if and only if none was set.                         *)
LEMMA EitherAll ==
    ASSUME NEW n \in Nat, NEW m \in Nat, NEW d \in [1 .. n -> 0 .. m], NEW h, EitherOf(h, d, n)
    PROVE  h[1 .. n] \in 0 .. m /\ (h[1 .. n] = 0 <=> \A k \in 1 .. n : d[k] = 0)
<1>1. \A S \in SUBSET (1 .. n) : h[S] = IF S = {} THEN 0 ELSE Either(h[S \ {Max(S)}], d[Max(S)])
  BY DEF EitherOf
<1>2. h[1 .. 0] = 0
  <2>1. 1 .. 0 = {}
    OBVIOUS
  <2>. QED
    BY <1>1, <2>1
<1>3. ASSUME NEW k \in 1 .. n
      PROVE  h[1 .. k] = Either(h[1 .. k - 1], d[k])
  <2>1. PICK S : S = 1 .. k
    OBVIOUS
  <2>2. S \in SUBSET (1 .. n) /\ S # {} /\ Max(S) = k /\ S \ {k} = 1 .. k - 1
    BY <2>1, LargestOf
  <2>3. h[S] = Either(h[S \ {Max(S)}], d[Max(S)])
    BY <1>1, <2>2
  <2>4. h[S] = Either(h[1 .. k - 1], d[k])
    BY <2>2, <2>3
  <2>. QED
    BY <2>1, <2>4
<1> DEFINE T == {k \in 0 .. n : h[1 .. k] \in 0 .. m /\ (h[1 .. k] = 0 <=> \A j \in 1 .. k : d[j] = 0)}
<1>4. 0 \in T
  <2>1. 0 \in 0 .. m /\ \A j \in 1 .. 0 : FALSE
    OBVIOUS
  <2>. QED
    BY <1>2, <2>1
<1>5. \A k \in 0 .. n - 1 : k \in T => k + 1 \in T
  <2> SUFFICES ASSUME NEW k \in 0 .. n - 1, h[1 .. k] \in 0 .. m, h[1 .. k] = 0 <=> \A j \in 1 .. k : d[j] = 0
               PROVE  h[1 .. k + 1] \in 0 .. m /\ (h[1 .. k + 1] = 0 <=> \A j \in 1 .. k + 1 : d[j] = 0)
    OBVIOUS
  <2>1. PICK i \in 1 .. n : i = k + 1 /\ i - 1 = k
    OBVIOUS
  <2>2. h[1 .. i] = Either(h[1 .. k], d[i]) /\ d[i] \in 0 .. m
    BY <1>3, <2>1
  <2>3. (\A j \in 1 .. i : d[j] = 0) <=> (\A j \in 1 .. k : d[j] = 0) /\ d[i] = 0
    <3>1. \A j \in 1 .. i : j \in 1 .. k \/ j = i
      BY <2>1
    <3>2. \A j \in 1 .. k : j \in 1 .. i
      BY <2>1
    <3>3. i \in 1 .. i
      OBVIOUS
    <3>. QED
      BY <3>1, <3>2, <3>3
  <2>4. h[1 .. i] \in 0 .. m /\ (h[1 .. i] = 0 <=> h[1 .. k] = 0 /\ d[i] = 0)
    BY <2>2 DEF Either
  <2>. QED
    BY <2>1, <2>3, <2>4
<1>6. 0 .. n \subseteq T
  <2> HIDE DEF T
  <2>. QED
    BY <1>4, <1>5, UpTo
<1>7. n \in T
  BY <1>6
<1>. QED
  BY <1>7

(* sodium_memcmp and crypto_verify tell equal strings from others.         *)
LEMMA MemcmpRight ==
    ASSUME NEW n \in Nat, NEW a, IsBytes(a, n), NEW b, IsBytes(b, n)
    PROVE  sodium_memcmp(a, b) = IF a = b THEN 0 ELSE -1
<1> DEFINE d == [i \in 1 .. n |-> IF a[i] = b[i] THEN 0 ELSE 1]
           seq == [i \in 1 .. Len(a) |-> i]
           Eq(f) == f = [S \in SUBSET (DOMAIN seq) |->
                           IF S = {} THEN 0
                           ELSE Either(f[S \ {Max(S)}], IF a[seq[Max(S)]] = b[seq[Max(S)]] THEN 0 ELSE 1)]
           h == CHOOSE f : Eq(f)
<1>1. d \in [1 .. n -> 0 .. 1] /\ d \in [1 .. n -> Nat]
  OBVIOUS
<1>2. DOMAIN seq = 1 .. n /\ \A k \in 1 .. n : seq[k] = k /\ d[k] = IF a[k] = b[k] THEN 0 ELSE 1
  BY DEF IsBytes
<1>3. sodium_memcmp(a, b) = (Borrow(h[DOMAIN seq] - 1) % 2) - 1
  BY DEF sodium_memcmp, FoldLeft, MapThenFoldSet
<1> HIDE DEF d, seq
<1>4. \A f : Eq(f) <=> EitherOf(f, d, n)
  <2>1. \A S \in SUBSET (1 .. n) : S # {} => Max(S) \in 1 .. n
    BY Largest
  <2>2. \A S \in SUBSET (1 .. n) : S # {} => d[Max(S)] = IF a[seq[Max(S)]] = b[seq[Max(S)]] THEN 0 ELSE 1
    BY <1>2, <2>1
  <2>. QED
    BY <1>2, <2>2 DEF EitherOf
<1>5. EitherOf(h, d, n)
  <2>1. \E f : Eq(f)
    BY <1>1, <1>4, EitherExists
  <2>2. Eq(h)
    BY <2>1, Zenon
  <2>. QED
    BY <1>4, <2>2
<1> HIDE DEF h
<1>6. h[1 .. n] \in 0 .. 1 /\ (h[1 .. n] = 0 <=> \A k \in 1 .. n : d[k] = 0)
  BY <1>1, <1>5, EitherAll
<1>7. (\A k \in 1 .. n : d[k] = 0) <=> a = b
  BY <1>2 DEF IsBytes
<1>8. PICK x \in 0 .. 1 : x = h[DOMAIN seq] /\ (x = 0 <=> a = b)
  BY <1>2, <1>6, <1>7
<1>9. Borrow(x - 1) % 2 = IF x - 1 < 0 THEN 1 ELSE 0
  <2>1. -Radix < x - 1 /\ x - 1 < Radix /\ x - 1 \in Int
    BY BytesAssumption
  <2>. QED
    BY <2>1, BorrowOf
<1>10. CASE x = 0
  BY <1>3, <1>8, <1>9, <1>10
<1>11. CASE x = 1
  BY <1>3, <1>8, <1>9, <1>11
<1>. QED
  BY <1>10, <1>11

(* So does crypto_verify.                                                  *)
LEMMA VerifyRight ==
    ASSUME NEW n \in Nat, NEW a, IsBytes(a, n), NEW b, IsBytes(b, n)
    PROVE  crypto_verify_n(a, b) = IF a = b THEN 0 ELSE -1
<1>1. a \in [1 .. n -> Nat] /\ b \in [1 .. n -> Nat]
  BY BytesAssumption DEF IsBytes, Byte
<1>2. a \in Seq(Nat) /\ b \in Seq(Nat) /\ Len(a) = Len(b)
  BY <1>1 DEF IsBytes
<1>. QED
  BY <1>2, VerifyCompares

(* sodium_is_zero finds any byte that is not zero.                         *)
LEMMA IsZeroRight ==
    ASSUME Powers, NEW n \in Nat, NEW a, IsBytes(a, n)
    PROVE  sodium_is_zero(a) = IF Value(a) = 0 THEN 1 ELSE 0
<1> DEFINE Eq(f) == f = [S \in SUBSET (DOMAIN a) |-> IF S = {} THEN 0 ELSE Either(f[S \ {Max(S)}], a[Max(S)])]
           h == CHOOSE f : Eq(f)
<1>1. PICK m \in Nat : m = Radix - 1 /\ a \in [1 .. n -> 0 .. m] /\ a \in [1 .. n -> Nat]
  BY BytesAssumption DEF IsBytes, Byte
<1>2. sodium_is_zero(a) = Borrow(h[DOMAIN a] - 1) % 2
  BY DEF sodium_is_zero, FoldLeft, MapThenFoldSet
<1>3. DOMAIN a = 1 .. n
  BY <1>1
<1>4. \A f : Eq(f) <=> EitherOf(f, a, n)
  BY <1>3 DEF EitherOf
<1>5. EitherOf(h, a, n)
  <2>1. \E f : Eq(f)
    BY <1>1, <1>4, EitherExists
  <2>2. Eq(h)
    BY <2>1, Zenon
  <2>. QED
    BY <1>4, <2>2
<1> HIDE DEF h
<1>6. h[1 .. n] \in 0 .. m /\ (h[1 .. n] = 0 <=> \A k \in 1 .. n : a[k] = 0)
  BY <1>1, <1>5, EitherAll
<1>7. (\A k \in 1 .. n : a[k] = 0) <=> Value(a) = 0
  <2>1. (\A k \in 1 .. n : a[k] = 0) <=> a = Null(n)
    BY <1>1 DEF Null
  <2>2. Value(a) = 0 => a = Null(n)
    BY NullIsZero, ValueOnce
  <2>3. a = Null(n) => Value(a) = 0
    BY NullIsZero
  <2>. QED
    BY <2>1, <2>2, <2>3
<1>8. PICK x \in 0 .. m : x = h[DOMAIN a] /\ (x = 0 <=> Value(a) = 0)
  BY <1>3, <1>6, <1>7
<1>9. Borrow(x - 1) % 2 = IF x - 1 < 0 THEN 1 ELSE 0
  <2>1. -Radix < x - 1 /\ x - 1 < Radix /\ x - 1 \in Int
    BY <1>1, BytesAssumption
  <2>. QED
    BY <2>1, BorrowOf
<1>10. x - 1 < 0 <=> x = 0
  OBVIOUS
<1>. QED
  BY <1>2, <1>8, <1>9, <1>10

(* Sizes of Swift.                                                         *)
LEMMA SizesRight ==
    ASSUME 2 ^ 16 = 65536, NEW m \in Nat, NEW n \in Nat
    PROVE  byteCount(SizeMinus(DataSize(m), DataSize(n)))
             = IF m < 8192 /\ n < 8192 /\ n <= m THEN m - n ELSE Trap
<1>1. \A x \in Int : UInt16(x) = IF 0 <= x /\ x <= 65535 THEN x ELSE Trap
  <2>1. 2 ^ 16 - 1 = 65535
    OBVIOUS
  <2>. QED
    BY <2>1 DEF UInt16
<1>2. \A k \in Nat : DataSize(k) = IF k < 8192 THEN k * 8 ELSE Trap
  <2> SUFFICES ASSUME NEW k \in Nat
               PROVE  DataSize(k) = IF k < 8192 THEN k * 8 ELSE Trap
    OBVIOUS
  <2>1. DataSize(k) = IF UInt16(k) = Trap THEN Trap ELSE UInt16(k * 8)
    BY DEF DataSize
  <2>2. UInt16(k) = IF k <= 65535 THEN k ELSE Trap
    BY <1>1
  <2>3. UInt16(k * 8) = IF k * 8 <= 65535 THEN k * 8 ELSE Trap
    BY <1>1
  <2>. QED
    BY <2>1, <2>2, <2>3 DEF Trap
<1>3. CASE m < 8192 /\ n < 8192
  <2>1. DataSize(m) = m * 8 /\ DataSize(n) = n * 8 /\ m * 8 \in Nat /\ n * 8 \in Nat
    BY <1>2, <1>3
  <2>2. SizeMinus(DataSize(m), DataSize(n)) = UInt16(m * 8 - n * 8)
    BY <2>1 DEF SizeMinus, Trap
  <2>3. UInt16(m * 8 - n * 8) = IF n <= m THEN (m - n) * 8 ELSE Trap
    BY <1>1, <1>3
  <2>4. ((m - n) * 8) \div 8 = m - n
    OBVIOUS
  <2>. QED
    BY <1>3, <2>2, <2>3, <2>4 DEF byteCount, Trap
<1>4. CASE ~(m < 8192 /\ n < 8192)
  BY <1>2, <1>4 DEF SizeMinus, byteCount
<1>. QED
  BY <1>3, <1>4

-----------------------------------------------------------------------------
(* The other calls of a caller of Bytes                                    *)

NumberCall(c) ==
    /\ c.fn \in {"increment", "is_zero"} => c.a \in Seq(Byte)
    /\ c.fn \in {"add", "sub", "compare", "memcmp", "verify"} =>
          c.a \in Seq(Byte) /\ c.b \in Seq(Byte) /\ Len(c.a) = Len(c.b)
    /\ c.fn = "DataSize" => c.m \in Nat /\ c.n \in Nat

NumberRight(c, a) ==
    /\ c.fn = "increment" => Value(a) = (Value(c.a) + 1) % Radix ^ Len(c.a)
    /\ c.fn = "add" => Value(a) = (Value(c.a) + Value(c.b)) % Radix ^ Len(c.a)
    /\ c.fn = "sub" => Chained(a, c.b, 0, [i \in 1 .. Len(a) |-> 1]) = c.a
    /\ c.fn = "compare" => a = IF Value(c.a) < Value(c.b) THEN -1 ELSE IF c.a = c.b THEN 0 ELSE 1
    /\ c.fn \in {"memcmp", "verify"} => a = IF c.a = c.b THEN 0 ELSE -1
    /\ c.fn = "is_zero" => a = IF Value(c.a) = 0 THEN 1 ELSE 0
    /\ c.fn = "DataSize" => byteCount(a) = IF c.m < 8192 /\ c.n < 8192 /\ c.n <= c.m THEN c.m - c.n ELSE Trap

NumberInv == NumberCall(call) /\ (stage = "answered" => NumberRight(call, answer))

(* What a caller asks is asked of strings of bytes.                        *)
LEMMA NumberAsks == ASSUME AskBytes PROVE stage' = "called" /\ NumberCall(call')
<1>1. stage' = "called"
  BY DEF AskBytes, Ask
<1>2. CASE \E a \in Strings, fn \in {"increment", "is_zero"} : Len(a) <= 3 * Word /\ Ask([fn |-> fn, a |-> a])
  <2>1. PICK a \in Strings, fn \in {"increment", "is_zero"} : call' = [fn |-> fn, a |-> a]
    BY <1>2 DEF Ask
  <2>2. a \in Seq(Byte)
    BY <2>1, BytesAssumption DEF Byte
  <2>. QED
    BY <1>1, <2>1, <2>2 DEF NumberCall
<1>3. CASE \E a, b \in Strings, fn \in {"add", "sub", "compare", "memcmp", "verify"} :
              Len(a) = Len(b) /\ (Len(a) <= 3 * Word \/ fn = "sub") /\ Ask([fn |-> fn, a |-> a, b |-> b])
  <2>1. PICK a \in Strings, b \in Strings, fn \in {"add", "sub", "compare", "memcmp", "verify"} :
            Len(a) = Len(b) /\ call' = [fn |-> fn, a |-> a, b |-> b]
    BY <1>3 DEF Ask
  <2>2. a \in Seq(Byte) /\ b \in Seq(Byte)
    BY <2>1, BytesAssumption DEF Byte
  <2>. QED
    BY <1>1, <2>1, <2>2 DEF NumberCall
<1>4. CASE \E m, n \in Counts : Ask([fn |-> "DataSize", m |-> m, n |-> n])
  <2>1. PICK m \in Counts, n \in Counts : call' = [fn |-> "DataSize", m |-> m, n |-> n]
    BY <1>4 DEF Ask
  <2>2. m \in Nat /\ n \in Nat
    BY <2>1, BytesAssumption
  <2>. QED
    BY <1>1, <2>1, <2>2 DEF NumberCall
<1>5. CASE call'.fn \in {"pad", "unpad"}
  BY <1>1, <1>5 DEF NumberCall
<1>6. \/ call'.fn \in {"pad", "unpad"}
      \/ \E a \in Strings, fn \in {"increment", "is_zero"} : Len(a) <= 3 * Word /\ Ask([fn |-> fn, a |-> a])
      \/ \E a, b \in Strings, fn \in {"add", "sub", "compare", "memcmp", "verify"} :
              Len(a) = Len(b) /\ (Len(a) <= 3 * Word \/ fn = "sub") /\ Ask([fn |-> fn, a |-> a, b |-> b])
      \/ \E m, n \in Counts : Ask([fn |-> "DataSize", m |-> m, n |-> n])
  <2>1. CASE \E t \in Texts, block \in Blocks, spare \in 0 .. 4 :
              Len(t) + spare <= SizeMax /\ Ask([fn |-> "pad", text |-> t, block |-> block, spare |-> spare])
    BY <2>1 DEF Ask
  <2>2. CASE \E t \in Texts, block \in Blocks : Ask([fn |-> "unpad", text |-> t, block |-> block])
    BY <2>2 DEF Ask
  <2>. QED
    BY <2>1, <2>2 DEF AskBytes
<1>. QED
  BY <1>2, <1>3, <1>4, <1>5, <1>6

(* Every such call is answered rightly.                                    *)
LEMMA NumberAnswered ==
    ASSUME Powers, 2 ^ 16 = 65536, AnswerBytes, NumberCall(call)
    PROVE  call' = call /\ NumberRight(call', answer')
<1>1. call' = call
  BY DEF AnswerBytes, Answer
<1>2. CASE call.fn \in {"increment", "is_zero"}
  <2>1. PICK a \in Seq(Byte), n \in Nat : a = call.a /\ n = Len(a) /\ IsBytes(a, n)
    <3>1. PICK a \in Seq(Byte) : a = call.a
      BY <1>2 DEF NumberCall
    <3>2. IsBytes(a, Len(a)) /\ Len(a) \in Nat
      BY DEF IsBytes
    <3>. QED
      BY <3>1, <3>2
  <2>2. call.fn = "increment" => answer' = sodium_increment(a)
    BY <2>1 DEF AnswerBytes, Called, Answer
  <2>3. call.fn = "is_zero" => answer' = sodium_is_zero(a)
    BY <2>1 DEF AnswerBytes, Called, Answer
  <2>4. Value(sodium_increment(a)) = (Value(a) + 1) % Radix ^ n
    BY <2>1, IncrementRight
  <2>5. sodium_is_zero(a) = IF Value(a) = 0 THEN 1 ELSE 0
    BY <2>1, IsZeroRight
  <2>. QED
    BY <1>1, <1>2, <2>1, <2>2, <2>3, <2>4, <2>5 DEF NumberRight
<1>3. CASE call.fn \in {"add", "sub", "compare", "memcmp", "verify"}
  <2>1. PICK a \in Seq(Byte), b \in Seq(Byte), n \in Nat : a = call.a /\ b = call.b /\ n = Len(a) /\ IsBytes(a, n) /\ IsBytes(b, n)
    <3>1. PICK a \in Seq(Byte), b \in Seq(Byte) : a = call.a /\ b = call.b /\ Len(a) = Len(b)
      BY <1>3 DEF NumberCall
    <3>2. IsBytes(a, Len(a)) /\ IsBytes(b, Len(a)) /\ Len(a) \in Nat
      BY <3>1 DEF IsBytes
    <3>. QED
      BY <3>1, <3>2
  <2>2. /\ call.fn = "add" => answer' = sodium_add(a, b)
        /\ call.fn = "sub" => answer' = sodium_sub(a, b)
        /\ call.fn = "compare" => answer' = sodium_compare(a, b)
        /\ call.fn = "memcmp" => answer' = sodium_memcmp(a, b)
        /\ call.fn = "verify" => answer' = crypto_verify_n(a, b)
    BY <2>1 DEF AnswerBytes, Called, Answer
  <2>3. CASE call.fn = "add"
    <3>1. Value(sodium_add(a, b)) = (Value(a) + Value(b)) % Radix ^ n
      BY <2>1, AddRight
    <3>. QED
      BY <1>1, <2>1, <2>2, <2>3, <3>1 DEF NumberRight
  <2>4. CASE call.fn = "sub"
    <3>1. Chained(sodium_sub(a, b), b, 0, [i \in 1 .. Len(sodium_sub(a, b)) |-> 1]) = a
      BY <2>1, SubtractRight
    <3>. QED
      BY <1>1, <2>1, <2>2, <2>4, <3>1 DEF NumberRight
  <2>5. CASE call.fn = "compare"
    <3>1. sodium_compare(a, b) = IF Value(a) < Value(b) THEN -1 ELSE IF a = b THEN 0 ELSE 1
      BY <2>1, CompareRight
    <3>. QED
      BY <1>1, <2>1, <2>2, <2>5, <3>1 DEF NumberRight
  <2>6. CASE call.fn = "memcmp"
    <3>1. sodium_memcmp(a, b) = IF a = b THEN 0 ELSE -1
      BY <2>1, MemcmpRight
    <3>. QED
      BY <1>1, <2>1, <2>2, <2>6, <3>1 DEF NumberRight
  <2>7. CASE call.fn = "verify"
    <3>1. crypto_verify_n(a, b) = IF a = b THEN 0 ELSE -1
      BY <2>1, VerifyRight
    <3>. QED
      BY <1>1, <2>1, <2>2, <2>7, <3>1 DEF NumberRight
  <2>. QED
    BY <1>3, <2>3, <2>4, <2>5, <2>6, <2>7
<1>4. CASE call.fn = "DataSize"
  <2>1. answer' = SizeMinus(DataSize(call.m), DataSize(call.n))
    BY <1>4 DEF AnswerBytes, Called, Answer
  <2>2. PICK m \in Nat, n \in Nat : m = call.m /\ n = call.n
    BY <1>4 DEF NumberCall
  <2>3. byteCount(SizeMinus(DataSize(m), DataSize(n))) = IF m < 8192 /\ n < 8192 /\ n <= m THEN m - n ELSE Trap
    BY SizesRight
  <2>. QED
    BY <1>1, <1>4, <2>1, <2>2, <2>3 DEF NumberRight
<1>5. CASE call.fn \notin {"increment", "is_zero", "add", "sub", "compare", "memcmp", "verify", "DataSize"}
  BY <1>1, <1>5 DEF NumberRight
<1>. QED
  BY <1>2, <1>3, <1>4, <1>5

(* Arithmetic on strings of any length is that of numbers modulo the power *)
(* of the length, in bytes and in the words of the assembly alike, the     *)
(* comparisons without a branch order numbers and find any difference, and *)
(* the sizes of Swift stop the program where they overflow                 *)
(* (sodium_increment ... sodium_is_zero, crypto_verify, DataSize).         *)
THEOREM NumbersRight ==
    ASSUME Powers, 2 ^ 16 = 65536
    PROVE  BytesSpec => []NumbersHold
<1>1. CallInit => NumberInv
  BY DEF CallInit, Idle, NumberInv, NumberCall
<1>2. NumberInv /\ [AskBytes \/ AnswerBytes \/ Return]_callVars => NumberInv'
  <2> SUFFICES ASSUME NumberInv, [AskBytes \/ AnswerBytes \/ Return]_callVars
               PROVE  NumberInv'
    OBVIOUS
  <2>1. CASE AskBytes
    <3>1. stage' = "called" /\ NumberCall(call')
      BY <2>1, NumberAsks
    <3>. QED
      BY <3>1 DEF NumberInv
  <2>2. CASE AnswerBytes
    <3>1. call' = call /\ NumberRight(call', answer')
      BY <2>2, NumberAnswered DEF NumberInv
    <3>2. NumberCall(call')
      BY <3>1 DEF NumberInv
    <3>. QED
      BY <3>1, <3>2 DEF NumberInv
  <2>3. CASE Return
    <3>1. stage' = "idle" /\ call' = Idle
      BY <2>3 DEF Return
    <3>2. NumberCall(call')
      BY <3>1 DEF NumberCall, Idle
    <3>. QED
      BY <3>1, <3>2 DEF NumberInv
  <2>4. CASE UNCHANGED callVars
    BY <2>4 DEF callVars, NumberInv
  <2>. QED
    BY <2>1, <2>2, <2>3, <2>4
<1>3. NumberInv => NumbersHold
  <2> SUFFICES ASSUME NumberInv
               PROVE  NumbersHold
    OBVIOUS
  <2>1. ASSUME stage = "answered"
        PROVE  NumberRight(call, answer)
    BY <2>1 DEF NumberInv
  <2>2. Answered({"increment"}) => Value(answer) = (Value(call.a) + 1) % Radix ^ Len(call.a)
    BY <2>1 DEF Answered, NumberRight
  <2>3. Answered({"add"}) => Value(answer) = (Value(call.a) + Value(call.b)) % Radix ^ Len(call.a)
    BY <2>1 DEF Answered, NumberRight
  <2>4. Answered({"sub"}) => Chained(answer, call.b, 0, [i \in 1 .. Len(answer) |-> 1]) = call.a
    BY <2>1 DEF Answered, NumberRight
  <2>5. Answered({"compare"}) => answer = IF Value(call.a) < Value(call.b) THEN -1 ELSE IF call.a = call.b THEN 0 ELSE 1
    BY <2>1 DEF Answered, NumberRight
  <2>6. Answered({"memcmp", "verify"}) => answer = IF call.a = call.b THEN 0 ELSE -1
    BY <2>1 DEF Answered, NumberRight
  <2>7. Answered({"is_zero"}) => answer = IF Value(call.a) = 0 THEN 1 ELSE 0
    BY <2>1 DEF Answered, NumberRight
  <2>8. SizesHold
    BY <2>1 DEF SizesHold, Answered, NumberRight
  <2>. QED
    BY <2>2, <2>3, <2>4, <2>5, <2>6, <2>7, <2>8 DEF NumbersHold
<1>. QED
  BY <1>1, <1>2, <1>3, PTL DEF BytesSpec
=============================================================================
