---------------------------- MODULE BoxesProofs ----------------------------
(***************************************************************************)
(* Proofs about sealing and opening in the caller's memory, and about the  *)
(* keys of crypto_kx; first what they and others need to know of folds.    *)
(***************************************************************************)
EXTENDS Boxes, FiniteSetTheorems, TLAPS
-----------------------------------------------------------------------------

(* Products are naturals, distribute, and keep the order.                  *)
LEMMA Products ==
    \A a, b, h \in Nat : /\ a * h \in Nat /\ (a + 1) * h = a * h + h
                        /\ a <= b => a * h <= b * h
OBVIOUS

(* n is n \div h times h and n % h more.                                   *)
LEMMA Division ==
    ASSUME NEW n \in Nat, NEW h \in Nat \ {0}
    PROVE  n \div h \in Nat /\ n % h \in 0 .. h - 1 /\ n = (n \div h) * h + (n % h)
<1>1. n \div h \in Nat
  OBVIOUS
<1>2. n % h \in 0 .. h - 1
  OBVIOUS
<1>3. n = (n \div h) * h + (n % h)
  OBVIOUS
<1>. QED
  BY <1>1, <1>2, <1>3

(* A set of naturals that is not empty has a least member.                 *)
LEMMA Least ==
    ASSUME NEW T \in SUBSET Nat, T # {}
    PROVE  \E m \in T : \A k \in T : m <= k
<1> DEFINE less == OpToRel(<, Nat)
<1>1. IsWellFoundedOn(less, Nat)
  BY NatLessThanWellFounded
<1>2. \A d, e \in Nat : <<e, d>> \in less <=> e < d
  BY DEF OpToRel
<1> HIDE DEF less
<1>3. PICK m \in T : \A k \in T : <<k, m>> \notin less
  BY <1>1, WFMin
<1>4. \A k \in T : m <= k
  <2> SUFFICES ASSUME NEW k \in T
               PROVE  m <= k
    OBVIOUS
  <2>1. m \in Nat /\ k \in Nat
    OBVIOUS
  <2>2. ~(k < m)
    BY <1>2, <1>3, <2>1, Zenon
  <2>. QED
    BY <2>1, <2>2
<1>. QED
  BY <1>4

(* Induction, for a set: what holds of 0, and of k + 1 where it holds of k, *)
(* holds up to n.                                                          *)
LEMMA UpTo ==
    ASSUME NEW n \in Nat, NEW S, 0 \in S, \A k \in 0 .. n - 1 : k \in S => k + 1 \in S
    PROVE  0 .. n \subseteq S
<1> DEFINE T == {k \in 0 .. n : k \notin S}
<1>1. ASSUME T # {}
      PROVE  FALSE
  <2>1. PICK k \in T : \A l \in T : k <= l
    <3>. T \in SUBSET Nat
      OBVIOUS
    <3>. QED
      BY <1>1, Least
  <2>2. k # 0
    OBVIOUS
  <2>3. k - 1 \in 0 .. n - 1 /\ k - 1 \in S
    BY <2>1, <2>2
  <2>4. (k - 1) + 1 \in S
    BY <2>3
  <2>. QED
    BY <2>4
<1>. QED
  BY <1>1

(* iter folds the sets of numbers from D by F, which takes what is folded  *)
(* so far and the number that ch chooses of the set.                       *)
FoldedBy(iter, D, base, F, ch) ==
    iter = [s \in SUBSET D |-> IF s = {} THEN base ELSE F[<<iter[s \ {ch[s]}], ch[s]>>]]

(* The recursion of a fold over a finite set has a solution.               *)
LEMMA FoldExists ==
    ASSUME NEW D, IsFiniteSet(D), NEW A, NEW base \in A, NEW F \in [A \X D -> A],
           NEW ch, \A s \in SUBSET D : s # {} => ch[s] \in s
    PROVE  \E iter \in [SUBSET D -> A] : FoldedBy(iter, D, base, F, ch)
<1> DEFINE Small(k) == {s \in SUBSET D : Cardinality(s) <= k}
           Folds(g, k) == /\ g \in [Small(k) -> A]
                          /\ \A s \in Small(k) : g[s] = IF s = {} THEN base ELSE F[<<g[s \ {ch[s]}], ch[s]>>]
           N == Cardinality(D)
           S == {k \in 0 .. N : \E g : Folds(g, k)}
<1>1. N \in Nat /\ \A s \in SUBSET D : Cardinality(s) \in Nat /\ (Cardinality(s) = 0 <=> s = {})
  BY FS_CardinalityType, FS_Subset, FS_EmptySet
<1>2. \A s \in SUBSET D : s # {} => s \ {ch[s]} \in SUBSET D /\ Cardinality(s \ {ch[s]}) = Cardinality(s) - 1
  BY FS_RemoveElement, FS_Subset
<1>3. 0 \in S
  <2>1. Small(0) = {{}}
    BY <1>1
  <2>2. Folds([s \in Small(0) |-> base], 0)
    BY <2>1
  <2> HIDE DEF Folds
  <2>3. \E g : Folds(g, 0)
    BY <2>2, Zenon
  <2> HIDE DEF N
  <2>. QED
    BY <1>1, <2>3
<1>4. ASSUME NEW k \in 0 .. N - 1, k \in S
      PROVE  k + 1 \in S
  <2>1. PICK g : Folds(g, k)
    BY <1>4
  <2> DEFINE h == [s \in Small(k + 1) |-> IF s = {} THEN base ELSE F[<<g[s \ {ch[s]}], ch[s]>>]]
  <2>2. \A s \in Small(k + 1) : s # {} => s \ {ch[s]} \in Small(k) /\ ch[s] \in D
    BY <1>1, <1>2
  <2>3. \A s \in Small(k) : s \in Small(k + 1)
    BY <1>1
  <2>4. \A s \in Small(k) : g[s] \in A /\ h[s] = g[s]
    BY <2>1, <2>3
  <2>5. h \in [Small(k + 1) -> A]
    <3>1. \A s \in Small(k + 1) : s # {} => <<g[s \ {ch[s]}], ch[s]>> \in A \X D
      BY <2>2, <2>4
    <3>. QED
      BY <3>1
  <2>6. \A s \in Small(k + 1) : h[s] = IF s = {} THEN base ELSE F[<<h[s \ {ch[s]}], ch[s]>>]
    BY <2>2, <2>4
  <2>7. Folds(h, k + 1)
    BY <2>5, <2>6
  <2> HIDE DEF Folds, h
  <2>8. \E f : Folds(f, k + 1)
    BY <2>7, Zenon
  <2> HIDE DEF N
  <2>. QED
    BY <1>1, <2>8
<1>5. N \in S
  <2>1. 0 .. N \subseteq S
    <3> HIDE DEF S, N
    <3>. QED
      BY <1>1, <1>3, <1>4, UpTo
  <2> HIDE DEF S, N
  <2>. QED
    BY <1>1, <2>1
<1>6. Small(N) = SUBSET D
  BY FS_Subset
<1>7. PICK g : Folds(g, N)
  BY <1>5
<1>8. g = [s \in SUBSET D |-> IF s = {} THEN base ELSE F[<<g[s \ {ch[s]}], ch[s]>>]]
  BY <1>6, <1>7
<1>9. FoldedBy(g, D, base, F, ch)
  BY <1>8 DEF FoldedBy
<1>10. g \in [SUBSET D -> A]
  BY <1>6, <1>7
<1>. QED
  BY <1>9, <1>10

(* A set of numbers from 1 to n has a largest, and without it ends before. *)
LEMMA Largest ==
    ASSUME NEW n \in Nat, NEW s \in SUBSET (1 .. n), s # {}
    PROVE  Max(s) \in s /\ \A x \in s : x <= Max(s)
<1> DEFINE T == {m \in 0 .. n : \A x \in s : x <= m}
<1>1. n \in T /\ T \in SUBSET Nat
  OBVIOUS
<1>2. PICK m \in T : \A k \in T : m <= k
  BY <1>1, Least
<1>3. m \in s
  <2> SUFFICES ASSUME m \notin s
               PROVE  FALSE
    OBVIOUS
  <2>1. PICK x \in s : x <= m
    BY <1>2
  <2>2. m - 1 \in 0 .. n /\ \A y \in s : y <= m - 1
    BY <1>2, <2>1
  <2>3. m - 1 \in T
    BY <2>2
  <2>. QED
    BY <1>2, <2>3
<1>4. \E x \in s : \A y \in s : x >= y
  BY <1>2, <1>3
<1>5. Max(s) \in s /\ \A y \in s : Max(s) >= y
  BY <1>4 DEF Max
<1>. QED
  BY <1>5

(* The largest of 1 .. k is k, and without it 1 .. k - 1 is left: how a    *)
(* fold over a sequence takes it apart.                                    *)
LEMMA LargestOf ==
    ASSUME NEW n \in Nat, NEW k \in 1 .. n
    PROVE  1 .. k \in SUBSET (1 .. n) /\ 1 .. k # {} /\ Max(1 .. k) = k /\ (1 .. k) \ {k} = 1 .. k - 1
<1>1. 1 .. k \in SUBSET (1 .. n) /\ k \in 1 .. k
  OBVIOUS
<1>2. Max(1 .. k) = k
  BY <1>1, Largest
<1>3. (1 .. k) \ {k} = 1 .. k - 1
  OBVIOUS
<1>. QED
  BY <1>1, <1>2, <1>3

(* The recursion of a fold over a sequence of n from left to right.        *)
LeftFold(iter, n, base, F) ==
    iter = [s \in SUBSET (1 .. n) |-> IF s = {} THEN base ELSE F[<<iter[s \ {Max(s)}], Max(s)>>]]

(* A fold from the left exists for every step function on a set.           *)
LEMMA LeftExists ==
    ASSUME NEW n \in Nat, NEW A, NEW base \in A, NEW F \in [A \X (1 .. n) -> A]
    PROVE  \E iter \in [SUBSET (1 .. n) -> A] : LeftFold(iter, n, base, F)
<1>1. PICK D : D = 1 .. n
  OBVIOUS
<1>2. IsFiniteSet(D)
  <2>. 1 \in Int /\ n \in Int
    OBVIOUS
  <2>. QED
    BY <1>1, FS_Interval
<1>3. PICK ch : ch = [s \in SUBSET D |-> Max(s)]
  OBVIOUS
<1>4. \A s \in SUBSET D : s # {} => ch[s] \in s
  <2>. \A s \in SUBSET (1 .. n) : s # {} => Max(s) \in s
    BY Largest
  <2>. QED
    BY <1>1, <1>3
<1>5. F \in [A \X D -> A]
  BY <1>1
<1>6. PICK iter \in [SUBSET D -> A] : FoldedBy(iter, D, base, F, ch)
  BY <1>2, <1>4, <1>5, FoldExists
<1>7. LeftFold(iter, n, base, F)
  <2>1. iter = [s \in SUBSET D |-> IF s = {} THEN base ELSE F[<<iter[s \ {Max(s)}], Max(s)>>]]
    BY <1>3, <1>6 DEF FoldedBy
  <2>. QED
    BY <1>1, <2>1 DEF LeftFold
<1>. QED
  BY <1>1, <1>6, <1>7

-----------------------------------------------------------------------------
(* Memory and its cells                                                    *)

(* The caller's memory, and runs of cells in it.                           *)
IsMemory(mem) == mem = [x \in Memory |-> mem[x]]
IsCells(s) == Len(s) \in Nat /\ s = [i \in 1 .. Len(s) |-> s[i]]

(* The lesser of two integers.                                             *)
LEMMA MinOf ==
    ASSUME NEW a \in Int, NEW b \in Int
    PROVE  Min({a, b}) = IF a <= b THEN a ELSE b
<1>1. \E x \in {a, b} : \A y \in {a, b} : x <= y
  OBVIOUS
<1>2. Min({a, b}) \in {a, b} /\ \A y \in {a, b} : Min({a, b}) <= y
  BY <1>1 DEF Min
<1>. QED
  BY <1>2

(* A sequence written out is one. *)
LEMMA MadeCells ==
    ASSUME NEW n \in Nat, NEW s, s = [i \in 1 .. n |-> s[i]]
    PROVE  IsCells(s) /\ Len(s) = n
<1>1. s \in Seq({s[i] : i \in 1 .. n})
  OBVIOUS
<1>2. Len(s) = n
  BY <1>1
<1>. QED
  BY <1>2 DEF IsCells

(* A join of two runs of cells, cell by cell.                              *)
LEMMA Joined ==
    ASSUME NEW a, NEW b, IsCells(a), IsCells(b)
    PROVE  /\ IsCells(a \o b) /\ Len(a \o b) = Len(a) + Len(b)
           /\ \A i \in 1 .. Len(a) + Len(b) : (a \o b)[i] = IF i <= Len(a) THEN a[i] ELSE b[i - Len(a)]
<1> DEFINE V == {a[i] : i \in 1 .. Len(a)} \union {b[i] : i \in 1 .. Len(b)}
<1>1. a \in Seq(V) /\ b \in Seq(V)
  BY DEF IsCells
<1> HIDE DEF V
<1>2. a \o b \in Seq(V) /\ Len(a \o b) = Len(a) + Len(b)
  BY <1>1
<1>3. \A i \in 1 .. Len(a) + Len(b) : (a \o b)[i] = IF i <= Len(a) THEN a[i] ELSE b[i - Len(a)]
  BY <1>1
<1>4. IsCells(a \o b)
  <2>1. PICK f \in Seq(V) : f = a \o b
    BY <1>2
  <2>2. IsCells(f)
    BY DEF IsCells
  <2>. QED
    BY <2>1, <2>2
<1>. QED
  BY <1>2, <1>3, <1>4

(* The step of xor_ic, for block j. *)
Xored(t, c, m, n, s, first, j) ==
    [x \in DOMAIN t |->
        IF x - c \in j * Block .. Min({n, (j + 1) * Block}) - 1
        THEN XorOf(t[m + (x - c)], Stream(s, first * Block + (x - c))) ELSE t[x]]

Blocks4(n) == (n + Block - 1) \div Block

(* xor_ic is its blocks one after the other, each on what the last one     *)
(* left.                                                                   *)
LEMMA XorSteps ==
    ASSUME NEW mem, IsMemory(mem), NEW c \in Nat, NEW m \in Nat, NEW n \in Nat, Fits(c, n), Fits(m, n),
           NEW s, NEW first \in Nat
    PROVE  \E g : /\ g[0] = mem
                  /\ \A k \in 1 .. Blocks4(n) : g[k] = Xored(g[k - 1], c, m, n, s, first, k - 1)
                  /\ xor_ic(mem, c, m, n, s, first) = g[Blocks4(n)]
<1> DEFINE U == (UNION {mem[x] : x \in Memory}) \union {<<"key_stream", s, i>> : i \in Nat}
           A == [Memory -> SUBSET U]
<1>1. PICK N : N = Blocks4(n)
  OBVIOUS
<1>2. Block \in Nat \ {0} /\ N \in Nat
  BY <1>1, BoxAssumption DEF Block, Blocks4
<1>3. mem \in A
  BY DEF IsMemory
<1>4. \A t \in A, k \in 1 .. N : Xored(t, c, m, n, s, first, k - 1) \in A
  <2> SUFFICES ASSUME NEW t \in A, NEW k \in 1 .. N, NEW x \in Memory,
                      x - c \in (k - 1) * Block .. Min({n, ((k - 1) + 1) * Block}) - 1
               PROVE  XorOf(t[m + (x - c)], Stream(s, first * Block + (x - c))) \in SUBSET U
    BY DEF Xored
  <2>1. (k - 1) * Block \in Nat /\ ((k - 1) + 1) * Block \in Nat /\ first * Block \in Nat
    BY <1>2
  <2>2. x - c \in 0 .. n - 1
    BY <2>1, MinOf
  <2>3. m + (x - c) \in Memory /\ first * Block + (x - c) \in Nat
    BY <2>1, <2>2, BoxAssumption DEF Fits, Memory
  <2>4. t[m + (x - c)] \in SUBSET U
    BY <2>3
  <2>5. Stream(s, first * Block + (x - c)) \in SUBSET U
    BY <2>3 DEF Stream
  <2>. QED
    BY <2>4, <2>5 DEF XorOf, SymDiff
<1> HIDE DEF A
<1> DEFINE F == [p \in A \X (1 .. N) |-> Xored(p[1], c, m, n, s, first, p[2] - 1)]
<1>5. F \in [A \X (1 .. N) -> A]
  BY <1>4
<1>6. \A t \in A, k \in 1 .. N : F[<<t, k>>] = Xored(t, c, m, n, s, first, k - 1)
  OBVIOUS
<1> HIDE DEF F
<1>7. PICK iter \in [SUBSET (1 .. N) -> A] : LeftFold(iter, N, mem, F)
  BY <1>2, <1>3, <1>5, LeftExists
<1> DEFINE seq == [j \in 1 .. (n + Block - 1) \div Block |-> j - 1]
           Eq(f) == f = [S \in SUBSET (DOMAIN seq) |->
                           IF S = {} THEN mem ELSE Xored(f[S \ {Max(S)}], c, m, n, s, first, seq[Max(S)])]
           h == CHOOSE f : Eq(f)
<1>8. DOMAIN seq = 1 .. N /\ \A k \in 1 .. N : seq[k] = k - 1
  BY <1>1 DEF Blocks4
<1>9. xor_ic(mem, c, m, n, s, first) = h[DOMAIN seq]
  BY DEF xor_ic, FoldLeft, MapThenFoldSet, Xored
<1>10. Eq(h)
  <2>1. \A S \in SUBSET (1 .. N) : S # {} => S \ {Max(S)} \in SUBSET (1 .. N) /\ Max(S) \in 1 .. N
    BY <1>2, Largest
  <2> HIDE DEF seq
  <2>2. \A S \in SUBSET (1 .. N) : S # {} => F[<<iter[S \ {Max(S)}], Max(S)>>]
                                              = Xored(iter[S \ {Max(S)}], c, m, n, s, first, seq[Max(S)])
    BY <1>6, <1>8, <2>1
  <2>3. Eq(iter)
    BY <1>7, <1>8, <2>2 DEF LeftFold
  <2>. QED
    BY <2>3, Zenon
<1> HIDE DEF seq, h
<1>11. h[1 .. 0] = mem /\ \A k \in 1 .. N : h[1 .. k] = Xored(h[1 .. k - 1], c, m, n, s, first, k - 1)
  <2>1. h[1 .. 0] = mem
    BY <1>8, <1>10
  <2>2. ASSUME NEW k \in 1 .. N
        PROVE  h[1 .. k] = Xored(h[1 .. k - 1], c, m, n, s, first, k - 1)
    <3>1. PICK S : S = 1 .. k
      OBVIOUS
    <3>2. S \in SUBSET (1 .. N) /\ S # {} /\ Max(S) = k /\ S \ {k} = 1 .. k - 1
      BY <1>2, <3>1, LargestOf
    <3>3. h[S] = Xored(h[S \ {Max(S)}], c, m, n, s, first, seq[Max(S)])
      BY <1>8, <1>10, <3>2
    <3>4. h[S] = Xored(h[1 .. k - 1], c, m, n, s, first, k - 1)
      BY <1>8, <3>2, <3>3
    <3>. QED
      BY <3>1, <3>4
  <2>. QED
    BY <2>1, <2>2
<1> DEFINE g == [k \in 0 .. N |-> h[1 .. k]]
<1>12. /\ g[0] = mem
       /\ \A k \in 1 .. N : g[k] = Xored(g[k - 1], c, m, n, s, first, k - 1)
       /\ xor_ic(mem, c, m, n, s, first) = g[N]
  BY <1>2, <1>8, <1>9, <1>11
<1>. QED
  BY <1>1, <1>12

(* Every cell xored with the key stream from place at on.                  *)
Ciphered(cells, s, at) == [i \in 1 .. Len(cells) |-> XorOf(cells[i], Stream(s, at + i - 1))]

(* All of a message enciphered where it lies or elsewhere.                 *)
XorAll(mem, c, m, n, s, at) ==
    [x \in Memory |-> IF x - c \in 0 .. n - 1 THEN XorOf(mem[m + (x - c)], Stream(s, at + (x - c))) ELSE mem[x]]

(* The n cells of a memory from m on.                                      *)
LEMMA CellsOf ==
    ASSUME NEW mem, NEW m \in Nat, NEW n \in Nat
    PROVE  /\ IsCells(Cells(mem, m, n)) /\ Len(Cells(mem, m, n)) = n
           /\ \A i \in 1 .. n : Cells(mem, m, n)[i] = mem[m + i - 1]
<1>1. Cells(mem, m, n) = [i \in 1 .. n |-> Cells(mem, m, n)[i]]
  BY DEF Cells
<1>2. \A i \in 1 .. n : Cells(mem, m, n)[i] = mem[m + i - 1]
  BY DEF Cells
<1>. QED
  BY <1>1, <1>2, MadeCells

(* Enciphering xors a cell with the stream at its place and keeps the      *)
(* length.                                                                 *)
LEMMA CipheredCells ==
    ASSUME NEW cells, IsCells(cells), NEW s, NEW at
    PROVE  /\ IsCells(Ciphered(cells, s, at)) /\ Len(Ciphered(cells, s, at)) = Len(cells)
           /\ \A i \in 1 .. Len(cells) : Ciphered(cells, s, at)[i] = XorOf(cells[i], Stream(s, at + i - 1))
<1>1. Len(cells) \in Nat
  BY DEF IsCells
<1>2. Ciphered(cells, s, at) = [i \in 1 .. Len(cells) |-> Ciphered(cells, s, at)[i]]
  BY DEF Ciphered
<1>3. \A i \in 1 .. Len(cells) : Ciphered(cells, s, at)[i] = XorOf(cells[i], Stream(s, at + i - 1))
  BY DEF Ciphered
<1>. QED
  BY <1>1, <1>2, <1>3, MadeCells

(* Cells written to a memory are there, and nothing else has changed.      *)
LEMMA WrittenAt ==
    ASSUME NEW mem, IsMemory(mem), NEW at \in Nat, NEW cells, IsCells(cells)
    PROVE  /\ IsMemory(Written(mem, at, cells))
           /\ \A x \in Memory : Written(mem, at, cells)[x]
                                  = IF x >= at /\ x < at + Len(cells) THEN cells[x - at + 1] ELSE mem[x]
<1>1. DOMAIN mem = Memory
  BY DEF IsMemory
<1>2. Memory \subseteq Int
  BY BoxAssumption DEF Memory
<1>3. Len(cells) \in Nat
  BY DEF IsCells
<1>4. Written(mem, at, cells)
         = [x \in Memory |-> IF x - at \in 0 .. Len(cells) - 1 THEN cells[x - at + 1] ELSE mem[x]]
  BY <1>1 DEF Written
<1>5. \A x \in Memory : x - at \in 0 .. Len(cells) - 1 <=> x >= at /\ x < at + Len(cells)
  BY <1>2, <1>3
<1>. QED
  BY <1>4, <1>5 DEF IsMemory

(* w is mem with n cells from place at on.                                 *)
Holding(w, mem, at, n, cells) ==
    /\ IsMemory(w)
    /\ \A x \in Memory : w[x] = IF x >= at /\ x < at + n THEN cells[x - at + 1] ELSE mem[x]

(* The same under one name, for cells whose number has a name.             *)
LEMMA WrittenTo ==
    ASSUME NEW mem, IsMemory(mem), NEW at \in Nat, NEW cells, IsCells(cells), NEW n, Len(cells) = n
    PROVE  Holding(Written(mem, at, cells), mem, at, n, cells)
<1>1. PICK w : w = Written(mem, at, cells)
  OBVIOUS
<1>2. IsMemory(w) /\ \A x \in Memory : w[x] = IF x >= at /\ x < at + Len(cells) THEN cells[x - at + 1] ELSE mem[x]
  BY <1>1, WrittenAt
<1>. QED
  BY <1>1, <1>2 DEF Holding

(* Two memories that agree everywhere are the same.                        *)
LEMMA SameMemory ==
    ASSUME NEW a, NEW b, IsMemory(a), IsMemory(b), \A x \in Memory : a[x] = b[x]
    PROVE  a = b
BY DEF IsMemory

(* xor_ic reads every byte before it is overwritten, in place or where the *)
(* box begins no later than the message.                                   *)
LEMMA XorEffect ==
    ASSUME NEW mem, IsMemory(mem), NEW c \in Nat, NEW m \in Nat, NEW n \in Nat, Fits(c, n), Fits(m, n),
           NEW s, NEW first \in Nat, c <= m \/ m + n <= c
    PROVE  xor_ic(mem, c, m, n, s, first) = XorAll(mem, c, m, n, s, first * Block)
<1>1. PICK N : N = Blocks4(n)
  OBVIOUS
<1>2. Block \in Nat \ {0} /\ N \in Nat
  BY <1>1, BoxAssumption DEF Block, Blocks4
<1>3. PICK g : /\ g[0] = mem
               /\ \A k \in 1 .. N : g[k] = Xored(g[k - 1], c, m, n, s, first, k - 1)
               /\ xor_ic(mem, c, m, n, s, first) = g[N]
  BY <1>1, XorSteps
<1>4. PICK at \in Nat : at = first * Block
  BY <1>2
<1> DEFINE Done(k) == IF n <= k * Block THEN n ELSE k * Block
           S == {k \in 0 .. N : g[k] = XorAll(mem, c, m, Done(k), s, at)}
<1>5. 0 \in S
  <2>1. Done(0) = 0
    BY <1>2
  <2>2. \A x \in Memory : x - c \notin 0 .. 0 - 1
    OBVIOUS
  <2>3. XorAll(mem, c, m, 0, s, at) = mem
    BY <2>2 DEF XorAll, IsMemory
  <2>. QED
    BY <1>2, <1>3, <2>1, <2>3
<1>6. ASSUME NEW k \in 0 .. N - 1, k \in S
      PROVE  k + 1 \in S
  <2>1. PICK p \in Nat : p = k * Block /\ (k + 1) * Block = p + Block
    BY <1>2, Products
  <2>2. k + 1 \in 1 .. N /\ (k + 1) - 1 = k
    BY <1>2
  <2>3. PICK d \in Nat, e \in Nat : d = Done(k) /\ e = Done(k + 1)
    BY <2>1, <1>2
  <2>4. d = (IF n <= p THEN n ELSE p) /\ e = (IF n <= p + Block THEN n ELSE p + Block)
    BY <2>1, <2>3
  <2>5. Min({n, (k + 1) * Block}) = e
    BY <2>1, <2>4, <1>2, MinOf
  <2>6. PICK t : t = g[k] /\ t = XorAll(mem, c, m, d, s, at)
    BY <1>6, <2>3
  <2>7. DOMAIN t = Memory /\ \A x \in Memory : t[x] = IF x - c \in 0 .. d - 1
                                 THEN XorOf(mem[m + (x - c)], Stream(s, at + (x - c))) ELSE mem[x]
    BY <2>6 DEF XorAll
  <2>8. g[k + 1] = [x \in Memory |-> IF x - c \in p .. e - 1
                       THEN XorOf(t[m + (x - c)], Stream(s, at + (x - c))) ELSE t[x]]
    <3>1. g[k + 1] = Xored(t, c, m, n, s, first, k)
      BY <1>3, <2>2, <2>6
    <3>2. Xored(t, c, m, n, s, first, k) = [x \in Memory |-> IF x - c \in p .. e - 1
                       THEN XorOf(t[m + (x - c)], Stream(s, at + (x - c))) ELSE t[x]]
      BY <1>4, <2>1, <2>5, <2>7 DEF Xored
    <3>. QED
      BY <3>1, <3>2
  <2>9. ASSUME NEW x \in Memory
        PROVE  (IF x - c \in p .. e - 1 THEN XorOf(t[m + (x - c)], Stream(s, at + (x - c))) ELSE t[x])
                = IF x - c \in 0 .. e - 1 THEN XorOf(mem[m + (x - c)], Stream(s, at + (x - c))) ELSE mem[x]
    <3>1. x \in 0 .. Room - 1 /\ Room \in Nat /\ c + n <= Room /\ m + n <= Room
      BY BoxAssumption DEF Memory, Fits
    <3>2. CASE x - c \in p .. e - 1
      <4>1. PICK y \in Int : y = m + (x - c)
        BY <3>1
      <4>2. y \in Memory /\ y - c \notin 0 .. d - 1 /\ x - c \in 0 .. e - 1
        BY <3>1, <3>2, <4>1, <2>4, <1>2 DEF Memory
      <4>3. t[y] = mem[y]
        BY <2>7, <4>2
      <4>. QED
        BY <3>2, <4>1, <4>2, <4>3
    <3>3. CASE x - c \notin p .. e - 1
      <4>1. x - c \in 0 .. e - 1 <=> x - c \in 0 .. d - 1
        BY <3>1, <3>3, <2>4, <1>2
      <4>. QED
        BY <3>3, <4>1, <2>7
    <3>. QED
      BY <3>2, <3>3
  <2>10. g[k + 1] = XorAll(mem, c, m, e, s, at)
    BY <2>8, <2>9 DEF XorAll
  <2>. QED
    BY <2>2, <2>3, <2>10
<1>7. N \in S
  <2> HIDE DEF S
  <2>1. 0 .. N \subseteq S
    BY <1>2, <1>5, <1>6, UpTo
  <2>. QED
    BY <1>2, <2>1
<1>8. Done(N) = n
  <2>0. PICK y \in Nat : y = n + Block - 1
    BY <1>2
  <2>1. PICK r \in 0 .. Block - 1 : y = N * Block + r
    BY <1>1, <1>2, <2>0, Division DEF Blocks4
  <2>2. N * Block \in Nat
    BY <1>2
  <2>. QED
    BY <1>2, <2>0, <2>1, <2>2
<1>. QED
  BY <1>3, <1>4, <1>7, <1>8

(* body is n cells of mem from m on, xored with the key stream from at on. *)
Enciphers(body, mem, m, n, s, at) ==
    /\ IsCells(body) /\ Len(body) = n
    /\ \A y \in 0 .. n - 1 : body[y + 1] = XorOf(mem[m + y], Stream(s, at + y))

(* The same of the cells of a memory.                                      *)
LEMMA CipheredAt ==
    ASSUME NEW mem, NEW m \in Nat, NEW n \in Nat, NEW s, NEW at \in Nat
    PROVE  Enciphers(Ciphered(Cells(mem, m, n), s, at), mem, m, n, s, at)
<1>1. PICK cells : cells = Cells(mem, m, n)
  OBVIOUS
<1>2. Len(cells) = n /\ IsCells(cells) /\ \A i \in 1 .. n : cells[i] = mem[m + i - 1]
  BY <1>1, CellsOf
<1>3. PICK body : body = Ciphered(cells, s, at)
  OBVIOUS
<1>4. IsCells(body) /\ Len(body) = n
  BY <1>2, <1>3, CipheredCells
<1>5. ASSUME NEW y \in 0 .. n - 1
      PROVE  body[y + 1] = XorOf(mem[m + y], Stream(s, at + y))
  <2>1. y + 1 \in 1 .. n /\ m + (y + 1) - 1 = m + y /\ at + (y + 1) - 1 = at + y
    OBVIOUS
  <2>2. body[y + 1] = XorOf(cells[y + 1], Stream(s, at + (y + 1) - 1))
    BY <1>2, <1>3, <2>1 DEF Ciphered
  <2>3. cells[y + 1] = mem[m + (y + 1) - 1]
    BY <1>2, <2>1
  <2>. QED
    BY <2>1, <2>2, <2>3
<1>. QED
  BY <1>1, <1>3, <1>4, <1>5 DEF Enciphers

(* Where the output does not run into input still to be read, xor_ic       *)
(* writes the enciphered input, as the caller of stream_ref_xor_ic         *)
(* expects.                                                                *)
LEMMA XorWrites ==
    ASSUME NEW mem, IsMemory(mem), NEW c \in Nat, NEW m \in Nat, NEW n \in Nat, Fits(c, n), Fits(m, n),
           NEW s, NEW first \in Nat, c <= m \/ m + n <= c
    PROVE  xor_ic(mem, c, m, n, s, first) = Written(mem, c, Ciphered(Cells(mem, m, n), s, first * Block))
<1>1. PICK at \in Nat : at = first * Block
  BY BoxAssumption DEF Block
<1> DEFINE cells == Cells(mem, m, n)
           body  == Ciphered(cells, s, at)
<1>2. xor_ic(mem, c, m, n, s, first) = XorAll(mem, c, m, n, s, at)
  BY <1>1, XorEffect
<1>3. IsCells(cells) /\ Len(cells) = n
  BY CellsOf
<1>4. IsCells(body) /\ Len(body) = n
  BY <1>3, CipheredCells
<1>5. \A x \in Memory : x \in Int
  BY BoxAssumption DEF Memory
<1>6. IsMemory(XorAll(mem, c, m, n, s, at))
  BY DEF IsMemory, XorAll
<1>7. IsMemory(Written(mem, c, body))
  BY <1>4, WrittenAt
<1>8. ASSUME NEW x \in Memory
      PROVE  XorAll(mem, c, m, n, s, at)[x] = Written(mem, c, body)[x]
  <2>1. Written(mem, c, body)[x] = IF x >= c /\ x < c + n THEN body[x - c + 1] ELSE mem[x]
    BY <1>4, WrittenAt
  <2>2. XorAll(mem, c, m, n, s, at)[x]
          = IF x >= c /\ x < c + n THEN XorOf(mem[m + (x - c)], Stream(s, at + (x - c))) ELSE mem[x]
    <3>1. x - c \in 0 .. n - 1 <=> x >= c /\ x < c + n
      BY <1>5
    <3>. QED
      BY <3>1 DEF XorAll
  <2>3. CASE x >= c /\ x < c + n
    <3>1. PICK y \in 0 .. n - 1 : y = x - c
      BY <1>5, <2>3
    <3>2. body[y + 1] = XorOf(mem[m + y], Stream(s, at + y))
      <4>. Enciphers(body, mem, m, n, s, at)
        BY CipheredAt
      <4> HIDE DEF body
      <4>. QED
        BY DEF Enciphers
    <3>. QED
      BY <2>1, <2>2, <2>3, <3>1, <3>2
  <2>4. CASE ~(x >= c /\ x < c + n)
    BY <2>1, <2>2, <2>4
  <2>. QED
    BY <2>3, <2>4
<1>. QED
  BY <1>1, <1>2, <1>6, <1>7, <1>8, SameMemory

(* crypto_secretbox, wherever message and box lie.                         *)
LEMMA CryptedEffect ==
    ASSUME NEW mem, IsMemory(mem), NEW c \in Nat, NEW m \in Nat, NEW n \in Nat, Fits(c, n), Fits(m, n), NEW s
    PROVE  Crypted(mem, c, m, n, s) = Written(mem, c, Ciphered(Cells(mem, m, n), s, Zero))
<1> DEFINE moved  == IF Overlap(c, m, n) THEN Written(mem, c, Cells(mem, m, n)) ELSE mem
           from   == IF Overlap(c, m, n) THEN c ELSE m
           head   == [i \in 1 .. Short(n) |-> XorOf(moved[from + i - 1], Stream(s, Zero + i - 1))]
           before == Written(moved, c, head)
           body   == Ciphered(Cells(mem, m, n), s, Zero)
<1>1. Zero \in Nat \ {0} /\ Block \in Nat /\ Block = 2 * Zero
  BY BoxAssumption DEF Zero, Block
<1>2. PICK h \in Nat : h = Short(n) /\ h = IF n <= Zero THEN n ELSE Zero
  <2>1. Min({n, Block - Zero}) = IF n <= Block - Zero THEN n ELSE Block - Zero
    BY <1>1, MinOf
  <2>. QED
    BY <1>1, <2>1 DEF Short
<1>3. Crypted(mem, c, m, n, s) = xor_ic(before, c + h, from + h, n - h, s, 1)
  BY <1>2 DEF Crypted
<1>4. Room \in Nat /\ c + n <= Room /\ m + n <= Room /\ \A x \in Memory : x \in 0 .. Room - 1
  BY BoxAssumption DEF Fits, Memory
<1>5. IsCells(Cells(mem, m, n)) /\ Len(Cells(mem, m, n)) = n /\ \A i \in 1 .. n : Cells(mem, m, n)[i] = mem[m + i - 1]
  BY CellsOf
<1>6. from \in Nat /\ from + n <= Room /\ (from = c \/ from + n <= c \/ c + n <= from)
  BY <1>4 DEF Overlap
<1>7. IsMemory(moved)
  BY <1>5, WrittenAt
<1>8. \A x \in Memory : x < c \/ x >= c + n => moved[x] = mem[x]
  <2>1. PICK cells : cells = Cells(mem, m, n)
    OBVIOUS
  <2>2. \A x \in Memory : Written(mem, c, cells)[x] = IF x >= c /\ x < c + n THEN cells[x - c + 1] ELSE mem[x]
    <3>1. IsCells(cells) /\ Len(cells) = n
      BY <1>5, <2>1
    <3>. QED
      BY <3>1, WrittenTo DEF Holding
  <2>. QED
    BY <1>4, <2>1, <2>2
<1>9. ASSUME NEW y \in 0 .. n - 1
      PROVE  moved[from + y] = mem[m + y]
  <2>1. CASE Overlap(c, m, n)
    <3>1. PICK x \in Memory : x = c + y
      BY <1>4 DEF Memory
    <3>2. moved[x] = Cells(mem, m, n)[x - c + 1]
      <4>1. PICK cells : cells = Cells(mem, m, n)
        OBVIOUS
      <4>2. \A z \in Memory : Written(mem, c, cells)[z] = IF z >= c /\ z < c + n THEN cells[z - c + 1] ELSE mem[z]
        <5>1. IsCells(cells) /\ Len(cells) = n
            BY <1>5, <4>1
        <5>. QED
          BY <5>1, WrittenTo DEF Holding
      <4>3. moved = Written(mem, c, cells)
        BY <2>1, <4>1
      <4> HIDE DEF moved
      <4>. QED
        BY <3>1, <4>1, <4>2, <4>3
    <3>3. Cells(mem, m, n)[y + 1] = mem[m + (y + 1) - 1]
      BY <1>5
    <3>4. x - c + 1 = y + 1 /\ m + (y + 1) - 1 = m + y
      BY <3>1
    <3>. QED
      BY <2>1, <3>1, <3>2, <3>3, <3>4
  <2>2. CASE ~Overlap(c, m, n)
    BY <2>2
  <2>. QED
    BY <2>1, <2>2
<1>10. IsCells(head) /\ Len(head) = h /\ \A i \in 1 .. h : head[i] = XorOf(moved[from + i - 1], Stream(s, Zero + i - 1))
  <2>1. head = [i \in 1 .. h |-> head[i]] /\ \A i \in 1 .. h : head[i] = XorOf(moved[from + i - 1], Stream(s, Zero + i - 1))
    BY <1>2
  <2>. QED
    BY <2>1, MadeCells
<1> HIDE DEF moved, from, head
<1>11. /\ IsMemory(before)
       /\ \A x \in Memory : before[x] = IF x >= c /\ x < c + h THEN head[x - c + 1] ELSE moved[x]
  <2>1. Holding(before, moved, c, h, head)
    <3> HIDE DEF before
    <3>1. before = Written(moved, c, head)
      BY DEF before
    <3>. QED
      BY <1>7, <1>10, <3>1, WrittenTo
  <2>. QED
    BY <2>1 DEF Holding
<1> HIDE DEF before
<1>12. xor_ic(before, c + h, from + h, n - h, s, 1) = XorAll(before, c + h, from + h, n - h, s, Block)
  <2>1. c + h \in Nat /\ from + h \in Nat /\ n - h \in Nat /\ 1 \in Nat /\ 1 * Block = Block
    BY <1>1, <1>2, <1>6
  <2>2. Fits(c + h, n - h) /\ Fits(from + h, n - h)
    BY <1>2, <1>4, <1>6 DEF Fits
  <2>3. c + h <= from + h \/ from + h + (n - h) <= c + h
    BY <1>2, <1>6
  <2>4. PICK c2 \in Nat, m2 \in Nat, n2 \in Nat : c2 = c + h /\ m2 = from + h /\ n2 = n - h
    BY <2>1
  <2>5. xor_ic(before, c2, m2, n2, s, 1) = XorAll(before, c2, m2, n2, s, 1 * Block)
    <3>1. Fits(c2, n2) /\ Fits(m2, n2) /\ (c2 <= m2 \/ m2 + n2 <= c2)
      BY <2>2, <2>3, <2>4
    <3>. QED
      BY <1>11, <3>1, XorEffect
  <2>. QED
    BY <2>1, <2>4, <2>5
<1>13. IsCells(body) /\ Len(body) = n
  BY <1>5, CipheredCells
<1>14. ASSUME NEW x \in Memory
       PROVE  XorAll(before, c + h, from + h, n - h, s, Block)[x] = Written(mem, c, body)[x]
  <2>1. Written(mem, c, body)[x] = IF x >= c /\ x < c + n THEN XorOf(mem[m + (x - c)], Stream(s, Zero + (x - c))) ELSE mem[x]
    <3>1. Written(mem, c, body)[x] = IF x >= c /\ x < c + n THEN body[x - c + 1] ELSE mem[x]
      BY <1>13, WrittenAt
    <3>2. ASSUME x >= c, x < c + n
          PROVE  body[x - c + 1] = XorOf(mem[m + (x - c)], Stream(s, Zero + (x - c)))
      <4>1. PICK y \in 0 .. n - 1 : y = x - c
        BY <1>4, <3>2
      <4>2. body[y + 1] = XorOf(mem[m + y], Stream(s, Zero + y))
        <5>. Enciphers(body, mem, m, n, s, Zero)
          BY <1>1, CipheredAt
        <5> HIDE DEF body
        <5>. QED
          BY DEF Enciphers
      <4> HIDE DEF body
      <4>. QED
        BY <4>1, <4>2
    <3> HIDE DEF body
    <3>. QED
      BY <3>1, <3>2
  <2>2. XorAll(before, c + h, from + h, n - h, s, Block)[x]
          = IF x >= c + h /\ x < c + n
            THEN XorOf(before[(from + h) + (x - (c + h))], Stream(s, Block + (x - (c + h)))) ELSE before[x]
    <3>1. x - (c + h) \in 0 .. (n - h) - 1 <=> x >= c + h /\ x < c + n
      BY <1>2, <1>4
    <3>. QED
      BY <3>1 DEF XorAll
  <2>3. CASE x < c \/ x >= c + n
    BY <1>2, <1>4, <1>8, <1>11, <2>1, <2>2, <2>3
  <2>4. CASE x >= c /\ x < c + h
    <3>1. PICK i \in 1 .. h : i = x - c + 1
      BY <1>4, <2>4
    <3>2. before[x] = XorOf(moved[from + i - 1], Stream(s, Zero + i - 1))
      BY <1>4, <1>10, <1>11, <2>4, <3>1
    <3>3. PICK y \in 0 .. n - 1 : y = x - c
      BY <1>2, <1>4, <2>4
    <3>4. from + i - 1 = from + y /\ Zero + i - 1 = Zero + y
      BY <1>1, <1>6, <3>1, <3>3
    <3>5. before[x] = XorOf(mem[m + y], Stream(s, Zero + y))
      BY <1>9, <3>2, <3>4
    <3>. QED
      BY <1>2, <1>4, <2>1, <2>2, <2>4, <3>3, <3>5
  <2>5. CASE x >= c + h /\ x < c + n
    <3>1. PICK y \in 0 .. n - 1 : y = x - c
      BY <1>2, <1>4, <2>5
    <3>2. h = Zero /\ Block + (x - (c + h)) = Zero + y /\ (from + h) + (x - (c + h)) = from + y
      BY <1>1, <1>2, <1>4, <1>6, <2>5, <3>1
    <3>3. from + y \in Memory /\ ~(from + y >= c /\ from + y < c + h)
      BY <1>2, <1>4, <1>6, <2>5, <3>1 DEF Memory
    <3>4. before[from + y] = mem[m + y]
      BY <1>9, <1>11, <3>3
    <3>. QED
      BY <2>1, <2>2, <2>5, <3>1, <3>2, <3>4, <1>2, <1>4
  <2>. QED
    BY <1>4, <2>3, <2>4, <2>5
<1>15. IsMemory(XorAll(before, c + h, from + h, n - h, s, Block)) /\ IsMemory(Written(mem, c, body))
  <2>1. IsMemory(XorAll(before, c + h, from + h, n - h, s, Block))
    BY DEF IsMemory, XorAll
  <2>. QED
    BY <1>13, <2>1, WrittenAt
<1>. QED
  BY <1>3, <1>12, <1>14, <1>15, SameMemory

-----------------------------------------------------------------------------
(* Writing and reading cells                                               *)

(* A sequence of cells is what its length and its cells are.               *)
LEMMA SameCells ==
    ASSUME NEW a, NEW b, IsCells(a), IsCells(b), Len(a) = Len(b), \A i \in 1 .. Len(a) : a[i] = b[i]
    PROVE  a = b
BY DEF IsCells

(* cells are the n of mem from m on.                                       *)
Reads(cells, mem, m, n) ==
    IsCells(cells) /\ Len(cells) = n /\ \A i \in 1 .. n : cells[i] = mem[m + i - 1]

(* Cells under one name.                                                   *)
LEMMA CellsRead ==
    ASSUME NEW mem, NEW m \in Nat, NEW n \in Nat
    PROVE  Reads(Cells(mem, m, n), mem, m, n)
<1>1. PICK cells : cells = Cells(mem, m, n)
  OBVIOUS
<1>2. Reads(cells, mem, m, n)
  BY <1>1, CellsOf DEF Reads
<1>. QED
  BY <1>1, <1>2

(* What was written is read.                                               *)
LEMMA ReadBack ==
    ASSUME NEW mem, IsMemory(mem), NEW at \in Nat, NEW cells, IsCells(cells), NEW n \in Nat, Len(cells) = n, Fits(at, n)
    PROVE  Cells(Written(mem, at, cells), at, n) = cells
<1>1. PICK w : w = Written(mem, at, cells)
  OBVIOUS
<1>2. PICK read : read = Cells(w, at, n)
  OBVIOUS
<1>3. Holding(w, mem, at, n, cells)
  BY <1>1, WrittenTo
<1>4. IsCells(read) /\ Len(read) = n /\ \A i \in 1 .. n : read[i] = w[at + i - 1]
  <2>1. Reads(read, w, at, n)
    BY <1>2, CellsRead
  <2>. QED
    BY <2>1 DEF Reads
<1>5. ASSUME NEW i \in 1 .. n
      PROVE  read[i] = cells[i]
  <2>1. PICK x \in Memory : x = at + i - 1
    BY BoxAssumption DEF Fits, Memory
  <2>2. x >= at /\ x < at + n /\ x - at + 1 = i
    BY <2>1
  <2>. QED
    BY <1>3, <1>4, <2>1, <2>2 DEF Holding
<1>. QED
  BY <1>1, <1>2, <1>4, <1>5, SameCells

(* What was written elsewhere is not.                                      *)
LEMMA ReadApart ==
    ASSUME NEW mem, IsMemory(mem), NEW at \in Nat, NEW cells, IsCells(cells),
           NEW p \in Nat, NEW n \in Nat, Fits(p, n), p + n <= at \/ at + Len(cells) <= p
    PROVE  Cells(Written(mem, at, cells), p, n) = Cells(mem, p, n)
<1>1. PICK w : w = Written(mem, at, cells)
  OBVIOUS
<1>2. PICK k \in Nat : k = Len(cells)
  BY DEF IsCells
<1>3. Holding(w, mem, at, k, cells)
  BY <1>1, <1>2, WrittenTo
<1>4. ASSUME NEW i \in 1 .. n
      PROVE  w[p + i - 1] = mem[p + i - 1]
  <2>1. PICK x \in Memory : x = p + i - 1
    BY BoxAssumption DEF Fits, Memory
  <2>2. ~(x >= at /\ x < at + k)
    BY <1>2, <2>1
  <2>. QED
    BY <1>3, <2>1, <2>2 DEF Holding
<1>5. Cells(w, p, n) = Cells(mem, p, n)
  BY <1>4 DEF Cells
<1>. QED
  BY <1>1, <1>5

(* ab is n cells of a and then k of b.                                     *)
Joins(ab, a, n, b, k) ==
    IsCells(ab) /\ Len(ab) = n + k /\ \A i \in 1 .. n + k : ab[i] = IF i <= n THEN a[i] ELSE b[i - n]

(* A join under one name, of runs whose lengths have names.                *)
LEMMA JoinedTo ==
    ASSUME NEW a, NEW b, IsCells(a), IsCells(b), NEW n, NEW k, Len(a) = n, Len(b) = k
    PROVE  Joins(a \o b, a, n, b, k)
<1>1. PICK ab : ab = a \o b
  OBVIOUS
<1>2. Joins(ab, a, n, b, k)
  BY <1>1, Joined DEF Joins
<1>. QED
  BY <1>1, <1>2

(* Enciphered cells of a memory are as many as were read.                  *)
LEMMA CipheredRead ==
    ASSUME NEW mem, NEW m \in Nat, NEW n \in Nat, NEW s, NEW at
    PROVE  IsCells(Ciphered(Cells(mem, m, n), s, at)) /\ Len(Ciphered(Cells(mem, m, n), s, at)) = n
<1>1. PICK cells : cells = Cells(mem, m, n)
  OBVIOUS
<1>2. IsCells(cells) /\ Len(cells) = n
  BY <1>1, CellsOf
<1>3. IsCells(Ciphered(cells, s, at)) /\ Len(Ciphered(cells, s, at)) = n
  BY <1>2, CipheredCells
<1>. QED
  BY <1>1, <1>3

(* Two pieces written one after the other, in either order, are one.       *)
LEMMA WrittenBefore ==
    ASSUME NEW mem, IsMemory(mem), NEW at \in Nat, NEW a, IsCells(a), NEW b, IsCells(b),
           NEW n, Len(a) = n, NEW p \in Nat, p = at + n
    PROVE  Written(Written(mem, p, b), at, a) = Written(mem, at, a \o b)
<1>0. n \in Nat
  BY DEF IsCells
<1>1. PICK k \in Nat : k = Len(b)
  BY DEF IsCells
<1>2. PICK v : v = Written(mem, p, b)
  OBVIOUS
<1>3. Holding(v, mem, p, k, b)
  BY <1>0, <1>1, <1>2, WrittenTo
<1>4. PICK w : w = Written(v, at, a)
  OBVIOUS
<1>5. Holding(w, v, at, n, a)
  <2>. IsMemory(v)
    BY <1>3 DEF Holding
  <2>. QED
    BY <1>0, <1>4, WrittenTo
<1>6. PICK u : u = Written(mem, at, a \o b)
  OBVIOUS
<1>7. PICK ab : ab = a \o b
  OBVIOUS
<1>8. IsCells(ab) /\ Len(ab) = n + k /\ \A i \in 1 .. n + k : ab[i] = IF i <= n THEN a[i] ELSE b[i - n]
  BY <1>0, <1>1, <1>7, Joined
<1>9. Holding(u, mem, at, n + k, ab)
  BY <1>6, <1>7, <1>8, WrittenTo
<1>10. ASSUME NEW x \in Memory
       PROVE  w[x] = u[x]
  <2>1. x \in Int
    BY BoxAssumption DEF Memory
  <2>2. CASE x >= at /\ x < at + n
    <3>1. x - at + 1 \in 1 .. n + k /\ x - at + 1 <= n
      BY <2>1, <2>2
    <3>2. w[x] = a[x - at + 1] /\ u[x] = ab[x - at + 1]
      BY <2>1, <2>2, <1>5, <1>9 DEF Holding
    <3>. QED
      BY <3>1, <3>2, <1>8
  <2>3. CASE x >= at + n /\ x < at + n + k
    <3>1. PICK i \in 1 .. n + k : i = x - at + 1
      BY <2>1, <2>3
    <3>2. i > n /\ i - n = x - p + 1
      BY <1>0, <1>1, <2>1, <2>3, <3>1
    <3>3. w[x] = b[x - p + 1] /\ u[x] = ab[i]
      BY <1>0, <1>1, <2>1, <2>3, <3>1, <1>3, <1>5, <1>9 DEF Holding
    <3>. QED
      BY <3>2, <3>3, <1>8
  <2>4. CASE x < at \/ x >= at + n + k
    BY <1>0, <1>1, <2>1, <2>4, <1>3, <1>5, <1>9 DEF Holding
  <2>. QED
    BY <2>1, <2>2, <2>3, <2>4
<1>. QED
  BY <1>2, <1>4, <1>5, <1>6, <1>9, <1>10, SameMemory DEF Holding

(* Two runs written one behind the other are their join written once.      *)
LEMMA WrittenAfter ==
    ASSUME NEW mem, IsMemory(mem), NEW at \in Nat, NEW a, IsCells(a), NEW b, IsCells(b),
           NEW n, Len(a) = n, NEW p \in Nat, p = at + n
    PROVE  Written(Written(mem, at, a), p, b) = Written(mem, at, a \o b)
<1>0. n \in Nat
  BY DEF IsCells
<1>1. PICK k \in Nat : k = Len(b)
  BY DEF IsCells
<1>2. PICK v : v = Written(mem, at, a)
  OBVIOUS
<1>3. Holding(v, mem, at, n, a)
  BY <1>0, <1>1, <1>2, WrittenTo
<1>4. PICK w : w = Written(v, p, b)
  OBVIOUS
<1>5. Holding(w, v, p, k, b)
  <2>. IsMemory(v)
    BY <1>3 DEF Holding
  <2>. QED
    BY <1>1, <1>4, WrittenTo
<1>6. PICK v2 : v2 = Written(mem, p, b)
  OBVIOUS
<1>7. Holding(v2, mem, p, k, b)
  BY <1>0, <1>1, <1>6, WrittenTo
<1>8. PICK w2 : w2 = Written(v2, at, a)
  OBVIOUS
<1>9. Holding(w2, v2, at, n, a)
  <2>. IsMemory(v2)
    BY <1>7 DEF Holding
  <2>. QED
    BY <1>0, <1>8, WrittenTo
<1>10. ASSUME NEW x \in Memory
       PROVE  w[x] = w2[x]
  <2>1. x \in Int
    BY BoxAssumption DEF Memory
  <2>2. CASE x >= p
    BY <1>0, <1>1, <1>3, <1>5, <1>7, <1>9, <2>1, <2>2 DEF Holding
  <2>3. CASE x < p
    BY <1>0, <1>1, <1>3, <1>5, <1>7, <1>9, <2>1, <2>3 DEF Holding
  <2>. QED
    BY <2>1, <2>2, <2>3
<1>11. w = w2
  BY <1>5, <1>9, <1>10, SameMemory DEF Holding
<1>. QED
  BY <1>2, <1>4, <1>6, <1>8, <1>11, WrittenBefore

(* What is written over a piece no longer than it is all that is left.     *)
LEMMA WrittenOver ==
    ASSUME NEW mem, IsMemory(mem), NEW at \in Nat, NEW a, IsCells(a), NEW b, IsCells(b), Len(a) = Len(b)
    PROVE  Written(Written(mem, at, a), at, b) = Written(mem, at, b)
<1>1. PICK n \in Nat : n = Len(a) /\ n = Len(b)
  BY DEF IsCells
<1>2. PICK v : v = Written(mem, at, a)
  OBVIOUS
<1>3. Holding(v, mem, at, n, a)
  BY <1>1, <1>2, WrittenTo
<1>4. PICK w : w = Written(v, at, b)
  OBVIOUS
<1>5. Holding(w, v, at, n, b)
  BY <1>1, <1>3, <1>4, WrittenTo DEF Holding
<1>6. PICK u : u = Written(mem, at, b)
  OBVIOUS
<1>7. Holding(u, mem, at, n, b)
  BY <1>1, <1>6, WrittenTo
<1>8. \A x \in Memory : w[x] = u[x]
  BY <1>3, <1>5, <1>7 DEF Holding
<1>. QED
  BY <1>2, <1>4, <1>5, <1>6, <1>7, <1>8, SameMemory DEF Holding

-----------------------------------------------------------------------------
(* Sealing                                                                 *)

(* A public key tells its owner.                                           *)
LEMMA Owned ==
    ASSUME NEW who \in {"alice", "bob", "ephemeral", "small_order"}
    PROVE  Owner(Pk(who)) = who
<1>1. 1 \in 1 .. Zero
  BY BoxAssumption DEF Zero
<1>2. \A w : Pk(w)[1] = {<<"public", 1, w>>}
  BY <1>1 DEF Pk
<1>3. \A w : Pk(who) = Pk(w) => who = w
  <2> SUFFICES ASSUME NEW w, Pk(who) = Pk(w)
               PROVE  who = w
    OBVIOUS
  <2>1. {<<"public", 1, who>>} = {<<"public", 1, w>>}
    BY <1>2
  <2>2. <<"public", 1, who>> = <<"public", 1, w>>
    BY <2>1
  <2>. QED
    BY <2>2
<1>. QED
  BY <1>3 DEF Owner

(* The two sides compute one secret, and none with a key of small order.   *)
LEMMA OneSecret ==
    /\ scalarmult("alice", Pk("bob")) = {"alice", "bob"}
    /\ scalarmult("bob", Pk("alice")) = {"alice", "bob"}
    /\ scalarmult("alice", Pk("small_order")) = {}
    /\ {"alice", "bob"} # {}
BY Owned DEF scalarmult


(* The sizes of the boxes are naturals and multiples of one another.       *)
LEMMA BoxSizes ==
    /\ Tag \in Nat \ {0} /\ Zero \in Nat \ {0} /\ Block \in Nat \ {0} /\ Room \in Nat
    /\ Zero = 2 * Tag /\ Zero = Tag + Tag /\ Block = 2 * Zero /\ \A x \in Memory : x \in Int
BY BoxAssumption DEF Zero, Block, Memory

(* The caller's memory before the call is one.                             *)
LEMMA StartMemory == IsMemory(Start)
BY DEF Start, IsMemory

(* A tag is Tag cells.                                                     *)
LEMMA MacCells ==
    ASSUME NEW key, NEW content
    PROVE  IsCells(Mac(key, content)) /\ Len(Mac(key, content)) = Tag
<1>1. PICK t : t = Mac(key, content)
  OBVIOUS
<1>2. t = [i \in 1 .. Tag |-> t[i]]
  BY <1>1 DEF Mac
<1>. QED
  BY <1>1, <1>2, BoxSizes, MadeCells

(* Zeros are cells without anything in them.                               *)
LEMMA ZerosCells ==
    ASSUME NEW n \in Nat
    PROVE  IsCells(Zeros(n)) /\ Len(Zeros(n)) = n /\ \A i \in 1 .. n : Zeros(n)[i] = {}
<1>1. PICK t : t = Zeros(n)
  OBVIOUS
<1>2. t = [i \in 1 .. n |-> t[i]] /\ \A i \in 1 .. n : t[i] = {}
  BY <1>1 DEF Zeros
<1>. QED
  BY <1>1, <1>2, MadeCells

(* Where the cells of a box go, its own and the message's cells apart.     *)
LEMMA Within ==
    ASSUME NEW at \in Nat, NEW n \in Nat, NEW k \in Nat, Fits(at, n + k)
    PROVE  Fits(at, n) /\ Fits(at + n, k) /\ at + n \in Nat /\ Fits(at, k) /\ Fits(at, k + n) /\ Fits(at + k, n) /\ at + k \in Nat
BY BoxSizes DEF Fits

(* crypto_secretbox_easy, whatever the two buffers share.                  *)
LEMMA SealsEasy ==
    ASSUME NEW mem, IsMemory(mem), NEW c \in Nat, NEW m \in Nat, NEW n \in Nat, Fits(c, Tag + n), Fits(m, n),
           NEW s, NEW body, body = Ciphered(Cells(mem, m, n), s, Zero)
    PROVE  Sealed(mem, c + Tag, c, m, n, s) = Written(mem, c, Mac(PolyKey(s), body) \o body)
<1>1. PICK p \in Nat : p = c + Tag /\ Fits(p, n)
  BY BoxSizes, Within
<1>2. IsCells(body) /\ Len(body) = n
  BY CipheredRead
<1>3. Crypted(mem, p, m, n, s) = Written(mem, p, body)
  BY <1>1, CryptedEffect
<1>4. Cells(Crypted(mem, p, m, n, s), p, n) = body
  BY <1>1, <1>2, <1>3, ReadBack
<1>5. Sealed(mem, p, c, m, n, s) = Written(Written(mem, p, body), c, Mac(PolyKey(s), body))
  BY <1>3, <1>4 DEF Sealed
<1>6. PICK tag : tag = Mac(PolyKey(s), body)
  OBVIOUS
<1>7. IsCells(tag) /\ Len(tag) = Tag
  BY <1>6, MacCells
<1>8. Written(Written(mem, p, body), c, tag) = Written(mem, c, tag \o body)
  BY <1>1, <1>2, <1>7, WrittenBefore
<1>. QED
  BY <1>1, <1>5, <1>6, <1>8

(* The AEADs, in place or apart.                                           *)
LEMMA SealsAead ==
    ASSUME NEW mem, IsMemory(mem), NEW c \in Nat, NEW m \in Nat, NEW n \in Nat, Fits(c, Tag + n), Fits(m, n),
           c = m \/ Apart(c, m, n + Tag), NEW s, NEW body, body = Ciphered(Cells(mem, m, n), s, Block), NEW ad, NEW layout
    PROVE  aead_encrypt(mem, c, m, n, ad, s, layout)
             = Written(mem, c, body \o Mac(PolyKey(s), Authenticated(layout, ad, body)))
<1>1. Fits(c, n) /\ (c <= m \/ m + n <= c)
  BY BoxSizes DEF Fits, Apart
<1>2. IsCells(body) /\ Len(body) = n
  BY CipheredRead
<1>3. xor_ic(mem, c, m, n, s, 1) = Written(mem, c, body)
  <2>1. 1 * Block = Block /\ 1 \in Nat
    BY BoxSizes
  <2>2. xor_ic(mem, c, m, n, s, 1) = Written(mem, c, Ciphered(Cells(mem, m, n), s, 1 * Block))
    BY <1>1, <2>1, XorWrites
  <2>. QED
    BY <2>1, <2>2
<1>4. Cells(Written(mem, c, body), c, n) = body
  BY <1>1, <1>2, ReadBack
<1>5. PICK tag : tag = Mac(PolyKey(s), Authenticated(layout, ad, body))
  OBVIOUS
<1>6. aead_encrypt(mem, c, m, n, ad, s, layout) = Written(Written(mem, c, body), c + n, tag)
  BY <1>3, <1>4, <1>5 DEF aead_encrypt
<1>7. IsCells(tag) /\ Len(tag) = Tag
  BY <1>5, MacCells
<1>8. PICK p \in Nat : p = c + n
  OBVIOUS
<1>9. Written(Written(mem, c, body), p, tag) = Written(mem, c, body \o tag)
  BY <1>2, <1>7, <1>8, WrittenAfter
<1>. QED
  BY <1>5, <1>6, <1>8, <1>9

(* Zeros xored with the first of the key stream are the Poly1305 key.      *)
LEMMA CipheredZeros ==
    ASSUME NEW cells, IsCells(cells), NEW s
    PROVE  Ciphered(Zeros(Zero) \o cells, s, 0) = PolyKey(s) \o Ciphered(cells, s, Zero)
<1>1. PICK z : z = Zeros(Zero)
  OBVIOUS
<1>2. PICK n \in Nat : n = Len(cells)
  BY DEF IsCells
<1>3. IsCells(z) /\ Len(z) = Zero /\ \A i \in 1 .. Zero : z[i] = {}
  BY <1>1, BoxSizes, ZerosCells
<1>4. PICK zc : zc = z \o cells
  OBVIOUS
<1>5. IsCells(zc) /\ Len(zc) = Zero + n /\ \A i \in 1 .. Zero + n : zc[i] = IF i <= Zero THEN {} ELSE cells[i - Zero]
  <2>1. Joins(zc, z, Zero, cells, n)
    BY <1>2, <1>3, <1>4, JoinedTo
  <2>. QED
    BY <1>3, <2>1, BoxSizes DEF Joins
<1>6. PICK k : k = PolyKey(s)
  OBVIOUS
<1>7. IsCells(k) /\ Len(k) = Zero /\ \A i \in 1 .. Zero : k[i] = Stream(s, i - 1)
  <2>1. k = [i \in 1 .. Zero |-> k[i]] /\ \A i \in 1 .. Zero : k[i] = Stream(s, i - 1)
    BY <1>6 DEF PolyKey
  <2>. QED
    BY <2>1, BoxSizes, MadeCells
<1>8. PICK body : body = Ciphered(cells, s, Zero)
  OBVIOUS
<1>9. IsCells(body) /\ Len(body) = n /\ \A i \in 1 .. n : body[i] = XorOf(cells[i], Stream(s, Zero + i - 1))
  <2>1. IsCells(body) /\ Len(body) = n
    BY <1>2, <1>8, CipheredCells, BoxSizes
  <2>. QED
    BY <1>2, <1>8, <2>1 DEF Ciphered
<1>10. PICK kb : kb = k \o body
  OBVIOUS
<1>11. IsCells(kb) /\ Len(kb) = Zero + n /\ \A i \in 1 .. Zero + n : kb[i] = IF i <= Zero THEN k[i] ELSE body[i - Zero]
  <2>1. Joins(kb, k, Zero, body, n)
    BY <1>7, <1>9, <1>10, JoinedTo
  <2>. QED
    BY <2>1 DEF Joins
<1>12. PICK all : all = Ciphered(zc, s, 0)
  OBVIOUS
<1>13. IsCells(all) /\ Len(all) = Zero + n /\ \A i \in 1 .. Zero + n : all[i] = XorOf(zc[i], Stream(s, 0 + i - 1))
  <2>1. IsCells(all) /\ Len(all) = Zero + n
    BY <1>5, <1>12, CipheredCells
  <2>. QED
    BY <1>5, <1>12, <2>1 DEF Ciphered
<1>14. ASSUME NEW i \in 1 .. Zero + n
       PROVE  all[i] = kb[i]
  <2>0. 0 + i - 1 = i - 1
    BY BoxSizes
  <2>1. CASE i <= Zero
    <3>1. i \in 1 .. Zero
      BY <2>1, BoxSizes
    <3>2. all[i] = XorOf({}, Stream(s, i - 1)) /\ kb[i] = Stream(s, i - 1)
      BY <1>5, <1>7, <1>11, <1>13, <2>0, <2>1, <3>1
    <3>. QED
      BY <3>2 DEF XorOf, SymDiff
  <2>2. CASE i > Zero
    <3>1. PICK j \in 1 .. n : j = i - Zero
      BY <2>2, BoxSizes
    <3>2. Zero + j - 1 = i - 1 /\ ~(i <= Zero)
      BY <2>2, <3>1, BoxSizes
    <3>. QED
      BY <1>5, <1>9, <1>11, <1>13, <2>0, <3>1, <3>2
  <2>. QED
    BY <2>1, <2>2, BoxSizes
<1>15. all = kb
  BY <1>11, <1>13, <1>14, SameCells
<1>. QED
  BY <1>1, <1>4, <1>6, <1>8, <1>10, <1>12, <1>15

(* The form of NaCl, in place or apart.                                    *)
LEMMA SealsNacl ==
    ASSUME NEW mem0, IsMemory(mem0), NEW c \in Nat, NEW m \in Nat, NEW n \in Nat,
           Fits(c, Zero + n), Fits(m, Zero + n), c = m \/ Apart(c, m, Zero + n), NEW non, NEW k,
           NEW mem, mem = Written(mem0, m, Zeros(Zero)),
           NEW body, body = Ciphered(Cells(mem, m + Zero, n), Salsa(non, k), Zero)
    PROVE  xsalsa20poly1305(mem, c, m, Zero + n, non, k)
             = [ret |-> 0, mem |-> Written(mem, c, (Zeros(Tag) \o Mac(PolyKey(Salsa(non, k)), body)) \o body)]
<1>1. PICK s : s = Salsa(non, k)
  OBVIOUS
<1>2. PICK p \in Nat, N \in Nat : p = m + Zero /\ N = Zero + n
  BY BoxSizes
<1>3. PICK z : z = Zeros(Zero)
  OBVIOUS
<1>4. IsCells(z) /\ Len(z) = Zero
  BY <1>3, BoxSizes, ZerosCells
<1>5. IsMemory(mem)
  BY <1>3, <1>4, WrittenAt
<1>6. PICK plain : plain = Cells(mem, p, n)
  OBVIOUS
<1>7. IsCells(plain) /\ Len(plain) = n
  BY <1>6, CellsOf
<1>8. Cells(mem, m, N) = z \o plain
  <2>1. PICK all : all = Cells(mem, m, N)
    OBVIOUS
  <2>2. IsCells(all) /\ Len(all) = N /\ \A i \in 1 .. N : all[i] = mem[m + i - 1]
    BY <2>1, CellsOf
  <2>3. PICK zp : zp = z \o plain
    OBVIOUS
  <2>4. IsCells(zp) /\ Len(zp) = N /\ \A i \in 1 .. N : zp[i] = IF i <= Zero THEN z[i] ELSE plain[i - Zero]
    <3>1. Joins(zp, z, Zero, plain, n)
      BY <1>4, <1>7, <2>3, JoinedTo
    <3>. QED
      BY <1>2, <3>1 DEF Joins
  <2>5. PICK first : first = Cells(mem, m, Zero)
    OBVIOUS
  <2>6. first = z
    BY <1>3, <1>4, <2>5, BoxSizes, Within, ReadBack
  <2>7. \A i \in 1 .. Zero : z[i] = mem[m + i - 1]
    <3>1. Reads(first, mem, m, Zero)
      BY <2>5, BoxSizes, CellsRead
    <3>. QED
      BY <2>6, <3>1 DEF Reads
  <2>8. \A i \in 1 .. n : plain[i] = mem[p + i - 1]
    BY <1>6, CellsOf
  <2>9. ASSUME NEW i \in 1 .. N
        PROVE  all[i] = zp[i]
    <3>1. CASE i <= Zero
      <4>1. i \in 1 .. Zero
        BY <1>2, <3>1, BoxSizes
      <4>. QED
        BY <2>2, <2>4, <2>7, <3>1, <4>1
    <3>2. CASE i > Zero
      <4>1. PICK j \in 1 .. n : j = i - Zero
        BY <1>2, <3>2, BoxSizes
      <4>2. p + j - 1 = m + i - 1 /\ ~(i <= Zero)
        BY <1>2, <3>2, <4>1, BoxSizes
      <4>. QED
        BY <2>2, <2>4, <2>8, <4>1, <4>2
    <3>. QED
      BY <3>1, <3>2, <1>2, BoxSizes
  <2>. QED
    BY <2>1, <2>2, <2>3, <2>4, <2>9, SameCells
<1>9. PICK key : key = PolyKey(s)
  OBVIOUS
<1>10. IsCells(key) /\ Len(key) = Zero
  <2>1. key = [i \in 1 .. Zero |-> key[i]]
    BY <1>9 DEF PolyKey
  <2>. QED
    BY <2>1, BoxSizes, MadeCells
<1>11. IsCells(body) /\ Len(body) = n
  <2>1. body = Ciphered(plain, s, Zero)
    BY <1>1, <1>2, <1>6
  <2>. QED
    BY <1>7, <2>1, BoxSizes, CipheredCells
<1>12. xor_ic(mem, c, m, N, s, 0) = Written(mem, c, key \o body)
  <2>1. Fits(c, N) /\ Fits(m, N) /\ (c <= m \/ m + N <= c) /\ 0 * Block = 0 /\ 0 \in Nat
    BY <1>2, BoxSizes DEF Fits, Apart
  <2>2. xor_ic(mem, c, m, N, s, 0) = Written(mem, c, Ciphered(Cells(mem, m, N), s, 0 * Block))
    BY <1>5, <2>1, XorWrites
  <2>3. Ciphered(z \o plain, s, 0) = key \o Ciphered(plain, s, Zero)
    BY <1>3, <1>7, <1>9, CipheredZeros
  <2>. QED
    BY <1>1, <1>2, <1>6, <1>8, <2>1, <2>2, <2>3
<1>13. PICK q \in Nat, r \in Nat : /\ q = c + Zero /\ r = c + Tag
                                  /\ Fits(c, Zero) /\ Fits(q, n)
  BY <1>10, BoxSizes, Within
<1>14. PICK rest : rest = Written(mem, q, body)
  OBVIOUS
<1>15. IsMemory(rest)
  BY <1>5, <1>11, <1>14, WrittenAt
<1>16. PICK after : after = Written(mem, c, key \o body)
  OBVIOUS
<1>17. after = Written(rest, c, key)
  BY <1>5, <1>10, <1>11, <1>13, <1>14, <1>16, WrittenBefore
<1>18. Cells(after, c, Zero) = key
  BY <1>10, <1>13, <1>15, <1>17, ReadBack, BoxSizes
<1>19. Cells(after, q, n) = body
  <2>1. Written(Written(mem, c, key), q, body) = after
    BY <1>5, <1>10, <1>11, <1>13, <1>16, WrittenAfter
  <2>2. IsMemory(Written(mem, c, key))
    BY <1>5, <1>10, WrittenAt
  <2>3. Cells(Written(Written(mem, c, key), q, body), q, n) = body
    BY <1>11, <1>13, <2>2, ReadBack
  <2>. QED
    BY <2>1, <2>3
<1>20. PICK tag, blank : tag = Mac(key, body) /\ blank = Zeros(Tag)
  OBVIOUS
<1>21. IsCells(tag) /\ Len(tag) = Tag /\ IsCells(blank) /\ Len(blank) = Tag
  BY <1>20, MacCells, ZerosCells, BoxSizes
<1>22. xsalsa20poly1305(mem, c, m, N, non, k) = [ret |-> 0, mem |-> Written(Written(after, r, tag), c, blank)]
  <2>1. ~(N < Zero) /\ N - Zero = n
    BY <1>2, BoxSizes
  <2>2. [i \in 1 .. Tag |-> {}] = blank
    BY <1>20 DEF Zeros
  <2>. QED
    BY <1>1, <1>12, <1>13, <1>16, <1>18, <1>19, <1>20, <2>1, <2>2 DEF xsalsa20poly1305
<1>23. PICK bt : bt = blank \o tag
  OBVIOUS
<1>24. IsCells(bt) /\ Len(bt) = Zero
  BY <1>21, <1>23, Joined, BoxSizes
<1>25. Written(Written(after, r, tag), c, blank) = Written(after, c, bt)
  <2>1. IsMemory(after)
    BY <1>10, <1>13, <1>15, <1>17, <1>21, WrittenAt
  <2>. QED
    BY <1>13, <1>21, <1>23, <2>1, WrittenBefore
<1>26. Written(after, c, bt) = Written(rest, c, bt)
  BY <1>10, <1>15, <1>17, <1>24, WrittenOver
<1>27. Written(rest, c, bt) = Written(mem, c, bt \o body)
  BY <1>5, <1>11, <1>13, <1>14, <1>24, WrittenBefore
<1>. QED
  BY <1>1, <1>2, <1>9, <1>20, <1>22, <1>23, <1>25, <1>26, <1>27

(* The body, the key stream and the form of a box, scheme by scheme.       *)
LEMMA Bodies ==
    ASSUME NEW plain, NEW scheme
    PROVE  Body(scheme, plain) = Ciphered(plain, StreamOf(scheme), IF scheme \in Aeads THEN Block ELSE Zero)
BY DEF Body, Ciphered

(* The stream each scheme enciphers with.                                  *)
LEMMA StreamsOf ==
    /\ StreamOf("secretbox") = Salsa("nonce", "key") /\ StreamOf("nacl") = Salsa("nonce", "key")
    /\ StreamOf("xchacha") = ChaCha("nonce", "key") /\ StreamOf("xchacha20poly1305") = ChaCha("nonce", "key")
    /\ StreamOf("box") = Salsa("nonce", <<"hsalsa20", "0", {"alice", "bob"}>>)
    /\ StreamOf("chacha20poly1305") = <<"chacha20", "key", "nonce">>
    /\ StreamOf("ietf") = <<"ietf", "key", "nonce">>
BY DEF StreamOf

(* How an AEAD lays out what it authenticates; what a box of each family   *)
(* is.                                                                     *)
LayoutOf(scheme) == IF scheme = "chacha20poly1305" THEN "original" ELSE "ietf"

EasyForm(box, s, body) == box = Mac(PolyKey(s), body) \o body
NaclForm(box, s, body) == box = (Zeros(Tag) \o Mac(PolyKey(s), body)) \o body
AeadForm(box, s, body, ad, layout) == box = body \o Mac(PolyKey(s), Authenticated(layout, ad, body))

(* What the specification of each family of schemes asks a box to be.      *)
LEMMA Forms ==
    ASSUME NEW scheme \in Schemes, NEW plain, NEW ad, NEW s, s = StreamOf(scheme), NEW body, body = Body(scheme, plain)
    PROVE  /\ scheme \in Easy => EasyForm(Authentic(scheme, plain, ad), s, body)
           /\ scheme \in Nacl => NaclForm(Authentic(scheme, plain, ad), s, body)
           /\ scheme \in Aeads => AeadForm(Authentic(scheme, plain, ad), s, body, ad, LayoutOf(scheme))
<1> DEFINE MacOf(content) == Mac(PolyKey(s), content)
<1>1. Authentic(scheme, plain, ad) =
         CASE scheme \in Easy         -> MacOf(body) \o body
           [] scheme \in Nacl         -> Zeros(Tag) \o MacOf(body) \o body
           [] scheme = "chacha20poly1305" -> body \o MacOf(Original(ad, body))
           [] OTHER                   -> body \o MacOf(Ietf(ad, body))
  BY DEF Authentic, Zeros
<1> HIDE DEF MacOf
<1>2. CASE scheme \in Easy
  <2>1. scheme \notin Nacl /\ scheme \notin Aeads /\ scheme # "chacha20poly1305"
    BY <1>2 DEF Easy, Nacl, Aeads
  <2>2. Authentic(scheme, plain, ad) = MacOf(body) \o body
    BY <1>1, <1>2, <2>1
  <2>. QED
    BY <2>1, <2>2 DEF MacOf, EasyForm
<1>3. CASE scheme \in Nacl
  <2>1. scheme \notin Easy /\ scheme \notin Aeads /\ scheme # "chacha20poly1305"
    BY <1>3 DEF Easy, Nacl, Aeads
  <2>2. Authentic(scheme, plain, ad) = (Zeros(Tag) \o MacOf(body)) \o body
    BY <1>1, <1>3, <2>1
  <2>. QED
    BY <2>1, <2>2 DEF MacOf, NaclForm
<1>4. CASE scheme \in Aeads
  <2>1. scheme \notin Easy /\ scheme \notin Nacl
    BY <1>4 DEF Easy, Nacl, Aeads
  <2>2. CASE scheme = "chacha20poly1305"
    <3>1. Authentic(scheme, plain, ad) = body \o MacOf(Original(ad, body))
      BY <1>1, <2>1, <2>2
    <3>. QED
      BY <2>1, <2>2, <3>1 DEF MacOf, Authenticated, LayoutOf, AeadForm
  <2>3. CASE scheme # "chacha20poly1305"
    <3>1. Authentic(scheme, plain, ad) = body \o MacOf(Ietf(ad, body))
      BY <1>1, <2>1, <2>3
    <3>. QED
      BY <2>1, <2>3, <3>1 DEF MacOf, Authenticated, LayoutOf, AeadForm
  <2>. QED
    BY <2>2, <2>3
<1>. QED
  BY <1>2, <1>3, <1>4 DEF Schemes

(* SealedWhole, of one call that seals and what it was answered.           *)
SealRight(scheme, c, m, n, ad, a) ==
    LET before == ToSeal(scheme, m)
        skip   == IF scheme \in Nacl THEN Zero ELSE 0
        plain  == Cells(before, m + skip, n)
    IN a = [ret |-> 0, mem |-> Written(before, c, Authentic(scheme, plain, Ad(ad)))]

(* secretbox and box seal rightly, wherever message and box lie,           *)
(* overlapping or not.                                                     *)
LEMMA SealingEasy ==
    ASSUME NEW scheme \in Easy, NEW c \in Nat, NEW m \in Nat, NEW n \in Nat, NEW ad, Fits(c, Tag + n), Fits(m, n),
           NEW s, s = StreamOf(scheme)
    PROVE  SealRight(scheme, c, m, n, ad, [ret |-> 0, mem |-> Sealed(ToSeal(scheme, m), c + Tag, c, m, n, s)])
<1>1. scheme \notin Nacl /\ scheme \notin Aeads /\ scheme \in Schemes
  BY DEF Easy, Nacl, Aeads, Schemes
<1>2. ToSeal(scheme, m) = Start /\ m + 0 = m
  BY <1>1 DEF ToSeal
<1>3. PICK plain, body : plain = Cells(Start, m, n) /\ body = Ciphered(plain, s, Zero)
  OBVIOUS
<1>4. Authentic(scheme, plain, Ad(ad)) = Mac(PolyKey(s), body) \o body
  <2>1. body = Body(scheme, plain)
    BY <1>1, <1>3, Bodies
  <2>2. EasyForm(Authentic(scheme, plain, Ad(ad)), s, body)
    BY <1>1, <2>1, Forms
  <2>. QED
    BY <2>2 DEF EasyForm
<1>5. Sealed(Start, c + Tag, c, m, n, s) = Written(Start, c, Mac(PolyKey(s), body) \o body)
  BY <1>3, StartMemory, SealsEasy
<1>. QED
  BY <1>1, <1>2, <1>3, <1>4, <1>5 DEF SealRight

(* The AEADs seal rightly in place and apart.                              *)
LEMMA SealingAead ==
    ASSUME NEW scheme \in Aeads, NEW c \in Nat, NEW m \in Nat, NEW n \in Nat, NEW ad, Fits(c, Tag + n), Fits(m, n),
           c = m \/ Apart(c, m, n + Tag), NEW s, s = StreamOf(scheme),
           NEW layout, layout = LayoutOf(scheme)
    PROVE  SealRight(scheme, c, m, n, ad,
                     [ret |-> 0, mem |-> aead_encrypt(ToSeal(scheme, m), c, m, n, Ad(ad), s, layout)])
<1>1. scheme \notin Nacl /\ scheme \in Schemes
  BY DEF Nacl, Aeads, Schemes
<1>2. ToSeal(scheme, m) = Start /\ m + 0 = m
  BY <1>1 DEF ToSeal
<1>3. PICK plain, body : plain = Cells(Start, m, n) /\ body = Ciphered(plain, s, Block)
  OBVIOUS
<1>4. Authentic(scheme, plain, Ad(ad)) = body \o Mac(PolyKey(s), Authenticated(layout, Ad(ad), body))
  <2>1. body = Body(scheme, plain)
    BY <1>3, Bodies
  <2>2. AeadForm(Authentic(scheme, plain, Ad(ad)), s, body, Ad(ad), layout)
    BY <1>1, <2>1, Forms
  <2>. QED
    BY <2>2 DEF AeadForm
<1>5. aead_encrypt(Start, c, m, n, Ad(ad), s, layout)
        = Written(Start, c, body \o Mac(PolyKey(s), Authenticated(layout, Ad(ad), body)))
  BY <1>3, StartMemory, SealsAead
<1>. QED
  BY <1>1, <1>2, <1>3, <1>4, <1>5 DEF SealRight

(* The original interface, with its zeros in front, seals rightly in place *)
(* and apart.                                                              *)
LEMMA SealingNacl ==
    ASSUME NEW c \in Nat, NEW m \in Nat, NEW n \in Nat, NEW ad,
           Fits(c, Zero + n), Fits(m, Zero + n), c = m \/ Apart(c, m, Zero + n)
    PROVE  SealRight("nacl", c, m, n, ad, xsalsa20poly1305(ToSeal("nacl", m), c, m, Zero + n, "nonce", "key"))
<1>1. "nacl" \in Nacl /\ "nacl" \notin Aeads /\ "nacl" \in Schemes
  BY DEF Easy, Nacl, Aeads, Schemes
<1>2. PICK s, mem : s = Salsa("nonce", "key") /\ s = StreamOf("nacl") /\ mem = ToSeal("nacl", m)
  BY StreamsOf
<1>3. mem = Written(Start, m, Zeros(Zero))
  BY <1>1, <1>2 DEF ToSeal
<1>4. PICK plain, body : plain = Cells(mem, m + Zero, n) /\ body = Ciphered(plain, s, Zero)
  OBVIOUS
<1>5. Authentic("nacl", plain, Ad(ad)) = (Zeros(Tag) \o Mac(PolyKey(s), body)) \o body
  <2>. body = Body("nacl", plain)
    BY <1>1, <1>2, <1>4, Bodies
  <2>1. NaclForm(Authentic("nacl", plain, Ad(ad)), s, body)
    BY <1>1, <1>2, Forms
  <2>. QED
    BY <2>1 DEF NaclForm
<1>6. xsalsa20poly1305(mem, c, m, Zero + n, "nonce", "key")
        = [ret |-> 0, mem |-> Written(mem, c, (Zeros(Tag) \o Mac(PolyKey(s), body)) \o body)]
  BY <1>2, <1>3, <1>4, StartMemory, SealsNacl
<1>. QED
  BY <1>1, <1>2, <1>4, <1>5, <1>6 DEF SealRight

(* What a call that seals was given.                                       *)
SealGiven(scheme, c, m, n, ad) ==
    /\ c \in Nat /\ m \in Nat /\ n \in Nat
    /\ \/ scheme \in Easy /\ Fits(c, Tag + n) /\ Fits(m, n)
       \/ scheme \in Aeads /\ Fits(c, Tag + n) /\ Fits(m, n) /\ (c = m \/ Apart(c, m, n + Tag))
       \/ scheme = "nacl" /\ Fits(c, Zero + n) /\ Fits(m, Zero + n) /\ (c = m \/ Apart(c, m, Zero + n))

(* The answer of Seals.                                                    *)
SealAnswer(scheme, c, m, n, ad) ==
    LET mem       == ToSeal(scheme, m)
        ok(after) == [ret |-> 0, mem |-> after]
    IN CASE scheme = "secretbox" -> ok(secretbox_easy(mem, c, m, n, "nonce", "key"))
         [] scheme = "xchacha"   -> ok(secretbox_xchacha_easy(mem, c, m, n, "nonce", "key"))
         [] scheme = "box"       -> box_easy(mem, c, m, n, "nonce", Pk("bob"), "alice")
         [] scheme = "nacl"      -> xsalsa20poly1305(mem, c, m, Zero + n, "nonce", "key")
         [] scheme = "chacha20poly1305"  -> ok(chacha20poly1305_encrypt(mem, c, m, n, Ad(ad), "nonce", "key"))
         [] scheme = "ietf"              -> ok(chacha20poly1305_ietf_encrypt(mem, c, m, n, Ad(ad), "nonce", "key"))
         [] scheme = "xchacha20poly1305" -> ok(xchacha20poly1305_encrypt(mem, c, m, n, Ad(ad), "nonce", "key"))

(* Every call that seals is answered rightly.                              *)
LEMMA SealAnswers ==
    ASSUME NEW scheme, NEW c, NEW m, NEW n, NEW ad, SealGiven(scheme, c, m, n, ad)
    PROVE  SealRight(scheme, c, m, n, ad, SealAnswer(scheme, c, m, n, ad))
<1>0. c \in Nat /\ m \in Nat /\ n \in Nat
  BY DEF SealGiven
<1>1. CASE scheme \in Easy /\ Fits(c, Tag + n) /\ Fits(m, n)
  <2>0. SealRight(scheme, c, m, n, ad, [ret |-> 0, mem |-> Sealed(ToSeal(scheme, m), c + Tag, c, m, n, StreamOf(scheme))])
    BY <1>0, <1>1, SealingEasy
  <2>1. CASE scheme = "secretbox"
    <3>. SealAnswer(scheme, c, m, n, ad) = [ret |-> 0, mem |-> Sealed(ToSeal(scheme, m), c + Tag, c, m, n, StreamOf(scheme))]
      BY <2>1, StreamsOf DEF SealAnswer, secretbox_easy
    <3>. QED
      BY <2>0
  <2>2. CASE scheme = "xchacha"
    <3>. SealAnswer(scheme, c, m, n, ad) = [ret |-> 0, mem |-> Sealed(ToSeal(scheme, m), c + Tag, c, m, n, StreamOf(scheme))]
      BY <2>2, StreamsOf DEF SealAnswer, secretbox_xchacha_easy
    <3>. QED
      BY <2>0
  <2>3. CASE scheme = "box"
    <3>1. box_easy(ToSeal(scheme, m), c, m, n, "nonce", Pk("bob"), "alice")
            = [ret |-> 0, mem |-> Sealed(ToSeal(scheme, m), c + Tag, c, m, n, StreamOf(scheme))]
      BY <2>3, StreamsOf, OneSecret DEF box_easy, beforenm, secretbox_easy
    <3>2. SealAnswer(scheme, c, m, n, ad) = box_easy(ToSeal(scheme, m), c, m, n, "nonce", Pk("bob"), "alice")
      BY <2>3 DEF SealAnswer
    <3>. QED
      BY <2>0, <3>1, <3>2
  <2>. QED
    BY <1>1, <2>1, <2>2, <2>3 DEF Easy
<1>2. CASE scheme \in Aeads /\ Fits(c, Tag + n) /\ Fits(m, n) /\ (c = m \/ Apart(c, m, n + Tag))
  <2> DEFINE L == LayoutOf(scheme)
             R == [ret |-> 0, mem |-> aead_encrypt(ToSeal(scheme, m), c, m, n, Ad(ad), StreamOf(scheme), L)]
  <2>0. SealRight(scheme, c, m, n, ad, R)
    BY <1>0, <1>2, SealingAead
  <2>1. CASE scheme = "chacha20poly1305"
    <3>. SealAnswer(scheme, c, m, n, ad) = R
      BY <2>1, StreamsOf DEF SealAnswer, chacha20poly1305_encrypt, LayoutOf
    <3>. QED
      BY <2>0
  <2>2. CASE scheme = "ietf"
    <3>. SealAnswer(scheme, c, m, n, ad) = R
      BY <2>2, StreamsOf DEF SealAnswer, chacha20poly1305_ietf_encrypt, LayoutOf
    <3>. QED
      BY <2>0
  <2>3. CASE scheme = "xchacha20poly1305"
    <3>. SealAnswer(scheme, c, m, n, ad) = R
      BY <2>3, StreamsOf DEF SealAnswer, xchacha20poly1305_encrypt, LayoutOf
    <3>. QED
      BY <2>0
  <2>. QED
    BY <1>2, <2>1, <2>2, <2>3 DEF Aeads
<1>3. CASE scheme = "nacl" /\ Fits(c, Zero + n) /\ Fits(m, Zero + n) /\ (c = m \/ Apart(c, m, Zero + n))
  <2>1. SealRight("nacl", c, m, n, ad, xsalsa20poly1305(ToSeal("nacl", m), c, m, Zero + n, "nonce", "key"))
    BY <1>0, <1>3, SealingNacl
  <2>2. SealAnswer(scheme, c, m, n, ad) = xsalsa20poly1305(ToSeal("nacl", m), c, m, Zero + n, "nonce", "key")
    BY <1>3 DEF SealAnswer
  <2>. QED
    BY <1>3, <2>1, <2>2
<1>. QED
  BY <1>1, <1>2, <1>3 DEF SealGiven

-----------------------------------------------------------------------------
(* Opening                                                                 *)

(* What is xored twice with the same is what it was; and what is xored     *)
(* with something is not what it was.                                      *)
LEMMA XorTwice ==
    ASSUME NEW a, NEW b
    PROVE  XorOf(XorOf(a, b), b) = a
BY DEF XorOf, SymDiff

(* Changing a cell makes another of it.                                    *)
LEMMA XorChanges ==
    ASSUME NEW a, NEW x
    PROVE  XorOf(a, {x}) # a
<1>1. x \in XorOf(a, {x}) <=> x \notin a
  BY DEF XorOf, SymDiff
<1>. QED
  BY <1>1

(* Enciphering twice with one stream gives back the message.               *)
LEMMA CipheredTwice ==
    ASSUME NEW cells, IsCells(cells), NEW s, NEW at
    PROVE  Ciphered(Ciphered(cells, s, at), s, at) = cells
<1>1. PICK body : body = Ciphered(cells, s, at)
  OBVIOUS
<1>2. IsCells(body) /\ Len(body) = Len(cells)
  BY <1>1, CipheredCells
<1>3. PICK twice : twice = Ciphered(body, s, at)
  OBVIOUS
<1>4. IsCells(twice) /\ Len(twice) = Len(cells)
  BY <1>2, <1>3, CipheredCells
<1>5. ASSUME NEW i \in 1 .. Len(cells)
      PROVE  twice[i] = cells[i]
  <2>1. PICK k : k = Stream(s, at + i - 1)
    OBVIOUS
  <2>2. body[i] = XorOf(cells[i], k)
    BY <1>1, <2>1 DEF Ciphered
  <2>3. twice[i] = XorOf(body[i], k)
    BY <1>2, <1>3, <2>1 DEF Ciphered
  <2>. QED
    BY <2>2, <2>3, XorTwice
<1>. QED
  BY <1>1, <1>3, <1>4, <1>5, SameCells

(* Two pieces are enciphered one after the other.                          *)
IsJoin(all, a, b) == all = a \o b

(* Enciphering a join enciphers the parts, each at its place in the        *)
(* stream.                                                                 *)
LEMMA CipheredJoin ==
    ASSUME NEW a, NEW b, IsCells(a), IsCells(b), NEW n \in Nat, Len(a) = n, NEW s, NEW at \in Nat, NEW next, next = at + n,
           NEW ab, IsJoin(ab, a, b), NEW ca, ca = Ciphered(a, s, at), NEW cb, cb = Ciphered(b, s, next)
    PROVE  IsJoin(Ciphered(ab, s, at), ca, cb)
<1>1. PICK k \in Nat : k = Len(b)
  BY DEF IsCells
<1>2. ca = Ciphered(a, s, at) /\ cb = Ciphered(b, s, next)
  OBVIOUS
<1>3. Joins(ab, a, n, b, k)
  BY <1>1, <1>2, JoinedTo DEF IsJoin
<1>4. IsCells(ca) /\ Len(ca) = n /\ IsCells(cb) /\ Len(cb) = k
  BY <1>1, <1>2, CipheredCells
<1>5. PICK c1, c2 : c1 = Ciphered(ab, s, at) /\ c2 = ca \o cb
  OBVIOUS
<1>6. Joins(c2, ca, n, cb, k)
  BY <1>4, <1>5, JoinedTo
<1>7. IsCells(c1) /\ Len(c1) = n + k
  BY <1>3, <1>5, CipheredCells DEF Joins
<1>8. ASSUME NEW i \in 1 .. n + k
      PROVE  c1[i] = c2[i]
  <2>1. c1[i] = XorOf(ab[i], Stream(s, at + i - 1))
    BY <1>3, <1>5 DEF Ciphered, Joins
  <2>2. CASE i <= n
    <3>1. i \in 1 .. n
      BY <2>2
    <3>2. ca[i] = XorOf(a[i], Stream(s, at + i - 1))
      BY <1>2, <3>1 DEF Ciphered
    <3>3. ab[i] = a[i] /\ c2[i] = ca[i]
      BY <1>3, <1>6, <2>2 DEF Joins
    <3>. QED
      BY <2>1, <3>2, <3>3
  <2>3. CASE i > n
    <3>1. PICK j \in 1 .. k : j = i - n
      BY <2>3
    <3>2. next + j - 1 = at + i - 1 /\ ~(i <= n)
      BY <2>3, <3>1
    <3>3. cb[j] = XorOf(b[j], Stream(s, next + j - 1))
      BY <1>1, <1>2, <3>1 DEF Ciphered
    <3>4. ab[i] = b[j] /\ c2[i] = cb[j]
      BY <1>3, <1>6, <3>1, <3>2 DEF Joins
    <3>. QED
      BY <2>1, <3>2, <3>3, <3>4
  <2>. QED
    BY <2>2, <2>3
<1>. QED
  BY <1>2, <1>5, <1>6, <1>7, <1>8, SameCells DEF Joins, IsJoin

(* A tag tells what it is of, and is nothing else.                         *)
LEMMA MacTells ==
    ASSUME NEW key, NEW content, NEW other, Mac(key, content) = Mac(key, other)
    PROVE  content = other
<1>1. 1 \in 1 .. Tag
  BY BoxSizes
<1>2. \A c : Mac(key, c)[1] = {<<"tag", 1, key, c>>}
  BY <1>1 DEF Mac
<1>3. {<<"tag", 1, key, content>>} = {<<"tag", 1, key, other>>}
  BY <1>2
<1>4. <<"tag", 1, key, content>> = <<"tag", 1, key, other>>
  BY <1>3
<1>. QED
  BY <1>4

(* A cell of a tag tells the key, the place and all that was               *)
(* authenticated.                                                          *)
LEMMA MacCell ==
    ASSUME NEW key, NEW content, NEW i \in 1 .. Tag
    PROVE  Mac(key, content)[i] = {<<"tag", i, key, content>>}
BY DEF Mac

(* A cell that holds more than a byte of a tag, or another byte.           *)
LEMMA NotTag ==
    ASSUME NEW a, NEW x, x \in a, \A i, k, c : x # <<"tag", i, k, c>>, NEW t, NEW i \in 1 .. Tag, t[i] = a, NEW key, NEW content
    PROVE  t # Mac(key, content)
BY MacCell

(* A box in memory is in its parts there.                                  *)
LEMMA Parts ==
    ASSUME NEW mem0, IsMemory(mem0), NEW c \in Nat, NEW a, NEW b, IsCells(a), IsCells(b),
           NEW n \in Nat, NEW k \in Nat, Len(a) = n, Len(b) = k, Fits(c, n + k), NEW p, p = c + n,
           NEW mem, mem = Written(mem0, c, a \o b)
    PROVE  IsMemory(mem) /\ Cells(mem, c, n) = a /\ Cells(mem, p, k) = b
<1>1. p \in Nat /\ Fits(c, n) /\ Fits(p, k)
  BY Within
<1>2. Cells(mem, p, k) = b /\ IsMemory(mem)
  <2>1. PICK v : v = Written(mem0, c, a)
    OBVIOUS
  <2>2. IsMemory(v)
    BY <2>1, WrittenAt
  <2>3. mem = Written(v, p, b)
    BY <1>1, <2>1, WrittenAfter
  <2>. QED
    BY <1>1, <2>2, <2>3, ReadBack, WrittenAt
<1>3. Cells(mem, c, n) = a
  <2>1. PICK v : v = Written(mem0, p, b)
    OBVIOUS
  <2>2. IsMemory(v)
    BY <1>1, <2>1, WrittenAt
  <2>3. mem = Written(v, c, a)
    BY <1>1, <2>1, WrittenBefore
  <2>. QED
    BY <1>1, <2>2, <2>3, ReadBack
<1>. QED
  BY <1>2, <1>3

(* What a call that opens writes, or does not for the null pointer.        *)
Into(mem, m, cells) == IF m = -1 THEN mem ELSE Written(mem, m, cells)

(* crypto_secretbox_open_easy and its likes, after the length is checked.  *)
OpenEasy(mem, m, c, n, s) == IF n < Tag THEN Refused(mem) ELSE Opened(mem, m, c + Tag, Cells(mem, c, Tag), n - Tag, s)

(* A buffer of the caller's for n cells, or the null pointer; and an answer *)
(* that gives the cells when the tag is right, and leaves the memory as it  *)
(* is, or as w, when it is not.                                             *)
Target(m, n) == m = -1 \/ (m \in Nat /\ Fits(m, n))
(* The answer a caller gets who was given tag for a box that has t: the    *)
(* cells, or a refusal that leaves w.                                      *)
Given(a, t, tag, mem, m, cells, w) ==
    /\ t = tag => a = [ret |-> 0, mem |-> Into(mem, m, cells)]
    /\ t # tag => a = Refused(w)

(* secretbox opens a box exactly when its tag is right, and otherwise      *)
(* leaves memory alone.                                                    *)
LEMMA OpensEasy ==
    ASSUME NEW mem0, IsMemory(mem0), NEW c \in Nat, NEW t, NEW b, IsCells(t), IsCells(b), Len(t) = Tag,
           NEW n \in Nat, Len(b) = n, NEW N, N = Tag + n, Fits(c, N), NEW m, Target(m, n),
           NEW f, IsJoin(f, t, b), NEW mem, mem = Written(mem0, c, f), NEW s,
           NEW tag, tag = Mac(PolyKey(s), b), NEW plain, plain = Ciphered(b, s, Zero)
    PROVE  Given(OpenEasy(mem, m, c, N, s), t, tag, mem, m, plain, mem)
<1>. mem = Written(mem0, c, t \o b) /\ Fits(c, Tag + n) /\ (m = -1 \/ (m \in Nat /\ Fits(m, n)))
  BY DEF IsJoin, Target
<1>1. PICK p \in Nat : p = c + Tag /\ Fits(p, n)
  BY BoxSizes, Within
<1>2. IsMemory(mem) /\ Cells(mem, c, Tag) = t /\ Cells(mem, p, n) = b
  BY <1>1, BoxSizes, Parts
<1>3. ~(N < Tag) /\ N - Tag = n
  BY BoxSizes
<1>4. OpenEasy(mem, m, c, N, s) = Opened(mem, m, p, t, n, s)
  BY <1>1, <1>2, <1>3 DEF OpenEasy
<1>5. ASSUME t = Mac(PolyKey(s), b)
      PROVE  OpenEasy(mem, m, c, N, s) = [ret |-> 0, mem |-> Into(mem, m, Ciphered(b, s, Zero))]
  <2>1. CASE m = -1
    BY <1>2, <1>4, <1>5, <2>1 DEF Opened, Into
  <2>2. CASE m \in Nat /\ Fits(m, n)
    <3>1. m # -1
      BY <2>2
    <3>2. Crypted(mem, m, p, n, s) = Written(mem, m, Ciphered(b, s, Zero))
      BY <1>1, <1>2, <2>2, CryptedEffect
    <3>. QED
      BY <1>2, <1>4, <1>5, <3>1, <3>2 DEF Opened, Into
  <2>. QED
    BY <2>1, <2>2
<1>6. t # Mac(PolyKey(s), b) => OpenEasy(mem, m, c, N, s) = Refused(mem)
  BY <1>2, <1>4 DEF Opened
<1>. QED
  BY <1>5, <1>6 DEF Given

(* The cells of a forged box: of n cells of a the j-th is changed, or the  *)
(* first k are left.                                                       *)
Change == {<<"changed", 1>>}
(* A run of cells changed in one place, and a beginning of one.            *)
ChangedAt(f, a, n, j) ==
    IsCells(f) /\ Len(f) = n /\ f[j] = XorOf(a[j], Change) /\ \A i \in 1 .. n : i # j => f[i] = a[i]
PrefixOf(f, a, k) == IsCells(f) /\ Len(f) = k /\ \A i \in 1 .. k : f[i] = a[i]

(* A change of one cell.                                                   *)
LEMMA Changed ==
    ASSUME NEW a, IsCells(a), NEW n, Len(a) = n, NEW j \in 1 .. n, NEW f, f = [a EXCEPT ![j] = XorOf(a[j], Change)]
    PROVE  ChangedAt(f, a, n, j)
<1>1. n \in Nat /\ a = [i \in 1 .. n |-> a[i]]
  BY DEF IsCells
<1>2. DOMAIN f = 1 .. n /\ f[j] = XorOf(a[j], Change) /\ \A i \in 1 .. n : i # j => f[i] = a[i]
  BY <1>1
<1>3. f = [i \in 1 .. n |-> f[i]]
  BY <1>1, <1>2
<1>4. IsCells(f) /\ Len(f) = n
  BY <1>1, <1>3, MadeCells
<1>. QED
  BY <1>2, <1>4 DEF ChangedAt

(* A beginning of a run of cells.                                          *)
LEMMA ReadPrefix ==
    ASSUME NEW a, IsCells(a), NEW n, Len(a) = n, NEW k \in 0 .. n, NEW f, f = SubSeq(a, 1, k)
    PROVE  PrefixOf(f, a, k)
<1>1. n \in Nat /\ k \in Nat
  BY DEF IsCells
<1>2. f = [i \in 1 .. k |-> a[i]]
  BY <1>1
<1>3. f = [i \in 1 .. k |-> f[i]] /\ \A i \in 1 .. k : f[i] = a[i]
  BY <1>2
<1>4. IsCells(f) /\ Len(f) = k
  BY <1>1, <1>3, MadeCells
<1>. QED
  BY <1>3, <1>4 DEF PrefixOf

(* f is n cells, a, and then k, b.                                         *)
Splits(f, a, n, b, k) ==
    /\ IsCells(a) /\ Len(a) = n /\ IsCells(b) /\ Len(b) = k /\ f = a \o b
    /\ \A i \in 1 .. n : a[i] = f[i]
    /\ \A i \in 1 .. k : b[i] = f[n + i]

(* A run of cells is the join of its two parts.                            *)
LEMMA SplitAt ==
    ASSUME NEW f, IsCells(f), NEW n \in Nat, NEW k \in Nat, Len(f) = n + k
    PROVE  \E a, b : Splits(f, a, n, b, k)
<1>1. PICK a, b : a = [i \in 1 .. n |-> f[i]] /\ b = [i \in 1 .. k |-> f[n + i]]
  OBVIOUS
<1>2. IsCells(a) /\ Len(a) = n /\ \A i \in 1 .. n : a[i] = f[i]
  <2>1. a = [i \in 1 .. n |-> a[i]] /\ \A i \in 1 .. n : a[i] = f[i]
    BY <1>1
  <2>. QED
    BY <2>1, MadeCells
<1>3. IsCells(b) /\ Len(b) = k /\ \A i \in 1 .. k : b[i] = f[n + i]
  <2>1. b = [i \in 1 .. k |-> b[i]] /\ \A i \in 1 .. k : b[i] = f[n + i]
    BY <1>1
  <2>. QED
    BY <2>1, MadeCells
<1>4. PICK ab : ab = a \o b
  OBVIOUS
<1>5. Joins(ab, a, n, b, k)
  BY <1>2, <1>3, <1>4, JoinedTo
<1>6. ASSUME NEW i \in 1 .. n + k
      PROVE  f[i] = ab[i]
  <2>1. CASE i <= n
    BY <1>2, <1>5, <2>1 DEF Joins
  <2>2. CASE i > n
    <3>1. PICK j \in 1 .. k : j = i - n
      BY <2>2
    <3>. QED
      BY <1>3, <1>5, <2>2, <3>1 DEF Joins
  <2>. QED
    BY <2>1, <2>2
<1>7. f = ab
  BY <1>5, <1>6, SameCells DEF Joins
<1>8. Splits(f, a, n, b, k)
  BY <1>2, <1>3, <1>4, <1>7 DEF Splits
<1>. QED
  BY <1>8

(* What is left of a box after each of the forgeries.                      *)
LEMMA ForgedCells ==
    ASSUME NEW box, IsCells(box), NEW L \in Nat, Len(box) = L, Tag <= L,
           NEW how \in {"first", "last", "short", "cut"}, NEW f, f = Forged(box, how)
    PROVE  /\ IsCells(f) /\ Len(f) \in Nat /\ Len(f) <= L
           /\ how = "first" => ChangedAt(f, box, L, 1)
           /\ how = "last" => ChangedAt(f, box, L, L)
           /\ how = "short" => Len(f) = Tag - 1
           /\ how = "cut" => PrefixOf(f, box, L - 1)
<1>1. 1 \in 1 .. L /\ L \in 1 .. L /\ Tag - 1 \in 0 .. L /\ L - 1 \in 0 .. L
  BY BoxSizes
<1>2. CASE how = "first"
  <2>1. f = [box EXCEPT ![1] = XorOf(box[1], Change)]
    BY <1>2 DEF Forged, Change
  <2>2. ChangedAt(f, box, L, 1)
    BY <1>1, <2>1, Changed
  <2>. QED
    BY <1>2, <2>2 DEF ChangedAt
<1>3. CASE how = "last"
  <2>1. f = [box EXCEPT ![L] = XorOf(box[L], Change)]
    BY <1>3 DEF Forged, Change
  <2>2. ChangedAt(f, box, L, L)
    BY <1>1, <2>1, Changed
  <2>. QED
    BY <1>3, <2>2 DEF ChangedAt
<1>4. CASE how = "short"
  <2>1. f = SubSeq(box, 1, Tag - 1)
    BY <1>4 DEF Forged
  <2>2. PICK k \in 0 .. L : k = Tag - 1
    BY <1>1
  <2>3. PrefixOf(f, box, k)
    BY <2>1, <2>2, ReadPrefix
  <2>. QED
    BY <1>4, <2>2, <2>3 DEF PrefixOf
<1>5. CASE how = "cut"
  <2>1. f = SubSeq(box, 1, L - 1)
    BY <1>5 DEF Forged
  <2>2. PICK k \in 0 .. L : k = L - 1
    BY <1>1
  <2>3. PrefixOf(f, box, k)
    BY <2>1, <2>2, ReadPrefix
  <2>. QED
    BY <1>5, <2>2, <2>3 DEF PrefixOf
<1>. QED
  BY <1>2, <1>3, <1>4, <1>5

(* A tag with a byte changed is no tag.                                    *)
LEMMA ChangedTag ==
    ASSUME NEW key, NEW content, NEW t, NEW i \in 1 .. Tag, t[i] = XorOf(Mac(key, content)[i], Change), NEW other
    PROVE  t # Mac(key, other)
<1>1. <<"changed", 1>> \notin Mac(key, content)[i]
  BY MacCell
<1>2. <<"changed", 1>> \in t[i]
  BY <1>1 DEF XorOf, SymDiff, Change
<1>3. \A j, k, c : <<"changed", 1>> # <<"tag", j, k, c>>
  OBVIOUS
<1>. QED
  BY <1>2, <1>3, NotTag

(* A forged box is too short, or its tag is not the one of its message.    *)
TaggedText(f, t, b, k, most) ==
    /\ IsCells(t) /\ Len(t) = Tag /\ IsCells(b) /\ Len(b) = k /\ k \in Nat /\ k <= most
    /\ f = t \o b /\ Len(f) = Tag + k

(* What is not the tag of what follows it, or too short to have one.       *)
Refusable(f, key, most) ==
    /\ IsCells(f) /\ Len(f) \in Nat
    /\ \/ Len(f) < Tag
       \/ \E t, b, k : TaggedText(f, t, b, k, most) /\ t # Mac(key, b)

(* No forgery of a secretbox carries the tag of its own content.           *)
LEMMA ForgedEasy ==
    ASSUME NEW key, NEW b, IsCells(b), NEW n \in Nat, Len(b) = n, NEW box, box = Mac(key, b) \o b,
           NEW how \in {"first", "last", "short", "cut"}, NEW f, f = Forged(box, how)
    PROVE  Refusable(f, key, n)
<1>1. PICK t : t = Mac(key, b) /\ IsCells(t) /\ Len(t) = Tag
  BY MacCells
<1>2. Joins(box, t, Tag, b, n)
  BY <1>1, JoinedTo
<1>3. PICK L \in Nat : L = Tag + n /\ Tag <= L
  BY BoxSizes
<1>4. IsCells(box) /\ Len(box) = L
  BY <1>2, <1>3 DEF Joins
<1>5. /\ IsCells(f) /\ Len(f) \in Nat /\ Len(f) <= L
      /\ how = "first" => ChangedAt(f, box, L, 1)
      /\ how = "last" => ChangedAt(f, box, L, L)
      /\ how = "short" => Len(f) = Tag - 1
      /\ how = "cut" => PrefixOf(f, box, L - 1)
  BY <1>3, <1>4, ForgedCells
<1>6. CASE Len(f) < Tag
  BY <1>5, <1>6 DEF Refusable
<1>7. CASE Len(f) >= Tag
  <2>1. PICK k \in Nat : Len(f) = Tag + k /\ k <= n
    <3>1. Len(f) - Tag \in Nat /\ Len(f) = Tag + (Len(f) - Tag) /\ Len(f) - Tag <= n
      BY <1>3, <1>5, <1>7, BoxSizes
    <3>. QED
      BY <3>1
  <2>2. PICK t2, b2 : Splits(f, t2, Tag, b2, k)
    BY <1>5, <2>1, BoxSizes, SplitAt
  <2>3. how # "short"
    BY <1>5, <1>7, BoxSizes
  <2>4. t2 # Mac(key, b2)
    <3>1. CASE how = "first"
      <4>1. 1 \in 1 .. Tag /\ 1 \in 1 .. Tag + n
        BY BoxSizes
      <4>2. t2[1] = XorOf(t[1], Change)
        BY <1>2, <1>5, <2>2, <3>1, <4>1 DEF Joins, Splits, ChangedAt
      <4>. QED
        BY <1>1, <4>1, <4>2, ChangedTag
    <3>2. CASE how = "last" /\ n = 0
      <4>1. Tag \in 1 .. Tag /\ L = Tag /\ Tag \in 1 .. Tag + n
        BY <1>3, <3>2, BoxSizes
      <4>2. t2[Tag] = XorOf(t[Tag], Change)
        BY <1>2, <1>3, <1>5, <2>2, <3>2, <4>1 DEF Joins, Splits, ChangedAt
      <4>. QED
        BY <1>1, <4>1, <4>2, ChangedTag
    <3>3. CASE how = "last" /\ n # 0
      <4>1. k = n /\ L \in 1 .. Tag + n /\ ~(L <= Tag) /\ L - Tag = n /\ n \in 1 .. n /\ Tag + n = L
        BY <1>3, <1>5, <2>1, <3>3, BoxSizes DEF ChangedAt
      <4>2. b2[n] = XorOf(b[n], Change)
        <5>1. b2[n] = f[L]
          BY <2>2, <4>1 DEF Splits
        <5>2. f[L] = XorOf(box[L], Change)
          BY <1>5, <3>3 DEF ChangedAt
        <5>3. box[L] = b[n]
          BY <1>2, <4>1 DEF Joins
        <5>. QED
          BY <5>1, <5>2, <5>3
      <4>3. b2 # b
        BY <4>2, XorChanges DEF Change
      <4>4. t2 = t
        <5>1. \A i \in 1 .. Tag : i \in 1 .. L /\ i # L /\ i \in 1 .. Tag + n /\ i <= Tag
          BY <1>3, <3>3, BoxSizes
        <5>2. \A i \in 1 .. Tag : t2[i] = f[i]
          BY <2>2 DEF Splits
        <5>3. \A i \in 1 .. Tag : f[i] = box[i]
          BY <1>5, <3>3, <5>1 DEF ChangedAt
        <5>4. \A i \in 1 .. Tag : box[i] = t[i]
          BY <1>2, <5>1 DEF Joins
        <5>5. \A i \in 1 .. Tag : t2[i] = t[i]
          BY <5>2, <5>3, <5>4
        <5>. QED
          BY <1>1, <2>2, <5>5, SameCells DEF Splits
      <4>. QED
        BY <1>1, <4>3, <4>4, MacTells
    <3>4. CASE how = "cut"
      <4>1. k = n - 1 /\ n # 0
        BY <1>3, <1>5, <2>1, <3>4, BoxSizes DEF PrefixOf
      <4>2. b2 # b
        BY <2>2, <4>1 DEF Splits
      <4>3. t2 = t
        <5>1. \A i \in 1 .. Tag : i \in 1 .. L - 1 /\ i \in 1 .. Tag + n /\ i <= Tag
          BY <1>3, <4>1, BoxSizes
        <5>2. \A i \in 1 .. Tag : t2[i] = f[i]
          BY <2>2 DEF Splits
        <5>3. \A i \in 1 .. Tag : f[i] = box[i]
          BY <1>5, <3>4, <5>1 DEF PrefixOf
        <5>4. \A i \in 1 .. Tag : box[i] = t[i]
          BY <1>2, <5>1 DEF Joins
        <5>5. \A i \in 1 .. Tag : t2[i] = t[i]
          BY <5>2, <5>3, <5>4
        <5>. QED
          BY <1>1, <2>2, <5>5, SameCells DEF Splits
      <4>. QED
        BY <1>1, <4>2, <4>3, MacTells
    <3>. QED
      BY <2>3, <3>1, <3>2, <3>3, <3>4
  <2>5. TaggedText(f, t2, b2, k, n)
    BY <2>1, <2>2 DEF TaggedText, Splits
  <2>. QED
    BY <1>5, <2>4, <2>5 DEF Refusable
<1>. QED
  BY <1>5, <1>6, <1>7, BoxSizes

(* The n cells of c are in x, after the first p.                           *)
Carries(x, p, c, n) ==
    /\ IsCells(x) /\ Len(x) \in Nat /\ p \in Nat /\ n \in Nat /\ p + n <= Len(x)
    /\ \A i \in 1 .. n : x[p + i] = c[i]

(* What stands in front of anything can be read off the join.              *)
LEMMA CarriesFirst ==
    ASSUME NEW a, IsCells(a), NEW p, Len(a) = p, NEW c, IsCells(c), NEW n, Len(c) = n
    PROVE  Carries(a \o c, p, c, n)
<1>1. PICK x : x = a \o c
  OBVIOUS
<1>2. Joins(x, a, p, c, n) /\ p \in Nat /\ n \in Nat
  BY <1>1, JoinedTo DEF IsCells
<1>3. ASSUME NEW i \in 1 .. n
      PROVE  x[p + i] = c[i]
  <2>1. PICK j \in 1 .. p + n : j = p + i /\ ~(j <= p) /\ j - p = i
    BY <1>2
  <2>. QED
    BY <1>2, <2>1 DEF Joins
<1>4. Carries(x, p, c, n)
  BY <1>2, <1>3 DEF Joins, Carries
<1>. QED
  BY <1>1, <1>4

(* And still can when more is appended.                                    *)
LEMMA CarriesMore ==
    ASSUME NEW x, NEW p, NEW c, NEW n, Carries(x, p, c, n), NEW q, IsCells(q)
    PROVE  Carries(x \o q, p, c, n)
<1>1. PICK y, L, k : y = x \o q /\ L = Len(x) /\ k = Len(q)
  OBVIOUS
<1>2. Joins(y, x, L, q, k) /\ L \in Nat /\ k \in Nat
  BY <1>1, JoinedTo DEF IsCells, Carries
<1>3. ASSUME NEW i \in 1 .. n
      PROVE  y[p + i] = c[i]
  <2>1. PICK j \in 1 .. L + k : j = p + i /\ j <= L
    BY <1>1, <1>2 DEF Carries
  <2>. QED
    BY <1>2, <2>1 DEF Joins, Carries
<1>4. Carries(y, p, c, n)
  BY <1>1, <1>2, <1>3 DEF Joins, Carries
<1>. QED
  BY <1>1, <1>4

(* A length is one cell.                                                   *)
LEMMA LengthCells ==
    ASSUME NEW n
    PROVE  IsCells(Length(n)) /\ Len(Length(n)) = 1
<1>1. PICK l : l = Length(n)
  OBVIOUS
<1>2. l = [i \in 1 .. 1 |-> l[i]]
  BY <1>1 DEF Length
<1>. QED
  BY <1>1, <1>2, MadeCells

(* Padding is cells.                                                       *)
LEMMA PadCells ==
    ASSUME NEW n \in Nat
    PROVE  IsCells(Pad0(n)) /\ Len(Pad0(n)) \in Nat
<1>1. PICK k \in Nat : k = (Tag - n) % Tag
  BY BoxSizes
<1>2. PICK l : l = Pad0(n)
  OBVIOUS
<1>3. l = [i \in 1 .. k |-> l[i]]
  BY <1>1, <1>2 DEF Pad0
<1>4. IsCells(l) /\ Len(l) = k
  BY <1>3, MadeCells
<1>. QED
  BY <1>2, <1>4

(* Where the message is in what an AEAD authenticates.                     *)
LEMMA AuthenticatedCarries ==
    ASSUME NEW ad, IsCells(ad), NEW layout
    PROVE  \E p : \A c, n : IsCells(c) /\ Len(c) = n => Carries(Authenticated(layout, ad, c), p, c, n)
<1>1. PICK A \in Nat : A = Len(ad)
  BY DEF IsCells
<1>2. PICK l, pad : l = Length(A) /\ pad = Pad0(A)
  OBVIOUS
<1>3. IsCells(l) /\ IsCells(pad)
  BY <1>1, <1>2, LengthCells, PadCells
<1>4. CASE layout = "original"
  <2>1. PICK a, p : a = ad \o l /\ IsCells(a) /\ p = Len(a)
    BY <1>3, Joined
  <2>2. ASSUME NEW c, NEW n, IsCells(c), Len(c) = n
        PROVE  Carries(Authenticated(layout, ad, c), p, c, n)
    <3>1. Carries(a \o c, p, c, n)
      BY <2>1, <2>2, CarriesFirst
    <3>2. PICK ln : ln = Length(n) /\ IsCells(ln)
      BY LengthCells
    <3>3. Carries((a \o c) \o ln, p, c, n)
      BY <3>1, <3>2, CarriesMore
    <3>4. Authenticated(layout, ad, c) = (a \o c) \o ln
      BY <1>1, <1>2, <1>4, <2>1, <2>2, <3>2 DEF Authenticated, Original
    <3>. QED
      BY <3>3, <3>4
  <2>. QED
    BY <2>2
<1>5. CASE layout # "original"
  <2>1. PICK a, p : a = ad \o pad /\ IsCells(a) /\ p = Len(a)
    BY <1>3, Joined
  <2>2. ASSUME NEW c, NEW n, IsCells(c), Len(c) = n
        PROVE  Carries(Authenticated(layout, ad, c), p, c, n)
    <3>1. Carries(a \o c, p, c, n)
      BY <2>1, <2>2, CarriesFirst
    <3>2. PICK ln, pn : ln = Length(n) /\ IsCells(ln) /\ pn = Pad0(n) /\ IsCells(pn)
      BY <2>2, LengthCells, PadCells DEF IsCells
    <3>3. Carries((a \o c) \o pn, p, c, n)
      BY <3>1, <3>2, CarriesMore
    <3>4. Carries(((a \o c) \o pn) \o l, p, c, n)
      BY <1>3, <3>3, CarriesMore
    <3>5. Carries((((a \o c) \o pn) \o l) \o ln, p, c, n)
      BY <3>2, <3>4, CarriesMore
    <3>6. Authenticated(layout, ad, c) = (((a \o c) \o pn) \o l) \o ln
      BY <1>1, <1>2, <1>5, <2>1, <2>2, <3>2 DEF Authenticated, Ietf
    <3>. QED
      BY <3>5, <3>6
  <2>. QED
    BY <2>2
<1>. QED
  BY <1>4, <1>5

(* What an AEAD authenticates tells the message, among those of its length. *)
LEMMA AuthenticatedTells ==
    ASSUME NEW ad, IsCells(ad), NEW layout, NEW a, NEW b, IsCells(a), IsCells(b), NEW n, Len(a) = n, Len(b) = n,
           Authenticated(layout, ad, a) = Authenticated(layout, ad, b)
    PROVE  a = b
<1>1. PICK p : \A c, k : IsCells(c) /\ Len(c) = k => Carries(Authenticated(layout, ad, c), p, c, k)
  BY AuthenticatedCarries
<1>2. PICK x : x = Authenticated(layout, ad, a) /\ x = Authenticated(layout, ad, b)
  OBVIOUS
<1>3. Carries(x, p, a, n) /\ Carries(x, p, b, n)
  BY <1>1, <1>2
<1>4. \A i \in 1 .. n : a[i] = b[i]
  BY <1>3 DEF Carries
<1>. QED
  BY <1>4, SameCells

(* A forged box of an AEAD, whose message has the caller's bytes in it.    *)
TaggedLast(f, b, k, t, most) ==
    /\ IsCells(b) /\ Len(b) = k /\ IsCells(t) /\ Len(t) = Tag /\ k \in Nat /\ k <= most
    /\ f = b \o t /\ Len(f) = k + Tag

(* The same of an AEAD, whose tag comes last.                              *)
AeadRefusable(f, key, most, layout, ad) ==
    /\ IsCells(f) /\ Len(f) \in Nat
    /\ \/ Len(f) < Tag
       \/ \E t, b, k : TaggedLast(f, b, k, t, most) /\ t # Mac(key, Authenticated(layout, ad, b))

(* No forgery of an AEAD box carries the tag of its own content.           *)
LEMMA ForgedAead ==
    ASSUME NEW key, NEW b, IsCells(b), NEW n \in Nat, Len(b) = n, \A i \in 1 .. n : <<"plain", i>> \in b[i],
           NEW layout, NEW ad, IsCells(ad), NEW box, box = b \o Mac(key, Authenticated(layout, ad, b)),
           NEW how \in {"first", "last", "short", "cut"}, NEW f, f = Forged(box, how)
    PROVE  AeadRefusable(f, key, n, layout, ad)
<1>1. PICK t : t = Mac(key, Authenticated(layout, ad, b)) /\ IsCells(t) /\ Len(t) = Tag
  BY MacCells
<1>2. Joins(box, b, n, t, Tag)
  BY <1>1, JoinedTo
<1>3. PICK L \in Nat : L = n + Tag /\ Tag <= L
  BY BoxSizes
<1>4. IsCells(box) /\ Len(box) = L
  BY <1>2, <1>3 DEF Joins
<1>5. /\ IsCells(f) /\ Len(f) \in Nat /\ Len(f) <= L
      /\ how = "first" => ChangedAt(f, box, L, 1)
      /\ how = "last" => ChangedAt(f, box, L, L)
      /\ how = "short" => Len(f) = Tag - 1
      /\ how = "cut" => PrefixOf(f, box, L - 1)
  BY <1>3, <1>4, ForgedCells
<1>6. CASE Len(f) < Tag
  BY <1>5, <1>6 DEF AeadRefusable
<1>7. CASE Len(f) >= Tag
  <2>1. PICK k \in Nat : Len(f) = k + Tag /\ k <= n
    <3>1. Len(f) - Tag \in Nat /\ Len(f) = (Len(f) - Tag) + Tag /\ Len(f) - Tag <= n
      BY <1>3, <1>5, <1>7, BoxSizes
    <3>. QED
      BY <3>1
  <2>2. PICK b2, t2 : Splits(f, b2, k, t2, Tag)
    BY <1>5, <2>1, BoxSizes, SplitAt
  <2>3. how # "short"
    BY <1>5, <1>7, BoxSizes
  <2>4. t2 # Mac(key, Authenticated(layout, ad, b2))
    <3>1. CASE how = "first" /\ n = 0
      <4>1. k = 0 /\ 1 \in 1 .. Tag /\ 1 \in 1 .. n + Tag /\ ~(1 <= n) /\ 1 - n = 1 /\ k + 1 = 1
        BY <1>3, <1>5, <2>1, <3>1, BoxSizes
      <4>2. t2[1] = XorOf(t[1], Change)
        BY <1>2, <1>5, <2>2, <3>1, <4>1 DEF Joins, Splits, ChangedAt
      <4>. QED
        BY <1>1, <4>1, <4>2, ChangedTag
    <3>2. CASE how = "first" /\ n # 0
      <4>1. k = n /\ 1 \in 1 .. n /\ 1 \in 1 .. n + Tag
        BY <1>3, <1>5, <2>1, <3>2, BoxSizes DEF ChangedAt
      <4>2. b2[1] = XorOf(b[1], Change)
        BY <1>2, <1>5, <2>2, <3>2, <4>1 DEF Joins, Splits, ChangedAt
      <4>3. b2 # b
        BY <4>2, XorChanges DEF Change
      <4>4. t2 = t
        <5>1. \A i \in 1 .. Tag : n + i \in 1 .. L /\ n + i # 1 /\ n + i \in 1 .. n + Tag /\ ~(n + i <= n) /\ (n + i) - n = i
          BY <1>3, <3>2, BoxSizes
        <5>2. \A i \in 1 .. Tag : t2[i] = f[n + i]
          BY <2>2, <4>1 DEF Splits
        <5>3. \A i \in 1 .. Tag : f[n + i] = box[n + i]
          BY <1>5, <3>2, <5>1 DEF ChangedAt
        <5>4. \A i \in 1 .. Tag : box[n + i] = t[i]
          BY <1>2, <5>1 DEF Joins
        <5>5. \A i \in 1 .. Tag : t2[i] = t[i]
          BY <5>2, <5>3, <5>4
        <5>. QED
          BY <1>1, <2>2, <5>5, SameCells DEF Splits
      <4>5. Authenticated(layout, ad, b2) # Authenticated(layout, ad, b)
        BY <2>2, <4>1, <4>3, AuthenticatedTells DEF Splits
      <4>. QED
        BY <1>1, <4>4, <4>5, MacTells
    <3>3. CASE how = "last"
      <4>1. k = n /\ Tag \in 1 .. Tag /\ L \in 1 .. n + Tag /\ ~(L <= n) /\ L - n = Tag /\ n + Tag = L
        BY <1>3, <1>5, <2>1, <3>3, BoxSizes DEF ChangedAt
      <4>2. t2[Tag] = XorOf(t[Tag], Change)
        <5>1. t2[Tag] = f[L]
          BY <2>2, <4>1 DEF Splits
        <5>2. f[L] = XorOf(box[L], Change)
          BY <1>5, <3>3 DEF ChangedAt
        <5>3. box[L] = t[Tag]
          BY <1>2, <4>1 DEF Joins
        <5>. QED
          BY <5>1, <5>2, <5>3
      <4>. QED
        BY <1>1, <4>1, <4>2, ChangedTag
    <3>4. CASE how = "cut"
      <4>1. k = n - 1 /\ n # 0 /\ 1 \in 1 .. Tag /\ n \in 1 .. L - 1 /\ n \in 1 .. n + Tag /\ k + 1 = n /\ n <= n /\ n \in 1 .. n
        BY <1>3, <1>5, <2>1, <3>4, BoxSizes DEF PrefixOf
      <4>2. t2[1] = b[n]
        BY <1>2, <1>5, <2>2, <3>4, <4>1 DEF Joins, Splits, PrefixOf
      <4>3. <<"plain", n>> \in b[n] /\ \A i, c, d : <<"plain", n>> # <<"tag", i, c, d>>
        BY <4>1
      <4>. QED
        BY <4>1, <4>2, <4>3, NotTag
    <3>. QED
      BY <2>3, <3>1, <3>2, <3>3, <3>4
  <2>5. TaggedLast(f, b2, k, t2, n)
    BY <2>1, <2>2 DEF TaggedLast, Splits
  <2>. QED
    BY <1>5, <2>4, <2>5 DEF AeadRefusable
<1>. QED
  BY <1>5, <1>6, <1>7, BoxSizes

(* The message goes where it does not overlap the box above its start.     *)
Aside(c, m, n) == m = -1 \/ m <= c \/ c + n <= m

(* An AEAD opens a box exactly when its tag is right, and otherwise zeroes *)
(* the output.                                                             *)
LEMMA OpensAead ==
    ASSUME NEW mem0, IsMemory(mem0), NEW c \in Nat, NEW t, NEW b, IsCells(t), IsCells(b), Len(t) = Tag,
           NEW n \in Nat, Len(b) = n, NEW N, N = n + Tag, Fits(c, N), NEW m, Target(m, n), Aside(c, m, n),
           NEW f, IsJoin(f, b, t), NEW mem, mem = Written(mem0, c, f), NEW s, NEW ad, NEW layout,
           NEW tag0, tag0 = Mac(PolyKey(s), Authenticated(layout, ad, b)),
           NEW plain, plain = Ciphered(b, s, Block), NEW w, w = Into(mem, m, Zeros(n))
    PROVE  Given(aead_decrypt(mem, m, c, N, ad, s, layout), t, tag0, mem, m, plain, w)
<1>. /\ mem = Written(mem0, c, b \o t) /\ Fits(c, n + Tag)
     /\ m = -1 \/ (m \in Nat /\ Fits(m, n) /\ (m <= c \/ c + n <= m))
  BY DEF IsJoin, Target, Aside
<1>1. PICK p \in Nat : p = c + n /\ Fits(p, Tag) /\ Fits(c, n)
  BY BoxSizes, Within
<1>2. IsMemory(mem) /\ Cells(mem, c, n) = b /\ Cells(mem, p, Tag) = t
  BY <1>1, BoxSizes, Parts
<1>3. ~(N < Tag) /\ N - Tag = n
  BY BoxSizes
<1>4. PICK auth, tag : auth = Authenticated(layout, ad, b) /\ tag = Mac(PolyKey(s), auth)
  OBVIOUS
<1>5. aead_decrypt(mem, m, c, N, ad, s, layout) =
         IF m = -1 THEN [ret |-> IF t = tag THEN 0 ELSE -1, mem |-> mem]
         ELSE IF t # tag THEN Refused(Written(mem, m, Zeros(n)))
         ELSE [ret |-> 0, mem |-> xor_ic(mem, m, c, n, s, 1)]
  BY <1>1, <1>2, <1>3, <1>4 DEF aead_decrypt, Zeros
<1>6. CASE m = -1
  BY <1>4, <1>5, <1>6 DEF Into, Refused, Given
<1>7. CASE m \in Nat /\ Fits(m, n) /\ (m <= c \/ c + n <= m)
  <2>1. m # -1 /\ 1 * Block = Block /\ 1 \in Nat
    BY <1>7, BoxSizes
  <2>2. xor_ic(mem, m, c, n, s, 1) = Written(mem, m, Ciphered(b, s, Block))
    <3>1. xor_ic(mem, m, c, n, s, 1) = Written(mem, m, Ciphered(Cells(mem, c, n), s, 1 * Block))
      BY <1>1, <1>2, <1>7, <2>1, XorWrites
    <3>. QED
      BY <1>2, <2>1, <3>1
  <2>. QED
    BY <1>4, <1>5, <2>1, <2>2 DEF Into, Given
<1>. QED
  BY <1>6, <1>7

(* The form of NaCl.                                                       *)
LEMMA OpensNacl ==
    ASSUME NEW mem0, IsMemory(mem0), NEW c \in Nat, NEW z, NEW t, NEW b, IsCells(z), IsCells(t), IsCells(b),
           Len(z) = Tag, Len(t) = Tag, NEW n \in Nat, Len(b) = n, NEW N, N = Zero + n, Fits(c, N),
           NEW m \in Nat, Fits(m, N), Aside(c, m, N), NEW zt, IsJoin(zt, z, t), NEW f, IsJoin(f, zt, b),
           NEW mem, mem = Written(mem0, c, f), NEW non, NEW k, NEW s, s = Salsa(non, k),
           NEW tag0, tag0 = Mac(PolyKey(s), b), NEW body, IsJoin(body, Zeros(Zero), Ciphered(b, s, Zero))
    PROVE  Given(xsalsa20poly1305_open(mem, m, c, N, non, k), t, tag0, mem, m, body, mem)
<1>. /\ Fits(c, Zero + n) /\ Fits(m, Zero + n) /\ (m <= c \/ c + (Zero + n) <= m)
     /\ mem = Written(mem0, c, (z \o t) \o b)
  BY DEF IsJoin, Aside
<1>1. zt = z \o t
  BY DEF IsJoin
<1>2. IsCells(zt) /\ Len(zt) = Zero
  BY <1>1, Joined, BoxSizes
<1>3. PICK p \in Nat, q \in Nat : p = c + Zero /\ q = c + Tag /\ Fits(p, n) /\ Fits(c, Zero) /\ Fits(q, Tag) /\ Fits(c, Tag + Tag)
  <2>1. Fits(c + Zero, n) /\ c + Zero \in Nat /\ Fits(c, Zero)
    BY BoxSizes, Within
  <2>2. Fits(c + Tag, Tag) /\ c + Tag \in Nat /\ Fits(c, Tag + Tag)
    BY <2>1, BoxSizes DEF Fits
  <2>. QED
    BY <2>1, <2>2
<1>4. IsMemory(mem) /\ Cells(mem, p, n) = b
  <2>1. mem = Written(mem0, c, zt \o b)
    BY <1>1
  <2>. QED
    BY <1>2, <1>3, <2>1, BoxSizes, Parts
<1>5. Cells(mem, q, Tag) = t
  <2>1. PICK rest : rest = Written(mem0, p, b)
    OBVIOUS
  <2>2. IsMemory(rest)
    BY <1>3, <2>1, WrittenAt
  <2>3. mem = Written(rest, c, zt)
    <3>1. mem = Written(mem0, c, zt \o b)
      BY <1>1
    <3>. QED
      BY <1>2, <1>3, <2>1, <3>1, WrittenBefore
  <2>. QED
    BY <1>1, <1>3, <2>2, <2>3, BoxSizes, Parts
<1>6. ~(N < Zero) /\ N - Zero = n
  BY BoxSizes
<1>7. PICK key : key = PolyKey(s)
  OBVIOUS
<1>8. PICK tag : tag = Mac(key, b)
  OBVIOUS
<1>9. xsalsa20poly1305_open(mem, m, c, N, non, k) =
         IF t # tag THEN Refused(mem)
         ELSE [ret |-> 0, mem |-> Written(xor_ic(mem, m, c, N, s, 0), m, Zeros(Zero))]
  BY <1>3, <1>4, <1>5, <1>6, <1>7, <1>8 DEF xsalsa20poly1305_open, Zeros
<1>10. Written(xor_ic(mem, m, c, N, s, 0), m, Zeros(Zero)) = Written(mem, m, Zeros(Zero) \o Ciphered(b, s, Zero))
  <2>1. N \in Nat /\ Fits(c, N) /\ Fits(m, N) /\ (m <= c \/ c + N <= m) /\ 0 * Block = 0 /\ 0 \in Nat /\ 0 + Zero = Zero
    BY BoxSizes
  <2>2. PICK all : all = Cells(mem, c, N)
    OBVIOUS
  <2>3. xor_ic(mem, m, c, N, s, 0) = Written(mem, m, Ciphered(all, s, 0))
    <3>1. xor_ic(mem, m, c, N, s, 0) = Written(mem, m, Ciphered(Cells(mem, c, N), s, 0 * Block))
      BY <1>4, <2>1, XorWrites
    <3>. QED
      BY <2>1, <2>2, <3>1
  <2>4. PICK box : box = zt \o b
    OBVIOUS
  <2>5. IsCells(box) /\ Len(box) = N
    BY <1>2, <2>4, Joined
  <2>6. all = box
    <3>1. mem = Written(mem0, c, box)
      BY <1>1, <2>4
    <3>. QED
      BY <2>1, <2>2, <2>5, <3>1, ReadBack
  <2>7. PICK x, plain, zeros : x = Ciphered(zt, s, 0) /\ plain = Ciphered(b, s, Zero) /\ zeros = Zeros(Zero)
    OBVIOUS
  <2>8. Ciphered(all, s, 0) = x \o plain
    <3>1. PICK o \in Nat, w \in Nat, next \in Nat : o = 0 /\ w = Zero /\ next = Zero /\ next = o + w
      BY BoxSizes
    <3>2. Len(zt) = w
      BY <1>2, <3>1
    <3>3. x = Ciphered(zt, s, o) /\ plain = Ciphered(b, s, next)
      BY <2>7, <3>1
    <3>4. IsCells(zt) /\ IsCells(b) /\ IsJoin(box, zt, b)
      BY <1>2, <2>4 DEF IsJoin
    <3>5. IsJoin(Ciphered(box, s, o), x, plain)
      BY <3>1, <3>2, <3>3, <3>4, CipheredJoin
    <3>. QED
      BY <2>6, <3>1, <3>5 DEF IsJoin
  <2>9. /\ IsCells(x) /\ Len(x) = Zero /\ IsCells(plain) /\ IsCells(zeros) /\ Len(zeros) = Zero
    BY <1>2, <2>7, BoxSizes, CipheredCells, ZerosCells
  <2>10. PICK r \in Nat : r = m + Zero
    BY BoxSizes
  <2>11. PICK rest : rest = Written(mem, r, plain) /\ IsMemory(rest)
    BY <1>4, <2>9, WrittenAt
  <2>12. Written(mem, m, x \o plain) = Written(rest, m, x)
    BY <1>4, <2>9, <2>10, <2>11, WrittenBefore
  <2>13. Written(Written(rest, m, x), m, zeros) = Written(rest, m, zeros)
    BY <2>9, <2>11, WrittenOver
  <2>14. Written(rest, m, zeros) = Written(mem, m, zeros \o plain)
    BY <1>4, <2>9, <2>10, <2>11, WrittenBefore
  <2>. QED
    BY <2>3, <2>7, <2>8, <2>12, <2>13, <2>14
<1>11. m # -1 /\ body = Zeros(Zero) \o Ciphered(b, s, Zero)
  BY DEF IsJoin
<1>. QED
  BY <1>7, <1>8, <1>9, <1>10, <1>11 DEF Given, Into

(* Joining to nothing changes nothing.                                     *)
LEMMA EmptyFirst ==
    ASSUME NEW s, IsCells(s)
    PROVE  <<>> \o s = s
<1> DEFINE V == {s[i] : i \in 1 .. Len(s)}
<1>1. s \in Seq(V)
  BY DEF IsCells
<1> HIDE DEF V
<1>. QED
  BY <1>1

(* The message: every cell is its own.                                     *)
LEMMA PlainCells ==
    ASSUME NEW n \in Nat, NEW p, p = Plain(n)
    PROVE  IsCells(p) /\ Len(p) = n /\ \A i \in 1 .. n : p[i] = {<<"plain", i>>}
<1>1. p = [i \in 1 .. n |-> p[i]] /\ \A i \in 1 .. n : p[i] = {<<"plain", i>>}
  BY DEF Plain
<1>. QED
  BY <1>1, MadeCells

(* Additional data is cells.                                               *)
LEMMA AdCells ==
    ASSUME NEW n \in Nat
    PROVE  IsCells(Ad(n))
<1>1. PICK p : p = Ad(n)
  OBVIOUS
<1>2. p = [i \in 1 .. n |-> p[i]]
  BY <1>1 DEF Ad
<1>. QED
  BY <1>1, <1>2, MadeCells

(* A forged box is refused before anything is written.                     *)
LEMMA OpensForged ==
    ASSUME NEW mem0, IsMemory(mem0), NEW c \in Nat, NEW n \in Nat, NEW b, IsCells(b), Len(b) = n,
           NEW most, most = Tag + n, Fits(c, most), NEW m, Target(m, n), NEW s, NEW t0, t0 = Mac(PolyKey(s), b),
           NEW box, IsJoin(box, t0, b), NEW how, how \in {"first", "last", "short", "cut"}, NEW f, f = Forged(box, how),
           NEW mem, mem = Written(mem0, c, f), NEW N, N = Len(f)
    PROVE  OpenEasy(mem, m, c, N, s) = Refused(mem)
<1>1. PICK key : key = PolyKey(s)
  OBVIOUS
<1>2. Refusable(f, key, n)
  BY <1>1, ForgedEasy DEF IsJoin
<1>3. CASE Len(f) < Tag
  BY <1>3 DEF OpenEasy
<1>4. CASE \E t, d, k : TaggedText(f, t, d, k, n) /\ t # Mac(key, d)
  <2>1. PICK t, d, k : TaggedText(f, t, d, k, n) /\ t # Mac(key, d)
    BY <1>4
  <2>2. IsCells(t) /\ Len(t) = Tag /\ IsCells(d) /\ Len(d) = k /\ k \in Nat /\ IsJoin(f, t, d) /\ N = Tag + k
    BY <2>1 DEF TaggedText, IsJoin
  <2>3. Fits(c, N) /\ Target(m, k)
    BY <2>1, <2>2, BoxSizes DEF Fits, TaggedText, Target
  <2>4. PICK tag, plain : tag = Mac(PolyKey(s), d) /\ plain = Ciphered(d, s, Zero)
    OBVIOUS
  <2>5. Given(OpenEasy(mem, m, c, N, s), t, tag, mem, m, plain, mem)
    BY <2>2, <2>3, <2>4, OpensEasy
  <2>. QED
    BY <1>1, <2>1, <2>4, <2>5 DEF Given
<1>. QED
  BY <1>2, <1>3, <1>4 DEF Refusable

(* What OpenedWhole says of one call that opens and what it was answered.  *)
OpenRight(scheme, c, m, n, ad, how, a) ==
    LET box   == Forged(BoxOf(scheme, n, ad), how)
        mem   == Written(Start, c, box)
        plain == (IF scheme \in Nacl THEN Zeros(Zero) ELSE <<>>) \o Plain(n)
    IN IF how = "no"
       THEN a = [ret |-> 0, mem |-> Into(mem, m, plain)]
       ELSE a = [ret |-> -1, mem |-> IF scheme \in Aeads /\ Len(box) >= Tag THEN Into(mem, m, Zeros(Len(box) - Tag)) ELSE mem]

(* What may have happened to a box on its way.                             *)
Hows == {"no", "first", "last", "short", "cut"}

(* secretbox and box open what was sealed and refuse every forgery.        *)
LEMMA OpeningEasy ==
    ASSUME NEW scheme \in Easy, NEW c \in Nat, NEW n \in Nat, NEW m, Target(m, n), NEW ad,
           Fits(c, Tag + n), NEW how \in Hows, NEW s, s = StreamOf(scheme),
           NEW f, f = Forged(BoxOf(scheme, n, ad), how), NEW mem, mem = Written(Start, c, f), NEW N, N = Len(f)
    PROVE  OpenRight(scheme, c, m, n, ad, how, OpenEasy(mem, m, c, N, s))
<1>1. scheme \notin Nacl /\ scheme \notin Aeads /\ scheme \in Schemes
  BY DEF Easy, Nacl, Aeads, Schemes
<1>2. PICK plain, body : plain = Plain(n) /\ body = Ciphered(plain, s, Zero)
  OBVIOUS
<1>3. IsCells(plain) /\ Len(plain) = n /\ IsCells(body) /\ Len(body) = n
  <2>1. IsCells(plain) /\ Len(plain) = n
    BY <1>2, PlainCells
  <2>. QED
    BY <1>2, <2>1, CipheredCells
<1>4. PICK t : t = Mac(PolyKey(s), body) /\ IsCells(t) /\ Len(t) = Tag
  BY MacCells
<1>5. PICK box : box = BoxOf(scheme, n, ad) /\ box = t \o body
  <2>1. body = Body(scheme, plain)
    BY <1>1, <1>2, Bodies
  <2>2. EasyForm(Authentic(scheme, plain, Ad(ad)), s, body)
    BY <1>1, <2>1, Forms
  <2>. QED
    BY <1>2, <1>4, <2>2 DEF EasyForm, BoxOf
<1>6. CASE how = "no"
  <2>1. f = t \o body
    BY <1>5, <1>6 DEF Forged
  <2>2. N = Tag + n
    <3>1. Joins(f, t, Tag, body, n)
      BY <1>3, <1>4, <2>1, JoinedTo
    <3>. QED
      BY <3>1 DEF Joins
  <2>3. Ciphered(body, s, Zero) = plain /\ <<>> \o plain = plain
    BY <1>2, <1>3, CipheredTwice, EmptyFirst
  <2>4. IsJoin(f, t, body) /\ Fits(c, N)
    BY <2>1, <2>2 DEF IsJoin
  <2>5. Given(OpenEasy(mem, m, c, N, s), t, t, mem, m, plain, mem)
    BY <1>3, <1>4, <2>2, <2>3, <2>4, StartMemory, OpensEasy
  <2>6. OpenEasy(mem, m, c, N, s) = [ret |-> 0, mem |-> Into(mem, m, plain)]
    BY <2>5 DEF Given
  <2>. QED
    BY <1>1, <1>2, <1>6, <2>3, <2>6 DEF OpenRight
<1>7. CASE how \in {"first", "last", "short", "cut"}
  <2>1. f = Forged(box, how) /\ IsJoin(box, t, body)
    BY <1>5 DEF IsJoin
  <2>2. OpenEasy(mem, m, c, N, s) = Refused(mem)
    <3>1. PICK most : most = Tag + n /\ Fits(c, most)
      OBVIOUS
    <3>. QED
      BY <1>3, <1>4, <1>7, <2>1, <3>1, StartMemory, OpensForged
  <2>3. how # "no"
    BY <1>7
  <2>. QED
    BY <1>1, <2>2, <2>3 DEF OpenRight, Refused
<1>. QED
  BY <1>6, <1>7 DEF Hows

(* A byte of a message stays in it when it is enciphered.                  *)
LEMMA PlainKept ==
    ASSUME NEW n \in Nat, NEW s, NEW at, NEW b, b = Ciphered(Plain(n), s, at)
    PROVE  IsCells(b) /\ Len(b) = n /\ \A i \in 1 .. n : <<"plain", i>> \in b[i]
<1>1. PICK p : p = Plain(n) /\ IsCells(p) /\ Len(p) = n /\ \A i \in 1 .. n : p[i] = {<<"plain", i>>}
  BY PlainCells
<1>2. IsCells(b) /\ Len(b) = n
  BY <1>1, CipheredCells
<1>3. ASSUME NEW i \in 1 .. n
      PROVE  <<"plain", i>> \in b[i]
  <2>1. b[i] = XorOf(p[i], Stream(s, at + i - 1))
    BY <1>1, <1>2 DEF Ciphered
  <2>2. <<"plain", i>> \in p[i] /\ <<"plain", i>> \notin Stream(s, at + i - 1)
    BY <1>1 DEF Stream
  <2>. QED
    BY <2>1, <2>2 DEF XorOf, SymDiff
<1>. QED
  BY <1>2, <1>3

(* The AEADs open what was sealed and refuse every forgery, leaving no     *)
(* plaintext.                                                              *)
LEMMA OpeningAead ==
    ASSUME NEW scheme \in Aeads, NEW c \in Nat, NEW n \in Nat, NEW m, Target(m, n), NEW ad \in Nat,
           NEW most, most = n + Tag, Fits(c, most), m = -1 \/ c = m \/ Apart(c, m, most),
           NEW how \in Hows, NEW s, s = StreamOf(scheme), NEW layout, layout = LayoutOf(scheme),
           NEW f, f = Forged(BoxOf(scheme, n, ad), how), NEW mem, mem = Written(Start, c, f), NEW N, N = Len(f)
    PROVE  OpenRight(scheme, c, m, n, ad, how, aead_decrypt(mem, m, c, N, Ad(ad), s, layout))
<1>1. scheme \notin Nacl /\ scheme \in Schemes
  BY DEF Nacl, Aeads, Schemes
<1>2. PICK plain, body, extra : plain = Plain(n) /\ body = Ciphered(plain, s, Block) /\ extra = Ad(ad)
  OBVIOUS
<1>3. /\ IsCells(plain) /\ Len(plain) = n /\ IsCells(body) /\ Len(body) = n /\ IsCells(extra)
      /\ \A i \in 1 .. n : <<"plain", i>> \in body[i]
  BY <1>2, PlainCells, PlainKept, AdCells
<1>4. PICK key, auth : key = PolyKey(s) /\ auth = Authenticated(layout, extra, body)
  OBVIOUS
<1>5. PICK t : t = Mac(key, auth) /\ IsCells(t) /\ Len(t) = Tag
  BY MacCells
<1>6. PICK box : box = BoxOf(scheme, n, ad) /\ box = body \o t
  <2>1. body = Body(scheme, plain)
    BY <1>2, Bodies
  <2>2. AeadForm(Authentic(scheme, plain, extra), s, body, extra, layout)
    BY <1>1, <2>1, Forms
  <2>. QED
    BY <1>2, <1>4, <1>5, <2>2 DEF AeadForm, BoxOf
<1>7. ASSUME NEW k \in Nat, k <= n
      PROVE  Fits(c, k + Tag) /\ Target(m, k) /\ Aside(c, m, k)
  BY <1>7, BoxSizes DEF Fits, Target, Aside, Apart
<1>8. CASE how = "no"
  <2>1. f = body \o t
    BY <1>6, <1>8 DEF Forged
  <2>2. N = n + Tag /\ Fits(c, N) /\ Target(m, n) /\ Aside(c, m, n)
    <3>1. Joins(f, body, n, t, Tag)
      BY <1>3, <1>5, <2>1, JoinedTo
    <3>. QED
      BY <1>7, <3>1 DEF Joins
  <2>3. Ciphered(body, s, Block) = plain /\ <<>> \o plain = plain
    BY <1>2, <1>3, CipheredTwice, EmptyFirst
  <2>4. PICK w : w = Into(mem, m, Zeros(n)) /\ IsJoin(f, body, t)
    BY <2>1 DEF IsJoin
  <2>5. t = Mac(PolyKey(s), Authenticated(layout, extra, body))
    BY <1>4, <1>5
  <2>6. Given(aead_decrypt(mem, m, c, N, extra, s, layout), t, t, mem, m, plain, w)
    BY <1>3, <1>5, <2>2, <2>3, <2>4, <2>5, StartMemory, OpensAead
  <2>7. aead_decrypt(mem, m, c, N, extra, s, layout) = [ret |-> 0, mem |-> Into(mem, m, plain)]
    BY <2>6 DEF Given
  <2>. QED
    BY <1>1, <1>2, <1>8, <2>3, <2>7 DEF OpenRight
<1>9. CASE how \in {"first", "last", "short", "cut"}
  <2>1. f = Forged(box, how) /\ box = body \o Mac(key, Authenticated(layout, extra, body)) /\ how # "no"
    BY <1>4, <1>5, <1>6, <1>9
  <2>2. AeadRefusable(f, key, n, layout, extra)
    BY <1>3, <1>9, <2>1, ForgedAead
  <2>3. CASE Len(f) < Tag
    <3>1. aead_decrypt(mem, m, c, N, extra, s, layout) = Refused(mem)
      BY <2>3 DEF aead_decrypt
    <3>2. ~(Len(f) >= Tag)
      BY <2>2, <2>3, BoxSizes DEF AeadRefusable
    <3>. QED
      BY <1>2, <2>1, <3>1, <3>2 DEF OpenRight, Refused
  <2>4. CASE \E u, d, k : TaggedLast(f, d, k, u, n) /\ u # Mac(key, Authenticated(layout, extra, d))
    <3>1. PICK u, d, k : TaggedLast(f, d, k, u, n) /\ u # Mac(key, Authenticated(layout, extra, d))
      BY <2>4
    <3>2. /\ IsCells(u) /\ Len(u) = Tag /\ IsCells(d) /\ Len(d) = k /\ k \in Nat /\ k <= n /\ IsJoin(f, d, u) /\ N = k + Tag
      BY <3>1 DEF TaggedLast, IsJoin
    <3>3. Fits(c, N) /\ Target(m, k) /\ Aside(c, m, k) /\ Len(f) >= Tag /\ Len(f) - Tag = k
      BY <1>7, <3>2, BoxSizes
    <3>4. PICK tag, p, w : tag = Mac(PolyKey(s), Authenticated(layout, extra, d)) /\ p = Ciphered(d, s, Block) /\ w = Into(mem, m, Zeros(k))
      OBVIOUS
    <3>5. Given(aead_decrypt(mem, m, c, N, extra, s, layout), u, tag, mem, m, p, w)
      BY <3>2, <3>3, <3>4, StartMemory, OpensAead
    <3>6. aead_decrypt(mem, m, c, N, extra, s, layout) = Refused(w)
      BY <1>4, <3>1, <3>4, <3>5 DEF Given
    <3>. QED
      BY <1>2, <2>1, <3>3, <3>4, <3>6 DEF OpenRight, Refused
  <2>. QED
    BY <2>2, <2>3, <2>4 DEF AeadRefusable
<1>. QED
  BY <1>8, <1>9 DEF Hows

(* The box of NaCl with its last byte changed has another tag, or the tag  *)
(* of another message.                                                     *)
ForgedParts(f, z, t, b, n, key) ==
    /\ IsCells(z) /\ Len(z) = Tag /\ IsCells(t) /\ Len(t) = Tag /\ IsCells(b) /\ Len(b) = n
    /\ f = (z \o t) \o b /\ t # Mac(key, b)

(* No forgery of a box of the original interface carries the tag of its    *)
(* own content.                                                            *)
LEMMA ForgedNacl ==
    ASSUME NEW key, NEW b, IsCells(b), NEW n \in Nat, Len(b) = n, NEW box, NEW t, t = Mac(key, b),
           NEW zt, zt = Zeros(Tag) \o t, IsJoin(box, zt, b), NEW L \in Nat, L = Zero + n, NEW f, ChangedAt(f, box, L, L)
    PROVE  \E z2, t2, b2 : ForgedParts(f, z2, t2, b2, n, key)
<1>1. IsCells(t) /\ Len(t) = Tag
  BY MacCells
<1>2. Joins(zt, Zeros(Tag), Tag, t, Tag)
  BY <1>1, BoxSizes, ZerosCells, JoinedTo
<1>3. IsCells(zt) /\ Len(zt) = Zero
  BY <1>2, BoxSizes DEF Joins
<1>4. Joins(box, zt, Zero, b, n)
  BY <1>3, JoinedTo DEF IsJoin
<1>5. IsCells(f) /\ Len(f) = L /\ f[L] = XorOf(box[L], Change) /\ \A i \in 1 .. L : i # L => f[i] = box[i]
  BY DEF ChangedAt
<1>6. PICK zt2, b2 : Splits(f, zt2, Zero, b2, n)
  BY <1>5, BoxSizes, SplitAt
<1>7. PICK z2, t2 : Splits(zt2, z2, Tag, t2, Tag)
  <2>1. IsCells(zt2) /\ Len(zt2) = Tag + Tag
    BY <1>6, BoxSizes DEF Splits
  <2>. QED
    BY <2>1, BoxSizes, SplitAt
<1>8. ASSUME NEW i \in 1 .. Tag
      PROVE  /\ Tag + i \in 1 .. Zero /\ Tag + i \in 1 .. L /\ t2[i] = f[Tag + i] /\ box[Tag + i] = t[i]
  <2>1. PICK k \in Nat : k = Tag + i /\ k \in 1 .. Zero /\ k \in 1 .. Zero + n /\ k \in 1 .. L /\ k <= Zero /\ ~(k <= Tag) /\ k - Tag = i
                         /\ k \in 1 .. Tag + Tag
    BY BoxSizes
  <2>2. t2[i] = zt2[k]
    BY <1>7, <2>1 DEF Splits
  <2>3. zt2[k] = f[k]
    BY <1>6, <2>1 DEF Splits
  <2>4. box[k] = zt[k]
    BY <1>4, <2>1 DEF Joins
  <2>5. zt[k] = t[i]
    BY <1>2, <2>1 DEF Joins
  <2>. QED
    BY <2>1, <2>2, <2>3, <2>4, <2>5
<1>9. t2 # Mac(key, b2)
  <2>1. CASE n = 0
    <3>1. Tag \in 1 .. Tag /\ Tag + Tag = L
      BY <2>1, BoxSizes
    <3>2. t2[Tag] = XorOf(t[Tag], Change)
      BY <1>5, <1>8, <3>1
    <3>. QED
      BY <3>1, <3>2, ChangedTag
  <2>2. CASE n # 0
    <3>1. L \in 1 .. Zero + n /\ ~(L <= Zero) /\ L - Zero = n /\ n \in 1 .. n /\ Zero + n = L
      BY <2>2, BoxSizes
    <3>2. b2[n] = f[L]
      BY <1>6, <3>1 DEF Splits
    <3>3. box[L] = b[n]
      BY <1>4, <3>1 DEF Joins
    <3>4. b2 # b
      BY <1>5, <3>2, <3>3, XorChanges DEF Change
    <3>5. \A i \in 1 .. Tag : Tag + i # L
      BY <2>2, BoxSizes
    <3>6. \A i \in 1 .. Tag : t2[i] = t[i]
      BY <1>5, <1>8, <3>5
    <3>7. t2 = t
      BY <1>1, <1>7, <3>6, SameCells DEF Splits
    <3>. QED
      BY <3>4, <3>7, MacTells
  <2>. QED
    BY <2>1, <2>2
<1>10. f = (z2 \o t2) \o b2
  BY <1>6, <1>7 DEF Splits
<1>11. ForgedParts(f, z2, t2, b2, n, key)
  BY <1>6, <1>7, <1>9, <1>10 DEF ForgedParts, Splits
<1>. QED
  BY <1>11

(* The original interface opens what was sealed and refuses every forgery. *)
LEMMA OpeningNacl ==
    ASSUME NEW c \in Nat, NEW n \in Nat, NEW most, most = Zero + n, Fits(c, most), NEW m \in Nat, Fits(m, most),
           c = m \/ Apart(c, m, most), NEW ad, NEW how, how \in {"no", "last", "short"},
           NEW f, f = Forged(BoxOf("nacl", n, ad), how), NEW mem, mem = Written(Start, c, f), NEW N, N = Len(f)
    PROVE  OpenRight("nacl", c, m, n, ad, how, xsalsa20poly1305_open(mem, m, c, N, "nonce", "key"))
<1>1. "nacl" \in Nacl /\ "nacl" \notin Aeads /\ "nacl" \in Schemes
  BY DEF Nacl, Aeads, Schemes
<1>2. PICK s : s = Salsa("nonce", "key") /\ s = StreamOf("nacl")
  BY StreamsOf
<1>3. PICK plain, body, z : plain = Plain(n) /\ body = Ciphered(plain, s, Zero) /\ z = Zeros(Tag)
  OBVIOUS
<1>4. IsCells(plain) /\ Len(plain) = n /\ IsCells(body) /\ Len(body) = n /\ IsCells(z) /\ Len(z) = Tag
  BY <1>3, PlainCells, PlainKept, ZerosCells, BoxSizes
<1>5. PICK key : key = PolyKey(s)
  OBVIOUS
<1>6. PICK t : t = Mac(key, body) /\ IsCells(t) /\ Len(t) = Tag
  BY MacCells
<1>7. PICK zt : zt = z \o t
  OBVIOUS
<1>8. PICK box : box = BoxOf("nacl", n, ad) /\ IsJoin(box, zt, body)
  <2>1. body = Body("nacl", plain)
    BY <1>1, <1>2, <1>3, Bodies
  <2>2. NaclForm(Authentic("nacl", plain, Ad(ad)), s, body)
    BY <1>1, <1>2, <2>1, Forms
  <2>. QED
    BY <1>3, <1>5, <1>6, <1>7, <2>2 DEF NaclForm, BoxOf, IsJoin
<1>9. IsCells(box) /\ Len(box) = most /\ most \in Nat /\ Tag <= most
  <2>1. Joins(zt, z, Tag, t, Tag)
    BY <1>4, <1>6, <1>7, JoinedTo
  <2>2. IsCells(zt) /\ Len(zt) = Zero
    BY <2>1, BoxSizes DEF Joins
  <2>3. Joins(box, zt, Zero, body, n)
    BY <1>4, <1>8, <2>2, JoinedTo DEF IsJoin
  <2>. QED
    BY <2>3, BoxSizes DEF Joins
<1>10. Aside(c, m, most)
  BY <1>9 DEF Aside, Apart
<1>11. CASE how = "no"
  <2>1. f = box /\ N = most
    BY <1>8, <1>9, <1>11 DEF Forged
  <2>2. Ciphered(body, s, Zero) = plain
    BY <1>3, <1>4, CipheredTwice
  <2>3. PICK out : out = Zeros(Zero) \o plain
    OBVIOUS
  <2>4. IsJoin(out, Zeros(Zero), Ciphered(body, s, Zero)) /\ IsJoin(zt, z, t)
    BY <1>7, <2>2, <2>3 DEF IsJoin
  <2>5. Given(xsalsa20poly1305_open(mem, m, c, N, "nonce", "key"), t, t, mem, m, out, mem)
    BY <1>2, <1>4, <1>5, <1>6, <1>8, <1>10, <2>1, <2>4, StartMemory, OpensNacl
  <2>6. xsalsa20poly1305_open(mem, m, c, N, "nonce", "key") = [ret |-> 0, mem |-> Into(mem, m, out)]
    BY <2>5 DEF Given
  <2>. QED
    BY <1>1, <1>3, <1>11, <2>3, <2>6 DEF OpenRight
<1>12. CASE how = "short"
  <2>1. f = Forged(box, how)
    BY <1>8
  <2>2. Len(f) = Tag - 1
    BY <1>9, <1>12, <2>1, ForgedCells
  <2>3. N < Zero
    BY <2>2, BoxSizes
  <2>4. xsalsa20poly1305_open(mem, m, c, N, "nonce", "key") = Refused(mem)
    BY <2>3 DEF xsalsa20poly1305_open
  <2>5. how # "no"
    BY <1>12
  <2>. QED
    BY <1>1, <2>4, <2>5 DEF OpenRight, Refused
<1>13. CASE how = "last"
  <2>1. f = Forged(box, how)
    BY <1>8
  <2>2. ChangedAt(f, box, most, most)
    BY <1>9, <1>13, <2>1, ForgedCells
  <2>3. \E z2, t2, b2 : ForgedParts(f, z2, t2, b2, n, key)
    BY <1>3, <1>4, <1>6, <1>7, <1>8, <1>9, <2>2, ForgedNacl
  <2>4. PICK z2, t2, b2 : ForgedParts(f, z2, t2, b2, n, key)
    BY <2>3
  <2>5. PICK zt2 : IsJoin(zt2, z2, t2)
    BY DEF IsJoin
  <2>6. /\ IsCells(z2) /\ Len(z2) = Tag /\ IsCells(t2) /\ Len(t2) = Tag /\ IsCells(b2) /\ Len(b2) = n
        /\ IsJoin(f, zt2, b2) /\ t2 # Mac(key, b2)
    BY <2>4, <2>5 DEF ForgedParts, IsJoin
  <2>7. PICK out, tag : IsJoin(out, Zeros(Zero), Ciphered(b2, s, Zero)) /\ tag = Mac(PolyKey(s), b2)
    BY DEF IsJoin
  <2>8. N = most
    BY <2>2 DEF ChangedAt
  <2>9. Given(xsalsa20poly1305_open(mem, m, c, N, "nonce", "key"), t2, tag, mem, m, out, mem)
    BY <1>2, <1>10, <2>5, <2>6, <2>7, <2>8, StartMemory, OpensNacl
  <2>10. xsalsa20poly1305_open(mem, m, c, N, "nonce", "key") = Refused(mem)
    BY <1>5, <2>6, <2>7, <2>9 DEF Given
  <2>11. how # "no"
    BY <1>13
  <2>. QED
    BY <1>1, <2>10, <2>11 DEF OpenRight, Refused
<1>. QED
  BY <1>11, <1>12, <1>13

(* What a call that opens was given, and the answer of Opens.              *)
OpenGiven(scheme, c, m, n, ad, how) ==
    /\ c \in Nat /\ n \in Nat /\ ad \in Nat
    /\ \/ scheme \in Easy /\ how \in Hows /\ Target(m, n) /\ Fits(c, Tag + n)
       \/ scheme \in Aeads /\ how \in Hows /\ Target(m, n) /\ Fits(c, Tag + n) /\ (m = -1 \/ c = m \/ Apart(c, m, n + Tag))
       \/ scheme = "nacl" /\ how \in {"no", "last", "short"} /\ m \in Nat /\ Fits(c, Zero + n) /\ Fits(m, Zero + n)
             /\ (c = m \/ Apart(c, m, Zero + n))

(* The answer AnswerBox gives to a call that opens.                        *)
OpenAnswer(scheme, c, m, n, ad, how) ==
    LET box == Forged(BoxOf(scheme, n, ad), how)
        mem == Written(Start, c, box)
    IN CASE scheme = "secretbox" -> secretbox_open_easy(mem, m, c, Len(box), "nonce", "key")
         [] scheme = "xchacha"   -> secretbox_xchacha_open_easy(mem, m, c, Len(box), "nonce", "key")
         [] scheme = "box"       -> box_open_easy(mem, m, c, Len(box), "nonce", Pk("alice"), "bob")
         [] scheme = "nacl"      -> xsalsa20poly1305_open(mem, m, c, Len(box), "nonce", "key")
         [] scheme = "chacha20poly1305"  -> chacha20poly1305_decrypt(mem, m, c, Len(box), Ad(ad), "nonce", "key")
         [] scheme = "ietf"              -> chacha20poly1305_ietf_decrypt(mem, m, c, Len(box), Ad(ad), "nonce", "key")
         [] scheme = "xchacha20poly1305" -> xchacha20poly1305_decrypt(mem, m, c, Len(box), Ad(ad), "nonce", "key")

(* crypto_box_open_easy is crypto_secretbox_open_easy with the key both    *)
(* sides compute.                                                          *)
LEMMA BoxOpens ==
    ASSUME NEW mem, NEW m, NEW c, NEW n, NEW s, s = StreamOf("box"), NEW a,
           a = box_open_easy(mem, m, c, n, "nonce", Pk("alice"), "bob")
    PROVE  a = OpenEasy(mem, m, c, n, s)
<1>1. PICK pk : pk = Pk("alice") /\ scalarmult("bob", pk) = {"alice", "bob"} /\ scalarmult("bob", pk) # {}
  BY OneSecret
<1>2. PICK key : key = beforenm(pk, "bob") /\ s = Salsa("nonce", key)
  BY <1>1, StreamsOf DEF beforenm
<1>3. a = IF n < Tag THEN Refused(mem) ELSE secretbox_open_easy(mem, m, c, n, "nonce", key)
  BY <1>1, <1>2 DEF box_open_easy
<1>4. secretbox_open_easy(mem, m, c, n, "nonce", key) = OpenEasy(mem, m, c, n, s)
  BY <1>2 DEF secretbox_open_easy, OpenEasy
<1>5. n < Tag => OpenEasy(mem, m, c, n, s) = Refused(mem)
  BY DEF OpenEasy
<1>. QED
  BY <1>3, <1>4, <1>5

(* Every call that opens is answered rightly.                              *)
LEMMA OpenAnswers ==
    ASSUME NEW scheme, NEW c, NEW m, NEW n, NEW ad, NEW how, OpenGiven(scheme, c, m, n, ad, how)
    PROVE  OpenRight(scheme, c, m, n, ad, how, OpenAnswer(scheme, c, m, n, ad, how))
<1>0. c \in Nat /\ n \in Nat /\ ad \in Nat
  BY DEF OpenGiven
<1> DEFINE f   == Forged(BoxOf(scheme, n, ad), how)
           mem == Written(Start, c, f)
<1>1. CASE scheme \in Easy /\ how \in Hows /\ Target(m, n) /\ Fits(c, Tag + n)
  <2>1. PICK s : s = StreamOf(scheme)
    OBVIOUS
  <2>2. OpenRight(scheme, c, m, n, ad, how, OpenEasy(mem, m, c, Len(f), s))
    BY <1>0, <1>1, <2>1, OpeningEasy
  <2>3. CASE scheme = "secretbox"
    <3>1. OpenAnswer(scheme, c, m, n, ad, how) = OpenEasy(mem, m, c, Len(f), s)
      BY <2>1, <2>3, StreamsOf DEF OpenAnswer, secretbox_open_easy, OpenEasy
    <3>. QED
      BY <2>2, <3>1
  <2>4. CASE scheme = "xchacha"
    <3>1. OpenAnswer(scheme, c, m, n, ad, how) = OpenEasy(mem, m, c, Len(f), s)
      BY <2>1, <2>4, StreamsOf DEF OpenAnswer, secretbox_xchacha_open_easy, OpenEasy
    <3>. QED
      BY <2>2, <3>1
  <2>5. CASE scheme = "box"
    <3>1. OpenAnswer(scheme, c, m, n, ad, how) = box_open_easy(mem, m, c, Len(f), "nonce", Pk("alice"), "bob")
      BY <2>5 DEF OpenAnswer
    <3>2. OpenAnswer(scheme, c, m, n, ad, how) = OpenEasy(mem, m, c, Len(f), s)
      BY <2>1, <2>5, <3>1, BoxOpens
    <3>. QED
      BY <2>2, <3>2
  <2>. QED
    BY <1>1, <2>3, <2>4, <2>5 DEF Easy
<1>2. CASE scheme \in Aeads /\ how \in Hows /\ Target(m, n) /\ Fits(c, Tag + n) /\ (m = -1 \/ c = m \/ Apart(c, m, n + Tag))
  <2>1. PICK s, layout : s = StreamOf(scheme) /\ layout = LayoutOf(scheme)
    OBVIOUS
  <2>2. OpenRight(scheme, c, m, n, ad, how, aead_decrypt(mem, m, c, Len(f), Ad(ad), s, layout))
    <3>1. PICK most : most = n + Tag /\ Fits(c, most) /\ (m = -1 \/ c = m \/ Apart(c, m, most))
      <4>. Tag + n = n + Tag
        BY <1>0, BoxSizes
      <4>. QED
        BY <1>2
    <3>. QED
      BY <1>0, <1>2, <2>1, <3>1, OpeningAead
  <2>3. CASE scheme = "chacha20poly1305"
    <3>1. OpenAnswer(scheme, c, m, n, ad, how) = aead_decrypt(mem, m, c, Len(f), Ad(ad), s, layout)
      BY <2>1, <2>3, StreamsOf DEF OpenAnswer, chacha20poly1305_decrypt, LayoutOf
    <3>. QED
      BY <2>2, <3>1
  <2>4. CASE scheme = "ietf"
    <3>1. OpenAnswer(scheme, c, m, n, ad, how) = aead_decrypt(mem, m, c, Len(f), Ad(ad), s, layout)
      BY <2>1, <2>4, StreamsOf DEF OpenAnswer, chacha20poly1305_ietf_decrypt, LayoutOf
    <3>. QED
      BY <2>2, <3>1
  <2>5. CASE scheme = "xchacha20poly1305"
    <3>1. OpenAnswer(scheme, c, m, n, ad, how) = aead_decrypt(mem, m, c, Len(f), Ad(ad), s, layout)
      BY <2>1, <2>5, StreamsOf DEF OpenAnswer, xchacha20poly1305_decrypt, LayoutOf
    <3>. QED
      BY <2>2, <3>1
  <2>. QED
    BY <1>2, <2>3, <2>4, <2>5 DEF Aeads
<1>3. CASE scheme = "nacl" /\ how \in {"no", "last", "short"} /\ m \in Nat /\ Fits(c, Zero + n) /\ Fits(m, Zero + n)
             /\ (c = m \/ Apart(c, m, Zero + n))
  <2>1. PICK most : most = Zero + n /\ Fits(c, most) /\ Fits(m, most) /\ (c = m \/ Apart(c, m, most))
    BY <1>3
  <2>2. OpenRight("nacl", c, m, n, ad, how, xsalsa20poly1305_open(mem, m, c, Len(f), "nonce", "key"))
    BY <1>0, <1>3, <2>1, OpeningNacl
  <2>3. OpenAnswer(scheme, c, m, n, ad, how) = xsalsa20poly1305_open(mem, m, c, Len(f), "nonce", "key")
    BY <1>3 DEF OpenAnswer
  <2>. QED
    BY <1>3, <2>2, <2>3
<1>. QED
  BY <1>1, <1>2, <1>3 DEF OpenGiven

-----------------------------------------------------------------------------
(* A sealed box: the key of its pair before the box (crypto_box_seal.c)    *)

(* A public key is Zero cells, as the code of box_seal takes it.           *)
LEMMA PkCells ==
    ASSUME NEW who, NEW pk, pk = Pk(who)
    PROVE  IsCells(pk) /\ Len(pk) = Zero
<1>1. pk = [i \in 1 .. Zero |-> pk[i]]
  BY DEF Pk
<1>. QED
  BY <1>1, BoxSizes, MadeCells

(* The sender of a sealed box and its reader reach the same secret; a peer *)
(* of small order gives none.                                              *)
LEMMA SealSecret ==
    /\ scalarmult("ephemeral", Pk("bob")) = {"bob", "ephemeral"}
    /\ scalarmult("bob", Pk("ephemeral")) = {"bob", "ephemeral"}
    /\ scalarmult("ephemeral", Pk("small_order")) = {}
    /\ scalarmult("small_order", Pk("ephemeral")) = {"ephemeral", "small_order"}
    /\ {"bob", "ephemeral"} # {} /\ {"ephemeral", "small_order"} # {}
BY Owned DEF scalarmult

(* The answer of SealsAndOpens, and what SealedWhole says of it.           *)
BoxSealAnswer(pk, c, m, n) ==
    LET sent == box_seal(Start, c, m, n, Pk(pk))
    IN [sent |-> sent, got |-> box_seal_open(sent.mem, m, c, Zero + Tag + n, Pk(pk), pk)]

(* What is right for a sealed box, and the calls asked.                    *)
BoxSealRight(pk, c, m, n, a) ==
    IF pk = "small_order"
    THEN a.sent.ret = -1 /\ a.got.ret = -1
    ELSE /\ a.got = [ret |-> 0, mem |-> Written(a.sent.mem, m, Cells(Start, m, n))]
         /\ \A x \in Memory \ (c .. c + Zero + Tag + n - 1) : a.sent.mem[x] = Start[x]

BoxSealGiven(pk, c, m, n) ==
    pk \in {"bob", "small_order"} /\ c \in Nat /\ m \in Nat /\ n \in Nat /\ Fits(c, Zero + Tag + n) /\ Fits(m, n)

(* Where the parts of a sealed box are.                                    *)
LEMMA SealPlaces ==
    ASSUME NEW c \in Nat, NEW n \in Nat, Fits(c, Zero + Tag + n)
    PROVE  \E p \in Nat, N \in Nat : /\ p = c + Zero /\ N = Tag + n /\ Fits(p, N) /\ Fits(c, Zero) /\ Fits(p, Tag)
                                     /\ (Zero + Tag + n) - Zero = N /\ ~(Zero + Tag + n < Zero + Tag) /\ ~(N < Tag)
                                     /\ c + Zero + Tag + n = c + (Zero + N) /\ N - Tag = n
<1>1. c + Zero \in Nat /\ Tag + n \in Nat /\ Fits(c + Zero, Tag + n) /\ Fits(c, Zero) /\ Fits(c + Zero, Tag)
  BY BoxSizes DEF Fits
<1>2. /\ (Zero + Tag + n) - Zero = Tag + n /\ ~(Zero + Tag + n < Zero + Tag) /\ ~(Tag + n < Tag)
      /\ c + Zero + Tag + n = c + (Zero + (Tag + n)) /\ (Tag + n) - Tag = n
  BY BoxSizes
<1>. QED
  BY <1>1, <1>2

(* A sealed box for a public key of full order is opened by its owner.     *)
LEMMA BoxSealBob ==
    ASSUME NEW c, NEW m, NEW n, BoxSealGiven("bob", c, m, n)
    PROVE  BoxSealRight("bob", c, m, n, BoxSealAnswer("bob", c, m, n))
<1>1. c \in Nat /\ m \in Nat /\ n \in Nat /\ Fits(c, Zero + Tag + n) /\ Fits(m, n)
  BY DEF BoxSealGiven
<1>2. PICK p \in Nat, N \in Nat : /\ p = c + Zero /\ N = Tag + n /\ Fits(p, N) /\ Fits(c, Zero) /\ Fits(p, Tag)
                                  /\ (Zero + Tag + n) - Zero = N /\ ~(Zero + Tag + n < Zero + Tag) /\ ~(N < Tag)
                                  /\ c + Zero + Tag + n = c + (Zero + N) /\ N - Tag = n
  BY <1>1, SealPlaces
<1>3. PICK pk, epk : pk = Pk("bob") /\ epk = Pk("ephemeral") /\ IsCells(epk) /\ Len(epk) = Zero
  BY PkCells
<1>4. PICK non, key : /\ non = seal_nonce(epk, pk) /\ key = beforenm(pk, "ephemeral") /\ key = beforenm(epk, "bob")
                      /\ scalarmult("ephemeral", pk) # {} /\ scalarmult("bob", epk) # {}
  BY <1>3, SealSecret DEF beforenm
<1>5. PICK s : s = Salsa(non, key)
  OBVIOUS
<1>6. PICK plain, body : plain = Cells(Start, m, n) /\ body = Ciphered(plain, s, Zero)
  OBVIOUS
<1>7. IsCells(plain) /\ Len(plain) = n /\ IsCells(body) /\ Len(body) = n
  <2>1. IsCells(plain) /\ Len(plain) = n
    BY <1>1, <1>6, CellsOf
  <2>. QED
    BY <1>6, <2>1, CipheredCells
<1>8. PICK t : t = Mac(PolyKey(s), body) /\ IsCells(t) /\ Len(t) = Tag
  BY MacCells
<1>9. PICK box : box = t \o body /\ IsJoin(box, t, body)
  BY DEF IsJoin
<1>10. IsCells(box) /\ Len(box) = N
  <2>1. Joins(box, t, Tag, body, n)
    BY <1>7, <1>8, <1>9, JoinedTo
  <2>. QED
    BY <1>2, <2>1 DEF Joins
<1>11. PICK mem : mem = Written(Written(Start, p, box), c, epk)
  OBVIOUS
<1>12. box_seal(Start, c, m, n, pk) = [ret |-> 0, mem |-> mem]
  <2>1. secretbox_easy(Start, p, m, n, non, key) = Sealed(Start, p + Tag, p, m, n, s)
    BY <1>5 DEF secretbox_easy
  <2>2. Sealed(Start, p + Tag, p, m, n, s) = Written(Start, p, Mac(PolyKey(s), body) \o body)
    BY <1>1, <1>2, <1>6, StartMemory, SealsEasy
  <2>3. secretbox_easy(Start, p, m, n, non, key) = Written(Start, p, box)
    BY <1>8, <1>9, <2>1, <2>2
  <2>4. box_easy(Start, p, m, n, non, pk, "ephemeral") = [ret |-> 0, mem |-> Written(Start, p, box)]
    BY <1>4, <2>3 DEF box_easy
  <2>. QED
    BY <1>2, <1>3, <1>4, <1>11, <2>4 DEF box_seal
<1>13. PICK first : first = Written(Start, c, epk) /\ IsMemory(first)
  BY <1>1, <1>3, StartMemory, WrittenAt
<1>14. PICK both : both = epk \o box
  OBVIOUS
<1>15. mem = Written(Start, c, both)
  BY <1>1, <1>2, <1>3, <1>10, <1>11, <1>14, StartMemory, WrittenBefore
<1>16. mem = Written(first, p, box)
  BY <1>1, <1>2, <1>3, <1>10, <1>13, <1>14, <1>15, StartMemory, WrittenAfter
<1>17. Cells(mem, c, Zero) = epk
  <2>1. IsMemory(Written(Start, p, box))
    BY <1>2, <1>10, StartMemory, WrittenAt
  <2>. QED
    BY <1>1, <1>2, <1>3, <1>11, <2>1, BoxSizes, ReadBack
<1>18. PICK got : got = box_seal_open(mem, m, c, Zero + Tag + n, pk, "bob")
  OBVIOUS
<1>19. got = OpenEasy(mem, m, p, N, s)
  <2>1. got = box_open_easy(mem, m, p, N, non, epk, "bob")
    BY <1>2, <1>4, <1>17, <1>18 DEF box_seal_open
  <2>2. got = secretbox_open_easy(mem, m, p, N, non, key)
    BY <1>2, <1>4, <2>1 DEF box_open_easy
  <2>. QED
    BY <1>5, <2>2 DEF secretbox_open_easy, OpenEasy
<1>20. got = [ret |-> 0, mem |-> Written(mem, m, plain)]
  <2>1. Ciphered(body, s, Zero) = plain
    BY <1>6, <1>7, CipheredTwice
  <2>2. Target(m, n) /\ m # -1
    BY <1>1 DEF Target
  <2>3. Given(OpenEasy(mem, m, p, N, s), t, t, mem, m, plain, mem)
    BY <1>1, <1>2, <1>7, <1>8, <1>9, <1>13, <1>16, <2>1, <2>2, OpensEasy
  <2>. QED
    BY <1>19, <2>2, <2>3 DEF Given, Into
<1>21. \A x \in Memory \ (c .. c + Zero + Tag + n - 1) : mem[x] = Start[x]
  <2>1. PICK all \in Nat : all = Zero + N
    BY BoxSizes
  <2>2. IsCells(both) /\ Len(both) = all
    <3>1. Joins(both, epk, Zero, box, N)
      BY <1>3, <1>10, <1>14, JoinedTo
    <3>. QED
      BY <2>1, <3>1 DEF Joins
  <2>3. Holding(mem, Start, c, all, both)
    BY <1>1, <1>15, <2>2, StartMemory, WrittenTo
  <2>4. PICK e \in Nat : e - 1 = c + Zero + Tag + n - 1 /\ e = c + all
    <3>1. c + Zero + Tag + n = c + all /\ c + Zero + Tag + n \in Nat
      BY <1>1, <1>2, <2>1
    <3>2. c + Zero + Tag + n - 1 = (c + Zero + Tag + n) - 1
      BY <1>1, BoxSizes
    <3>. QED
      BY <3>1, <3>2
  <2>5. ASSUME NEW x \in Memory \ (c .. e - 1)
        PROVE  mem[x] = Start[x]
    <3>1. x \in Int /\ x \in Memory /\ x \notin c .. e - 1
      BY BoxSizes
    <3>2. ~(x >= c /\ x < c + all)
      BY <1>1, <2>4, <3>1
    <3>. QED
      BY <2>3, <3>1, <3>2 DEF Holding
  <2>6. c .. c + Zero + Tag + n - 1 = c .. e - 1
    BY <2>4, Zenon
  <2>. QED
    BY <2>5, <2>6
<1>22. BoxSealAnswer("bob", c, m, n) = [sent |-> [ret |-> 0, mem |-> mem], got |-> got]
  BY <1>3, <1>12, <1>18 DEF BoxSealAnswer
<1>23. PICK a : a = BoxSealAnswer("bob", c, m, n)
  OBVIOUS
<1>24. a.sent.mem = mem /\ a.got = [ret |-> 0, mem |-> Written(mem, m, plain)]
  BY <1>20, <1>22, <1>23
<1>. QED
  BY <1>6, <1>21, <1>23, <1>24 DEF BoxSealRight

(* A public key of small order is refused.                                 *)
LEMMA BoxSealSmall ==
    ASSUME NEW c, NEW m, NEW n, BoxSealGiven("small_order", c, m, n)
    PROVE  BoxSealRight("small_order", c, m, n, BoxSealAnswer("small_order", c, m, n))
<1>1. c \in Nat /\ m \in Nat /\ n \in Nat /\ Fits(c, Zero + Tag + n) /\ Fits(m, n)
  BY DEF BoxSealGiven
<1>2. PICK p \in Nat, N \in Nat : /\ p = c + Zero /\ N = Tag + n /\ Fits(p, N) /\ Fits(c, Zero) /\ Fits(p, Tag)
                                  /\ (Zero + Tag + n) - Zero = N /\ ~(Zero + Tag + n < Zero + Tag) /\ ~(N < Tag)
                                  /\ c + Zero + Tag + n = c + (Zero + N) /\ N - Tag = n
  BY <1>1, SealPlaces
<1>3. PICK pk, epk : pk = Pk("small_order") /\ epk = Pk("ephemeral") /\ IsCells(epk) /\ Len(epk) = Zero
  BY PkCells
<1>4. PICK mem : mem = Written(Start, c, epk) /\ IsMemory(mem)
  BY <1>1, <1>3, StartMemory, WrittenAt
<1>5. box_seal(Start, c, m, n, pk) = [ret |-> -1, mem |-> mem]
  <2>1. PICK non : non = seal_nonce(epk, pk)
    OBVIOUS
  <2>2. box_easy(Start, p, m, n, non, pk, "ephemeral") = [ret |-> -1, mem |-> Start]
    BY <1>3, SealSecret DEF box_easy, Refused
  <2>. QED
    BY <1>2, <1>3, <1>4, <2>1, <2>2 DEF box_seal
<1>6. Cells(mem, c, Zero) = epk
  BY <1>1, <1>2, <1>3, <1>4, StartMemory, BoxSizes, ReadBack
<1>7. PICK non, key : non = seal_nonce(epk, pk) /\ key = beforenm(epk, "small_order")
  OBVIOUS
<1>8. PICK s, q : s = Salsa(non, key) /\ q = p + Tag
  OBVIOUS
<1>9. PICK got : got = box_seal_open(mem, m, c, Zero + Tag + n, pk, "small_order")
  OBVIOUS
<1>10. PICK t : t = Cells(mem, p, Tag)
  OBVIOUS
<1>11. got = Opened(mem, m, q, t, n, s)
  <2>1. got = box_open_easy(mem, m, p, N, non, epk, "small_order")
    BY <1>2, <1>6, <1>7, <1>9 DEF box_seal_open
  <2>2. got = secretbox_open_easy(mem, m, p, N, non, key)
    BY <1>2, <1>3, <1>7, <2>1, SealSecret DEF box_open_easy
  <2>. QED
    BY <1>2, <1>8, <1>10, <2>2 DEF secretbox_open_easy
<1>12. t # Mac(PolyKey(s), Cells(mem, q, n))
  <2>1. t = Cells(Start, p, Tag)
    <3>1. c + Len(epk) <= p
      BY <1>1, <1>2, <1>3, BoxSizes
    <3>. QED
      BY <1>1, <1>2, <1>3, <1>4, <1>10, <3>1, StartMemory, BoxSizes, ReadApart
  <2>2. 1 \in 1 .. Tag /\ p + 1 - 1 = p /\ p \in Memory
    BY <1>2, BoxSizes DEF Fits, Memory
  <2>3. t[1] = {<<"byte", p>>}
    BY <2>1, <2>2 DEF Cells, Start
  <2>4. <<"byte", p>> \in t[1] /\ \A i, k, d : <<"byte", p>> # <<"tag", i, k, d>>
    BY <2>3
  <2>. QED
    BY <2>2, <2>4, NotTag
<1>13. got = Refused(mem)
  BY <1>11, <1>12 DEF Opened
<1>14. BoxSealAnswer("small_order", c, m, n) = [sent |-> [ret |-> -1, mem |-> mem], got |-> got]
  BY <1>3, <1>5, <1>9 DEF BoxSealAnswer
<1>. QED
  BY <1>13, <1>14 DEF BoxSealRight, Refused

(* Every call for a sealed box is answered rightly.                        *)
LEMMA BoxSealAnswers ==
    ASSUME NEW pk, NEW c, NEW m, NEW n, BoxSealGiven(pk, c, m, n)
    PROVE  BoxSealRight(pk, c, m, n, BoxSealAnswer(pk, c, m, n))
<1>1. pk = "bob" \/ pk = "small_order"
  BY DEF BoxSealGiven
<1>. QED
  BY <1>1, BoxSealBob, BoxSealSmall

-----------------------------------------------------------------------------
(* The Swift SecretBox                                                     *)

(* The storage of a Swift SecretBox holds the data from its start on.      *)
LEMMA Stored ==
    ASSUME NEW data, IsCells(data)
    PROVE  Storage(data) = Written(Start, 0, data)
<1>1. PICK n \in Nat : n = Len(data)
  BY DEF IsCells
<1>2. PICK w : w = Written(Start, 0, data)
  OBVIOUS
<1>3. Holding(w, Start, 0, n, data)
  BY <1>1, <1>2, StartMemory, WrittenTo
<1>4. PICK v : v = Storage(data)
  OBVIOUS
<1>5. IsMemory(v)
  BY <1>4 DEF Storage, IsMemory
<1>6. ASSUME NEW x \in Memory
      PROVE  v[x] = w[x]
  <2>1. x \in Int /\ x >= 0 /\ x - 0 + 1 = x + 1 /\ 0 + n = n
    BY <1>1, BoxSizes DEF Memory
  <2>2. v[x] = IF x < n THEN data[x + 1] ELSE {<<"byte", x>>}
    BY <1>1, <1>4 DEF Storage
  <2>3. w[x] = IF x < n THEN data[x + 1] ELSE Start[x]
    BY <1>3, <2>1 DEF Holding
  <2>4. Start[x] = {<<"byte", x>>}
    BY DEF Start
  <2>. QED
    BY <2>2, <2>3, <2>4
<1>7. v = w
  BY <1>3, <1>5, <1>6, SameMemory DEF Holding
<1>. QED
  BY <1>2, <1>4, <1>7

(* The answer of SwiftSecretBox, and what OpenedWhole says of it.          *)
SwiftAnswer(n, how) ==
    LET box == SwiftSeal(Plain(n), "nonce", "key")
    IN [box |-> box, opened |-> SwiftOpen(Forged(box, how), "nonce", "key")]

(* What is right for the Swift SecretBox.                                  *)
SwiftRight(n, how, a) ==
    a.opened = IF how = "no" THEN Plain(n)
               ELSE IF Len(Forged(a.box, how)) < Tag THEN "trap" ELSE "invalidData"

(* Two buffers of the Swift SecretBox fit the memory side by side.         *)
LEMMA Buffers ==
    ASSUME NEW n \in Nat, 2 * (n + Tag) <= Room
    PROVE  \E N \in Nat : N = Tag + n /\ Buffer \in Nat /\ Fits(Buffer, N) /\ N <= Buffer /\ Fits(0, N) /\ Fits(0, n) /\ Fits(Buffer, n)
<1>1. PICK q \in Nat : q = Buffer /\ 2 * q <= Room /\ Room <= 2 * q + 1
  <2>1. Room \div 2 \in Nat /\ 2 * (Room \div 2) <= Room /\ Room <= 2 * (Room \div 2) + 1
    BY BoxSizes
  <2>. QED
    BY <2>1 DEF Buffer
<1>2. n + Tag <= q /\ q + (Tag + n) <= Room /\ Tag + n \in Nat /\ Tag + n <= Room /\ n <= Room /\ q + n <= Room
  BY <1>1, BoxSizes
<1>. QED
  BY <1>1, <1>2, BoxSizes DEF Fits

(* SecretBox.seal gives tag and body.                                      *)
LEMMA SwiftSeals ==
    ASSUME NEW n \in Nat, 2 * (n + Tag) <= Room, NEW s, s = Salsa("nonce", "key"), NEW plain, plain = Plain(n),
           NEW body, body = Ciphered(plain, s, Zero), NEW t, t = Mac(PolyKey(s), body)
    PROVE  IsJoin(SwiftSeal(plain, "nonce", "key"), t, body)
<1>1. PICK N \in Nat : N = Tag + n /\ Buffer \in Nat /\ Fits(Buffer, N) /\ N <= Buffer /\ Fits(0, N) /\ Fits(0, n) /\ Fits(Buffer, n)
  BY Buffers
<1>2. IsCells(plain) /\ Len(plain) = n
  BY PlainCells
<1>3. PICK mem : mem = Written(Start, 0, plain) /\ mem = Storage(plain) /\ IsMemory(mem)
  BY <1>2, Stored, StartMemory, WrittenAt
<1>4. Cells(mem, 0, n) = plain
  BY <1>1, <1>2, <1>3, StartMemory, ReadBack
<1>5. PICK box : box = Mac(PolyKey(s), body) \o body
  OBVIOUS
<1>6. secretbox_easy(mem, Buffer, 0, n, "nonce", "key") = Written(mem, Buffer, box)
  <2>1. secretbox_easy(mem, Buffer, 0, n, "nonce", "key") = Sealed(mem, Buffer + Tag, Buffer, 0, n, s)
    BY DEF secretbox_easy
  <2>2. body = Ciphered(Cells(mem, 0, n), s, Zero)
    BY <1>4
  <2>. QED
    BY <1>1, <1>3, <1>5, <2>1, <2>2, SealsEasy
<1>7. IsCells(box) /\ Len(box) = N
  <2>1. t = Mac(PolyKey(s), body) /\ IsCells(t) /\ Len(t) = Tag
    BY MacCells
  <2>2. IsCells(body) /\ Len(body) = n
    BY <1>2, CipheredCells
  <2>3. Joins(box, t, Tag, body, n)
    BY <1>5, <2>1, <2>2, JoinedTo
  <2>. QED
    BY <1>1, <2>3 DEF Joins
<1>8. Cells(Written(mem, Buffer, box), Buffer, N) = box
  BY <1>1, <1>3, <1>7, ReadBack
<1>9. SwiftSeal(plain, "nonce", "key") = Cells(Written(mem, Buffer, box), Buffer, N)
  BY <1>1, <1>2, <1>3, <1>6 DEF SwiftSeal
<1>. QED
  BY <1>5, <1>8, <1>9 DEF IsJoin

(* Every call of the Swift SecretBox is answered rightly.                  *)
LEMMA SwiftAnswers ==
    ASSUME NEW n \in Nat, 2 * (n + Tag) <= Room, NEW how \in Hows
    PROVE  SwiftRight(n, how, SwiftAnswer(n, how))
<1>1. PICK N \in Nat : N = Tag + n /\ Buffer \in Nat /\ Fits(Buffer, N) /\ N <= Buffer /\ Fits(0, N) /\ Fits(0, n) /\ Fits(Buffer, n)
  BY Buffers
<1>2. PICK s, plain : s = Salsa("nonce", "key") /\ plain = Plain(n)
  OBVIOUS
<1>3. PICK body : body = Ciphered(plain, s, Zero)
  OBVIOUS
<1>4. IsCells(plain) /\ Len(plain) = n /\ IsCells(body) /\ Len(body) = n
  BY <1>2, <1>3, PlainCells, PlainKept
<1>5. PICK t : t = Mac(PolyKey(s), body) /\ IsCells(t) /\ Len(t) = Tag
  BY MacCells
<1>6. PICK box : box = SwiftSeal(plain, "nonce", "key") /\ box = t \o body /\ IsJoin(box, t, body)
  <2>1. IsJoin(SwiftSeal(plain, "nonce", "key"), t, body)
    BY <1>2, <1>3, <1>5, SwiftSeals
  <2>. QED
    BY <2>1 DEF IsJoin
<1>7. IsCells(box) /\ Len(box) = N /\ Tag <= N
  <2>1. Joins(box, t, Tag, body, n)
    BY <1>4, <1>5, <1>6, JoinedTo
  <2>. QED
    BY <1>1, <2>1, BoxSizes DEF Joins
<1>8. PICK f : f = Forged(box, how)
  OBVIOUS
<1>9. PICK opened : opened = SwiftOpen(f, "nonce", "key")
  OBVIOUS
<1>10. PICK a : a = SwiftAnswer(n, how) /\ a.box = box /\ a.opened = opened
  <2>1. SwiftAnswer(n, how) = [box |-> box, opened |-> opened]
    BY <1>2, <1>6, <1>8, <1>9 DEF SwiftAnswer
  <2>2. [box |-> box, opened |-> opened].box = box /\ [box |-> box, opened |-> opened].opened = opened
    OBVIOUS
  <2>. QED
    BY <2>1, <2>2
<1>11. ASSUME IsCells(f), NEW L \in Nat, L = Len(f), L >= Tag,
             NEW mem, mem = Written(Start, 0, f),
             NEW r, r = OpenEasy(mem, Buffer, 0, L, s)
       PROVE  opened = IF r.ret # 0 THEN "invalidData" ELSE Cells(r.mem, Buffer, L - Tag)
  <2>1. mem = Storage(f)
    BY <1>11, Stored
  <2>2. ~(L - Tag < 0)
    BY <1>11, BoxSizes
  <2>3. r = secretbox_open_easy(mem, Buffer, 0, L, "nonce", "key")
    BY <1>2, <1>11 DEF secretbox_open_easy, OpenEasy
  <2>. QED
    BY <1>9, <1>11, <2>1, <2>2, <2>3 DEF SwiftOpen
<1>12. Target(Buffer, n)
  BY <1>1 DEF Target
<1>13. CASE how = "no"
  <2>1. f = box
    BY <1>8, <1>13 DEF Forged
  <2>2. PICK mem, r : mem = Written(Start, 0, f) /\ r = OpenEasy(mem, Buffer, 0, N, s)
    OBVIOUS
  <2>3. Ciphered(body, s, Zero) = plain
    BY <1>3, <1>4, CipheredTwice
  <2>4. Given(r, t, t, mem, Buffer, plain, mem)
    BY <1>1, <1>4, <1>5, <1>6, <1>12, <2>1, <2>2, <2>3, StartMemory, OpensEasy
  <2>5. r.ret = 0 /\ r.mem = Written(mem, Buffer, plain)
    BY <1>1, <2>4 DEF Given, Into
  <2>6. IsMemory(mem)
    BY <1>7, <2>1, <2>2, StartMemory, WrittenAt
  <2>7. Cells(r.mem, Buffer, n) = plain
    BY <1>1, <1>4, <2>5, <2>6, ReadBack
  <2>8. N - Tag = n
    BY <1>1, BoxSizes
  <2>9. opened = plain
    BY <1>7, <1>11, <2>1, <2>2, <2>5, <2>7, <2>8
  <2>. QED
    BY <1>2, <1>10, <1>13, <2>9 DEF SwiftRight
<1>14. CASE how \in {"first", "last", "short", "cut"}
  <2>1. IsCells(f) /\ Len(f) \in Nat /\ how # "no"
    BY <1>7, <1>8, <1>14, ForgedCells
  <2>2. PICK L \in Nat : L = Len(f)
    BY <2>1
  <2>3. CASE L < Tag
    <3>1. L - Tag < 0
      BY <2>2, <2>3, BoxSizes
    <3>2. opened = "trap"
      BY <1>9, <2>2, <3>1 DEF SwiftOpen
    <3>. QED
      BY <1>8, <1>10, <2>1, <2>2, <2>3, <3>2 DEF SwiftRight
  <2>4. CASE ~(L < Tag)
    <3>1. PICK mem, r : mem = Written(Start, 0, f) /\ r = OpenEasy(mem, Buffer, 0, L, s)
      OBVIOUS
    <3>2. r = Refused(mem)
      <4>1. PICK o \in Nat, at \in Nat : o = 0 /\ at = Buffer
        BY <1>1
      <4>2. mem = Written(Start, o, f) /\ Fits(o, N) /\ r = OpenEasy(mem, at, o, L, s) /\ Target(at, n)
        BY <1>1, <1>12, <3>1, <4>1
      <4>3. IsCells(body) /\ Len(body) = n /\ t = Mac(PolyKey(s), body) /\ IsJoin(box, t, body) /\ N = Tag + n
        BY <1>1, <1>4, <1>5, <1>6
      <4>4. OpenEasy(mem, at, o, L, s) = Refused(mem)
        BY <1>8, <1>14, <2>2, <4>2, <4>3, StartMemory, OpensForged
      <4>. QED
        BY <4>2, <4>4
    <3>3. r.ret # 0 /\ L >= Tag
      BY <2>4, <3>2, BoxSizes DEF Refused
    <3>4. opened = "invalidData"
      BY <1>11, <2>1, <2>2, <3>1, <3>3
    <3>. QED
      BY <1>8, <1>10, <2>1, <2>2, <2>4, <3>4 DEF SwiftRight
  <2>. QED
    BY <2>3, <2>4
<1>. QED
  BY <1>13, <1>14 DEF Hows

-----------------------------------------------------------------------------
(* The calls of Boxes                                                      *)

(* Calls of Boxes and nothing else.                                        *)
BoxSpec == CallInit /\ [][AskBox \/ AnswerBox \/ Return]_callVars

(* The calls that are made, each with the guards it is asked under.        *)
Sides == {<<TRUE, TRUE>>, <<TRUE, FALSE>>, <<FALSE, TRUE>>}

(* The calls AskBox makes.                                                 *)
IsSeal(k) == \E scheme, c, m, n, ad : SealGiven(scheme, c, m, n, ad) /\ k = SealCall(scheme, c, m, n, ad)
IsOpen(k) == \E scheme, c, m, n, ad, how :
                 OpenGiven(scheme, c, m, n, ad, how) /\ k = OpenCall(scheme, c, m, n, ad, how)
IsBoxSeal(k) == \E pk, c, m, n :
                 BoxSealGiven(pk, c, m, n) /\ k = [fn |-> "box_seal", pk |-> pk, c |-> c, m |-> m, n |-> n]
IsSwift(k) == \E n \in Nat, how \in Hows : 2 * (n + Tag) <= Room /\ k = [fn |-> "SwiftSecretBox", n |-> n, how |-> how]
IsKx(k) == \E one, two \in Sides, peer \in {"bob", "small_order"} :
                 k = [fn |-> "kx", client |-> one, server |-> two, peer |-> peer]

BoxCall(k) == IsSeal(k) \/ IsOpen(k) \/ IsBoxSeal(k) \/ IsSwift(k) \/ IsKx(k) \/ k = Idle

(* What SealedWhole, OpenedWhole and PairedKeys say, of one answer.        *)
Paired(one, two, peer, c, s) ==
    IF peer = "small_order" THEN c.ret = -1
    ELSE /\ c.ret = 0 /\ s.ret = 0
         /\ one = <<TRUE, TRUE>> /\ two = <<TRUE, TRUE>> => c.rx = s.tx /\ c.tx = s.rx /\ c.rx # c.tx
         /\ one # <<TRUE, TRUE>> /\ two # <<TRUE, TRUE>> =>
               (IF one[1] THEN c.rx ELSE c.tx) = (IF two[1] THEN s.rx ELSE s.tx)
         /\ one # <<TRUE, TRUE>> /\ two = <<TRUE, TRUE>> => (IF one[1] THEN c.rx ELSE c.tx) = s.rx

(* The answer to every call is right.                                      *)
BoxRight(k, a) ==
    /\ k.fn = "seal" => SealRight(k.scheme, k.c, k.m, k.n, k.ad, a)
    /\ k.fn = "open" => OpenRight(k.scheme, k.c, k.m, k.n, k.ad, k.how, a)
    /\ k.fn = "box_seal" => BoxSealRight(k.pk, k.c, k.m, k.n, a)
    /\ k.fn = "SwiftSecretBox" => SwiftRight(k.n, k.how, a)
    /\ k.fn = "kx" => Paired(k.client, k.server, k.peer, a.client, a.server)

(* The invariant: a call that may be made and, once answered, rightly      *)
(* answered.                                                               *)
BoxInv == BoxCall(call) /\ (stage = "answered" => BoxRight(call, answer))

(* The calls differ in their names.                                        *)
LEMMA Names ==
    ASSUME NEW k
    PROVE  /\ IsSeal(k) => k.fn = "seal"
           /\ IsOpen(k) => k.fn = "open"
           /\ IsBoxSeal(k) => k.fn = "box_seal"
           /\ IsSwift(k) => k.fn = "SwiftSecretBox"
           /\ IsKx(k) => k.fn = "kx"
           /\ k = Idle => k.fn = "none"
<1>1. IsSeal(k) => k.fn = "seal"
  BY DEF IsSeal, SealCall
<1>2. IsOpen(k) => k.fn = "open"
  BY DEF IsOpen, OpenCall
<1>3. IsBoxSeal(k) => k.fn = "box_seal"
  BY DEF IsBoxSeal
<1>4. IsSwift(k) => k.fn = "SwiftSecretBox"
  BY DEF IsSwift
<1>5. IsKx(k) => k.fn = "kx"
  BY DEF IsKx
<1>6. k = Idle => k.fn = "none"
  BY DEF Idle
<1>. QED
  BY <1>1, <1>2, <1>3, <1>4, <1>5, <1>6

(* Each answer is the one of the call that was made.                       *)
LEMMA SealStep ==
    ASSUME Seals
    PROVE  /\ call' = call /\ stage' = "answered" /\ call.fn = "seal"
           /\ answer' = SealAnswer(call.scheme, call.c, call.m, call.n, call.ad)
<1>1. call' = call /\ stage' = "answered" /\ call.fn = "seal"
  BY DEF Seals, Answer, Called
<1> DEFINE mem == ToSeal(call.scheme, call.m)
           c == call.c
           m == call.m
           n == call.n
           ok(after) == [ret |-> 0, mem |-> after]
<1>2. CASE call.scheme = "secretbox" /\ Answer(ok(secretbox_easy(mem, c, m, n, "nonce", "key")))
  BY <1>1, <1>2 DEF SealAnswer, Answer
<1>3. CASE call.scheme = "xchacha" /\ Answer(ok(secretbox_xchacha_easy(mem, c, m, n, "nonce", "key")))
  BY <1>1, <1>3 DEF SealAnswer, Answer
<1>4. CASE call.scheme = "box" /\ Answer(box_easy(mem, c, m, n, "nonce", Pk("bob"), "alice"))
  BY <1>1, <1>4 DEF SealAnswer, Answer
<1>5. CASE call.scheme = "nacl" /\ Answer(xsalsa20poly1305(mem, c, m, Zero + n, "nonce", "key"))
  BY <1>1, <1>5 DEF SealAnswer, Answer
<1>6. CASE call.scheme = "chacha20poly1305" /\ Answer(ok(chacha20poly1305_encrypt(mem, c, m, n, Ad(call.ad), "nonce", "key")))
  BY <1>1, <1>6 DEF SealAnswer, Answer
<1>7. CASE call.scheme = "ietf" /\ Answer(ok(chacha20poly1305_ietf_encrypt(mem, c, m, n, Ad(call.ad), "nonce", "key")))
  BY <1>1, <1>7 DEF SealAnswer, Answer
<1>8. CASE call.scheme = "xchacha20poly1305" /\ Answer(ok(xchacha20poly1305_encrypt(mem, c, m, n, Ad(call.ad), "nonce", "key")))
  BY <1>1, <1>8 DEF SealAnswer, Answer
<1>. QED
  BY <1>1, <1>2, <1>3, <1>4, <1>5, <1>6, <1>7, <1>8 DEF Seals

(* What opening answers.                                                   *)
LEMMA OpenStep ==
    ASSUME Opens
    PROVE  /\ call' = call /\ stage' = "answered" /\ call.fn = "open"
           /\ answer' = OpenAnswer(call.scheme, call.c, call.m, call.n, call.ad, call.how)
<1>1. call' = call /\ stage' = "answered" /\ call.fn = "open"
  BY DEF Opens, Answer, Called
<1> DEFINE box == CalledBox
           mem == ToOpen
           n == Len(CalledBox)
           c == call.c
           m == call.m
<1>2. CASE call.scheme = "secretbox" /\ Answer(secretbox_open_easy(mem, m, c, n, "nonce", "key"))
  BY <1>1, <1>2 DEF OpenAnswer, Answer, ToOpen, CalledBox
<1>3. CASE call.scheme = "xchacha" /\ Answer(secretbox_xchacha_open_easy(mem, m, c, n, "nonce", "key"))
  BY <1>1, <1>3 DEF OpenAnswer, Answer, ToOpen, CalledBox
<1>4. CASE call.scheme = "box" /\ Answer(box_open_easy(mem, m, c, n, "nonce", Pk("alice"), "bob"))
  BY <1>1, <1>4 DEF OpenAnswer, Answer, ToOpen, CalledBox
<1>5. CASE call.scheme = "nacl" /\ Answer(xsalsa20poly1305_open(mem, m, c, n, "nonce", "key"))
  BY <1>1, <1>5 DEF OpenAnswer, Answer, ToOpen, CalledBox
<1>6. CASE call.scheme = "chacha20poly1305" /\ Answer(chacha20poly1305_decrypt(mem, m, c, n, Ad(call.ad), "nonce", "key"))
  BY <1>1, <1>6 DEF OpenAnswer, Answer, ToOpen, CalledBox
<1>7. CASE call.scheme = "ietf" /\ Answer(chacha20poly1305_ietf_decrypt(mem, m, c, n, Ad(call.ad), "nonce", "key"))
  BY <1>1, <1>7 DEF OpenAnswer, Answer, ToOpen, CalledBox
<1>8. CASE call.scheme = "xchacha20poly1305" /\ Answer(xchacha20poly1305_decrypt(mem, m, c, n, Ad(call.ad), "nonce", "key"))
  BY <1>1, <1>8 DEF OpenAnswer, Answer, ToOpen, CalledBox
<1>. QED
  BY <1>1, <1>2, <1>3, <1>4, <1>5, <1>6, <1>7, <1>8 DEF Opens

(* What the other calls answer.                                            *)
LEMMA OtherSteps ==
    /\ SealsAndOpens => /\ call' = call /\ stage' = "answered" /\ call.fn = "box_seal"
                        /\ answer' = BoxSealAnswer(call.pk, call.c, call.m, call.n)
    /\ SwiftSecretBox => /\ call' = call /\ stage' = "answered" /\ call.fn = "SwiftSecretBox"
                         /\ answer' = SwiftAnswer(call.n, call.how)
    /\ KeyExchange =>
          /\ call' = call /\ stage' = "answered" /\ call.fn = "kx"
          /\ answer'.client = client_session_keys(call.client[1], call.client[2], Pk("alice"), "alice", Pk(call.peer))
          /\ answer'.server = server_session_keys(call.server[1], call.server[2], Pk(call.peer), call.peer, Pk("alice"))
<1>1. SealsAndOpens => /\ call' = call /\ stage' = "answered" /\ call.fn = "box_seal"
                       /\ answer' = BoxSealAnswer(call.pk, call.c, call.m, call.n)
  BY DEF SealsAndOpens, Called, Answer, BoxSealAnswer
<1>2. SwiftSecretBox => /\ call' = call /\ stage' = "answered" /\ call.fn = "SwiftSecretBox"
                        /\ answer' = SwiftAnswer(call.n, call.how)
  BY DEF SwiftSecretBox, Called, Answer, SwiftAnswer
<1>3. KeyExchange =>
          /\ call' = call /\ stage' = "answered" /\ call.fn = "kx"
          /\ answer'.client = client_session_keys(call.client[1], call.client[2], Pk("alice"), "alice", Pk(call.peer))
          /\ answer'.server = server_session_keys(call.server[1], call.server[2], Pk(call.peer), call.peer, Pk("alice"))
  BY DEF KeyExchange, Called, Answer
<1>. QED
  BY <1>1, <1>2, <1>3

(* A call is asked under the guards its answer relies on.                  *)
LEMMA AskSteps ==
    ASSUME AskBox
    PROVE  stage' = "called" /\ BoxCall(call')
<1>0. Places \subseteq Nat /\ Lengths \subseteq Nat /\ 0 \in Nat /\ 1 \in Nat /\ Tag \in Nat
  BY BoxAssumption
<1>1. CASE \E scheme \in Easy, c, m \in Places, n \in Lengths :
               /\ Fits(c, Tag + n) /\ Fits(m, n)
               /\ Ask(SealCall(scheme, c, m, n, 0))
  <2>1. PICK scheme \in Easy, c \in Nat, m \in Nat, n \in Nat :
               Fits(c, Tag + n) /\ Fits(m, n) /\ Ask(SealCall(scheme, c, m, n, 0))
    BY <1>0, <1>1
  <2>2. SealGiven(scheme, c, m, n, 0)
    BY <2>1 DEF SealGiven
  <2>3. stage' = "called" /\ IsSeal(call')
    BY <2>1, <2>2 DEF Ask, IsSeal
  <2>. QED
    BY <2>3 DEF BoxCall
<1>2. CASE \E scheme \in Aeads, c, m \in Places, n \in Lengths, ad \in {0, 1, Tag} :
               /\ Fits(c, Tag + n) /\ Fits(m, n) /\ (c = m \/ Apart(c, m, n + Tag))
               /\ Ask(SealCall(scheme, c, m, n, ad))
  <2>1. PICK scheme \in Aeads, c \in Nat, m \in Nat, n \in Nat, ad \in {0, 1, Tag} :
               /\ Fits(c, Tag + n) /\ Fits(m, n) /\ (c = m \/ Apart(c, m, n + Tag))
               /\ Ask(SealCall(scheme, c, m, n, ad))
    BY <1>0, <1>2
  <2>2. SealGiven(scheme, c, m, n, ad)
    BY <2>1 DEF SealGiven
  <2>3. stage' = "called" /\ IsSeal(call')
    BY <2>1, <2>2 DEF Ask, IsSeal
  <2>. QED
    BY <2>3 DEF BoxCall
<1>3. CASE \E c, m \in Places, n \in Lengths :
               /\ Fits(c, Zero + n) /\ Fits(m, Zero + n) /\ (c = m \/ Apart(c, m, Zero + n))
               /\ Ask(SealCall("nacl", c, m, n, 0))
  <2>1. PICK c \in Nat, m \in Nat, n \in Nat :
               /\ Fits(c, Zero + n) /\ Fits(m, Zero + n) /\ (c = m \/ Apart(c, m, Zero + n))
               /\ Ask(SealCall("nacl", c, m, n, 0))
    BY <1>0, <1>3
  <2>2. SealGiven("nacl", c, m, n, 0)
    BY <2>1 DEF SealGiven
  <2>3. stage' = "called" /\ IsSeal(call')
    BY <2>1, <2>2 DEF Ask, IsSeal
  <2>. QED
    BY <2>3 DEF BoxCall
<1>4. CASE \E scheme \in Easy, c \in Places, m \in Places \union {-1}, n \in Lengths,
                 how \in {"no", "first", "last", "short", "cut"} :
               /\ Fits(c, Tag + n) /\ Fits(m, n)
               /\ Ask(OpenCall(scheme, c, m, n, 0, how))
  <2>1. PICK scheme \in Easy, c \in Nat, m \in Places \union {-1}, n \in Nat, how \in Hows :
               /\ Fits(c, Tag + n) /\ Fits(m, n)
               /\ Ask(OpenCall(scheme, c, m, n, 0, how))
    BY <1>0, <1>4 DEF Hows
  <2>2. Target(m, n)
    BY <1>0, <2>1 DEF Target
  <2>3. OpenGiven(scheme, c, m, n, 0, how)
    BY <1>0, <2>1, <2>2 DEF OpenGiven
  <2>4. stage' = "called" /\ IsOpen(call')
    BY <2>1, <2>3 DEF Ask, IsOpen
  <2>. QED
    BY <2>4 DEF BoxCall
<1>5. CASE \E scheme \in Aeads, c \in Places, m \in Places \union {-1}, n \in Lengths, ad \in {0, 1, Tag},
                 how \in {"no", "first", "last", "short", "cut"} :
               /\ Fits(c, Tag + n) /\ Fits(m, n) /\ (c = m \/ Apart(c, m, n + Tag))
               /\ Ask(OpenCall(scheme, c, m, n, ad, how))
  <2>1. PICK scheme \in Aeads, c \in Nat, m \in Places \union {-1}, n \in Nat, ad \in Nat, how \in Hows :
               /\ Fits(c, Tag + n) /\ Fits(m, n) /\ (c = m \/ Apart(c, m, n + Tag))
               /\ Ask(OpenCall(scheme, c, m, n, ad, how))
    <3>1. {0, 1, Tag} \subseteq Nat
      BY <1>0
    <3>. QED
      BY <1>0, <1>5, <3>1 DEF Hows
  <2>2. Target(m, n)
    BY <1>0, <2>1 DEF Target
  <2>3. OpenGiven(scheme, c, m, n, ad, how)
    BY <1>0, <2>1, <2>2 DEF OpenGiven
  <2>4. stage' = "called" /\ IsOpen(call')
    BY <2>1, <2>3 DEF Ask, IsOpen
  <2>. QED
    BY <2>4 DEF BoxCall
<1>6. CASE \E c, m \in Places, n \in Lengths, how \in {"no", "last", "short"} :
               /\ Fits(c, Zero + n) /\ Fits(m, Zero + n) /\ (c = m \/ Apart(c, m, Zero + n))
               /\ Ask(OpenCall("nacl", c, m, n, 0, how))
  <2>1. PICK c \in Nat, m \in Nat, n \in Nat, how \in {"no", "last", "short"} :
               /\ Fits(c, Zero + n) /\ Fits(m, Zero + n) /\ (c = m \/ Apart(c, m, Zero + n))
               /\ Ask(OpenCall("nacl", c, m, n, 0, how))
    BY <1>0, <1>6
  <2>2. OpenGiven("nacl", c, m, n, 0, how)
    BY <1>0, <2>1 DEF OpenGiven
  <2>3. stage' = "called" /\ IsOpen(call')
    BY <2>1, <2>2 DEF Ask, IsOpen
  <2>. QED
    BY <2>3 DEF BoxCall
<1>7. CASE \E pk \in {"bob", "small_order"}, c, m \in Places, n \in Lengths :
               /\ Fits(c, Zero + Tag + n) /\ Fits(m, n)
               /\ Ask([fn |-> "box_seal", pk |-> pk, c |-> c, m |-> m, n |-> n])
  <2>1. PICK pk \in {"bob", "small_order"}, c \in Nat, m \in Nat, n \in Nat :
               /\ Fits(c, Zero + Tag + n) /\ Fits(m, n)
               /\ Ask([fn |-> "box_seal", pk |-> pk, c |-> c, m |-> m, n |-> n])
    BY <1>0, <1>7
  <2>2. BoxSealGiven(pk, c, m, n)
    BY <2>1 DEF BoxSealGiven
  <2>3. stage' = "called" /\ IsBoxSeal(call')
    BY <2>1, <2>2 DEF Ask, IsBoxSeal
  <2>. QED
    BY <2>3 DEF BoxCall
<1>8. CASE \E n \in Lengths, how \in {"no", "first", "last", "short", "cut"} :
               /\ 2 * (n + Tag) <= Room
               /\ Ask([fn |-> "SwiftSecretBox", n |-> n, how |-> how])
  <2>1. PICK n \in Nat, how \in Hows : 2 * (n + Tag) <= Room /\ Ask([fn |-> "SwiftSecretBox", n |-> n, how |-> how])
    BY <1>0, <1>8 DEF Hows
  <2>2. stage' = "called" /\ IsSwift(call')
    BY <2>1 DEF Ask, IsSwift
  <2>. QED
    BY <2>2 DEF BoxCall
<1>9. CASE \E one, two \in {<<TRUE, TRUE>>, <<TRUE, FALSE>>, <<FALSE, TRUE>>}, peer \in {"bob", "small_order"} :
               Ask([fn |-> "kx", client |-> one, server |-> two, peer |-> peer])
  <2>1. stage' = "called" /\ IsKx(call')
    BY <1>9, Zenon DEF Ask, IsKx, Sides
  <2>. QED
    BY <2>1 DEF BoxCall
<1>. QED
  BY <1>1, <1>2, <1>3, <1>4, <1>5, <1>6, <1>7, <1>8, <1>9, Zenon DEF AskBox

(* Which of the two buffers are there.                                     *)
LEMMA Chosen ==
    ASSUME NEW side \in Sides
    PROVE  side = <<TRUE, TRUE>> <=> side[1] /\ side[2]
<1>1. CASE side = <<TRUE, TRUE>>
  <2>. side[1] = TRUE /\ side[2] = TRUE
    BY <1>1
  <2>. QED
    BY <1>1
<1>2. CASE side = <<TRUE, FALSE>>
  <2>. side[2] = FALSE /\ <<TRUE, TRUE>>[2] = TRUE
    BY <1>2
  <2>. QED
    BY Zenon
<1>3. CASE side = <<FALSE, TRUE>>
  <2>. side[1] = FALSE /\ <<TRUE, TRUE>>[1] = TRUE
    BY <1>3
  <2>. QED
    BY Zenon
<1>. QED
  BY <1>1, <1>2, <1>3 DEF Sides

(* What the two functions answer has the keys paired.                      *)
LEMMA KxAnswers ==
    ASSUME NEW one \in Sides, NEW two \in Sides, NEW peer \in {"bob", "small_order"}
    PROVE  Paired(one, two, peer,
                  client_session_keys(one[1], one[2], Pk("alice"), "alice", Pk(peer)),
                  server_session_keys(two[1], two[2], Pk(peer), peer, Pk("alice")))
<1> DEFINE c == client_session_keys(one[1], one[2], Pk("alice"), "alice", Pk(peer))
           s == server_session_keys(two[1], two[2], Pk(peer), peer, Pk("alice"))
<1> DEFINE K(i) == Half({"alice", "bob"}, Pk("alice"), Pk("bob"), i)
<1>1. CASE peer = "small_order"
  <2>1. c = [ret |-> -1]
    BY <1>1, OneSecret DEF client_session_keys
  <2>. QED
    BY <1>1, <2>1 DEF Paired
<1>2. CASE peer = "bob"
  <2>1. c = [ret |-> 0, rx |-> IF one[2] /\ one[1] THEN K(1) ELSE K(2), tx |-> K(2)]
    BY <1>2, OneSecret DEF client_session_keys
  <2>2. s = [ret |-> 0, rx |-> K(2), tx |-> IF two[2] /\ two[1] THEN K(1) ELSE K(2)]
    BY <1>2, OneSecret DEF server_session_keys
  <2>3. K(1) # K(2)
    BY DEF Half
  <2> HIDE DEF K
  <2>4. /\ c.ret = 0 /\ c.tx = K(2) /\ s.ret = 0 /\ s.rx = K(2)
        /\ one[1] /\ one[2] => c.rx = K(1)
        /\ ~(one[1] /\ one[2]) => c.rx = K(2)
        /\ two[1] /\ two[2] => s.tx = K(1)
        /\ ~(two[1] /\ two[2]) => s.tx = K(2)
    BY <2>1, <2>2
  <2> HIDE DEF c, s
  <2>5. Paired(one, two, peer, c, s)
    BY <1>2, <2>3, <2>4, Chosen DEF Paired
  <2>. QED
    BY <2>5 DEF c, s
<1>. QED
  BY <1>1, <1>2

(* Every answer is right for its call.                                     *)
LEMMA AnswerSteps ==
    ASSUME BoxInv, AnswerBox
    PROVE  call' = call /\ stage' = "answered" /\ BoxRight(call', answer')
<1>0. BoxCall(call)
  BY DEF BoxInv
<1>1. CASE Seals
  <2>1. /\ call' = call /\ stage' = "answered" /\ call.fn = "seal"
        /\ answer' = SealAnswer(call.scheme, call.c, call.m, call.n, call.ad)
    BY <1>1, SealStep
  <2>2. IsSeal(call)
    BY <1>0, <2>1, Names DEF BoxCall
  <2>3. PICK scheme, c, m, n, ad : SealGiven(scheme, c, m, n, ad) /\ call = SealCall(scheme, c, m, n, ad)
    BY <2>2 DEF IsSeal
  <2>4. call.scheme = scheme /\ call.c = c /\ call.m = m /\ call.n = n /\ call.ad = ad
    BY <2>3 DEF SealCall
  <2>5. SealRight(call.scheme, call.c, call.m, call.n, call.ad, answer')
    BY <2>1, <2>3, <2>4, SealAnswers
  <2>. QED
    BY <2>1, <2>5 DEF BoxRight
<1>2. CASE Opens
  <2>1. /\ call' = call /\ stage' = "answered" /\ call.fn = "open"
        /\ answer' = OpenAnswer(call.scheme, call.c, call.m, call.n, call.ad, call.how)
    BY <1>2, OpenStep
  <2>2. IsOpen(call)
    BY <1>0, <2>1, Names DEF BoxCall
  <2>3. PICK scheme, c, m, n, ad, how : OpenGiven(scheme, c, m, n, ad, how) /\ call = OpenCall(scheme, c, m, n, ad, how)
    BY <2>2 DEF IsOpen
  <2>4. call.scheme = scheme /\ call.c = c /\ call.m = m /\ call.n = n /\ call.ad = ad /\ call.how = how
    BY <2>3 DEF OpenCall
  <2>5. OpenRight(call.scheme, call.c, call.m, call.n, call.ad, call.how, answer')
    BY <2>1, <2>3, <2>4, OpenAnswers
  <2>. QED
    BY <2>1, <2>5 DEF BoxRight
<1>3. CASE SealsAndOpens
  <2>1. /\ call' = call /\ stage' = "answered" /\ call.fn = "box_seal"
        /\ answer' = BoxSealAnswer(call.pk, call.c, call.m, call.n)
    BY <1>3, OtherSteps
  <2>2. IsBoxSeal(call)
    BY <1>0, <2>1, Names DEF BoxCall
  <2>3. PICK pk, c, m, n : BoxSealGiven(pk, c, m, n) /\ call = [fn |-> "box_seal", pk |-> pk, c |-> c, m |-> m, n |-> n]
    BY <2>2 DEF IsBoxSeal
  <2>4. call.pk = pk /\ call.c = c /\ call.m = m /\ call.n = n
    BY <2>3
  <2>5. BoxSealRight(call.pk, call.c, call.m, call.n, answer')
    BY <2>1, <2>3, <2>4, BoxSealAnswers
  <2>. QED
    BY <2>1, <2>5 DEF BoxRight
<1>4. CASE SwiftSecretBox
  <2>1. /\ call' = call /\ stage' = "answered" /\ call.fn = "SwiftSecretBox"
        /\ answer' = SwiftAnswer(call.n, call.how)
    BY <1>4, OtherSteps
  <2>2. IsSwift(call)
    BY <1>0, <2>1, Names DEF BoxCall
  <2>3. PICK n \in Nat, how \in Hows : 2 * (n + Tag) <= Room /\ call = [fn |-> "SwiftSecretBox", n |-> n, how |-> how]
    BY <2>2 DEF IsSwift
  <2>4. call.n = n /\ call.how = how
    BY <2>3
  <2>5. SwiftRight(call.n, call.how, answer')
    BY <2>1, <2>3, <2>4, SwiftAnswers
  <2>. QED
    BY <2>1, <2>5 DEF BoxRight
<1>5. CASE KeyExchange
  <2>1. /\ call' = call /\ stage' = "answered" /\ call.fn = "kx"
        /\ answer'.client = client_session_keys(call.client[1], call.client[2], Pk("alice"), "alice", Pk(call.peer))
        /\ answer'.server = server_session_keys(call.server[1], call.server[2], Pk(call.peer), call.peer, Pk("alice"))
    BY <1>5, OtherSteps
  <2>2. IsKx(call)
    BY <1>0, <2>1, Names DEF BoxCall
  <2>3. call.client \in Sides /\ call.server \in Sides /\ call.peer \in {"bob", "small_order"}
    BY <2>2 DEF IsKx
  <2>4. Paired(call.client, call.server, call.peer, answer'.client, answer'.server)
    BY <2>1, <2>3, KxAnswers
  <2>. QED
    BY <2>1, <2>4 DEF BoxRight
<1>. QED
  BY <1>1, <1>2, <1>3, <1>4, <1>5 DEF AnswerBox

(* The invariant: every call is one that may be made, and every answer is  *)
(* right for its call.                                                     *)
LEMMA BoxInvariant == BoxSpec => []BoxInv
<1>1. CallInit => BoxInv
  BY DEF CallInit, BoxInv, BoxCall
<1>2. BoxInv /\ [AskBox \/ AnswerBox \/ Return]_callVars => BoxInv'
  <2> SUFFICES ASSUME BoxInv, [AskBox \/ AnswerBox \/ Return]_callVars
               PROVE  BoxInv'
    OBVIOUS
  <2>1. CASE AskBox
    <3>1. stage' = "called" /\ BoxCall(call')
      BY <2>1, AskSteps
    <3>. QED
      BY <3>1 DEF BoxInv
  <2>2. CASE AnswerBox
    <3>1. call' = call /\ stage' = "answered" /\ BoxRight(call', answer')
      BY <2>2, AnswerSteps
    <3>2. BoxCall(call')
      BY <3>1 DEF BoxInv
    <3>. QED
      BY <3>1, <3>2 DEF BoxInv
  <2>3. CASE Return
    <3>1. stage' = "idle" /\ call' = Idle
      BY <2>3 DEF Return
    <3>2. BoxCall(call')
      BY <3>1 DEF BoxCall
    <3>. QED
      BY <3>1, <3>2 DEF BoxInv
  <2>4. CASE UNCHANGED callVars
    BY <2>4 DEF callVars, BoxInv
  <2>. QED
    BY <2>1, <2>2, <2>3, <2>4
<1>. QED
  BY <1>1, <1>2, PTL DEF BoxSpec

(* Sealing writes the box its scheme defines and nothing else, wherever in *)
(* the caller's memory the message and the box are, whatever they share    *)
(* (crypto_secretbox_detached, crypto_box_seal and the AEADs' encrypt).    *)
THEOREM Sealing == BoxSpec => []SealedWhole
<1>1. BoxInv => SealedWhole
  <2> SUFFICES ASSUME BoxInv
               PROVE  SealedWhole
    OBVIOUS
  <2>1. ASSUME Answered({"seal"})
        PROVE  SealRight(call.scheme, call.c, call.m, call.n, call.ad, answer)
    BY <2>1 DEF BoxInv, BoxRight, Answered
  <2>2. ASSUME Answered({"box_seal"})
        PROVE  BoxSealRight(call.pk, call.c, call.m, call.n, answer)
    BY <2>2 DEF BoxInv, BoxRight, Answered
  <2>. QED
    BY <2>1, <2>2, Zenon DEF SealedWhole, SealRight, BoxSealRight
<1>. QED
  BY <1>1, BoxInvariant, PTL

(* Opening gives the message of an untouched box and nothing of a forged   *)
(* one, also into memory it shares with the box (crypto_secretbox_open,    *)
(* the AEADs' decrypt, SecretBox.open).                                    *)
THEOREM Opening == BoxSpec => []OpenedWhole
<1>1. BoxInv => OpenedWhole
  <2> SUFFICES ASSUME BoxInv
               PROVE  OpenedWhole
    OBVIOUS
  <2>1. ASSUME Answered({"open"})
        PROVE  OpenRight(call.scheme, call.c, call.m, call.n, call.ad, call.how, answer)
    BY <2>1 DEF BoxInv, BoxRight, Answered
  <2>2. ASSUME Answered({"SwiftSecretBox"})
        PROVE  SwiftRight(call.n, call.how, answer)
    BY <2>2 DEF BoxInv, BoxRight, Answered
  <2>. QED
    BY <2>1, <2>2, Zenon DEF OpenedWhole, OpenRight, SwiftRight, Into, ToOpen, CalledBox
<1>. QED
  BY <1>1, BoxInvariant, PTL

(* Client and server agree on their keys, whichever of the two buffers     *)
(* each of them passes, and a peer with a key of small order is refused    *)
(* (crypto_kx_client_session_keys, crypto_kx_server_session_keys).         *)
THEOREM Pairing == BoxSpec => []PairedKeys
<1>1. BoxInv => PairedKeys
  <2> SUFFICES ASSUME BoxInv
               PROVE  PairedKeys
    OBVIOUS
  <2>1. ASSUME Answered({"kx"})
        PROVE  Paired(call.client, call.server, call.peer, answer.client, answer.server)
    BY <2>1 DEF BoxInv, BoxRight, Answered
  <2>. QED
    BY <2>1, Zenon DEF PairedKeys, Paired
<1>. QED
  BY <1>1, BoxInvariant, PTL
=============================================================================
