------------------------- MODULE GuardedHeapProofs -------------------------
(***************************************************************************)
(* Proofs about GuardedHeap, for every size of a page, of a canary, of the *)
(* address space and of the allocations, where an application allocates    *)
(* after sodium_init only and mprotect may fail.                           *)
(***************************************************************************)
EXTENDS GuardedHeap, Integers, TLAPS
-----------------------------------------------------------------------------
(* Multiples of the size of a page                                         *)

(* Multiplication keeps the order.                                         *)
LEMMA Ordered == \A a, b, h \in Nat : a <= b => a * h <= b * h
OBVIOUS

(* Products are naturals, and distribute.                                  *)
LEMMA Distributed ==
    \A a, b, h \in Nat : a * h \in Nat /\ (a + 1) * h = a * h + h /\ (a + b) * h = a * h + b * h
OBVIOUS

(* A natural is its quotient times the divisor, plus the remainder.        *)
LEMMA Division ==
    ASSUME NEW n \in Nat, NEW h \in Nat \ {0}
    PROVE  n \div h \in Nat /\ n % h \in 0 .. h - 1 /\ n = (n \div h) * h + (n % h)
<1>1. n \div h \in Nat
  OBVIOUS
<1>2. n % h \in 0 .. h - 1
  OBVIOUS
<1>3. n = (n \div h) * h + (n % h)
  OBVIOUS
<1>. QED
  BY <1>1, <1>2, <1>3

(* What rounding down to a multiple gives.                                 *)
LEMMA Floor ==
    ASSUME NEW n \in Nat, NEW h \in Nat \ {0}
    PROVE  \E q \in Nat : q = n \div h /\ q * h <= n /\ n < q * h + h /\ n - (n % h) = q * h
<1> DEFINE q == n \div h
<1>1. q \in Nat /\ q * h <= n /\ n < q * h + h /\ n - (n % h) = q * h
  BY Division
<1>. QED
  BY <1>1

(* A multiple below the next one of b is one of at most b.                 *)
LEMMA Before ==
    ASSUME NEW a \in Nat, NEW b \in Nat, NEW h \in Nat \ {0}, a * h < b * h + h
    PROVE  a <= b
<1> SUFFICES ASSUME b + 1 <= a
             PROVE  FALSE
  OBVIOUS
<1>1. (b + 1) * h <= a * h
  BY Ordered
<1>. QED
  BY <1>1, Distributed

(* A number between two multiples has the lower one as its quotient.       *)
LEMMA Quotient ==
    ASSUME NEW p \in Nat, NEW h \in Nat \ {0}, NEW n \in Nat, p * h <= n, n < p * h + h
    PROVE  n \div h = p /\ n - (n % h) = p * h
<1>1. PICK q \in Nat : q = n \div h /\ q * h <= n /\ n < q * h + h /\ n - (n % h) = q * h
  BY Floor
<1>2. q <= p
  BY <1>1, Before, Distributed
<1>3. p <= q
  BY <1>1, Before, Distributed
<1>. QED
  BY <1>1, <1>2, <1>3

(* A multiple divides without remainder.                                   *)
LEMMA Multiple ==
    ASSUME NEW p \in Nat, NEW h \in Nat \ {0}
    PROVE  (p * h) \div h = p /\ (p * h) % h = 0
<1>1. PICK n \in Nat : n = p * h
  BY Distributed
<1>2. n \div h = p /\ n - (n % h) = p * h
  <2>1. p * h <= n /\ n < p * h + h
    BY <1>1
  <2>. QED
    BY <2>1, Quotient
<1>3. n % h \in 0 .. h - 1
  BY Division
<1>4. n \div h = p /\ n % h = 0
  BY <1>1, <1>2, <1>3
<1>. QED
  BY <1>1, <1>4

(* The sizes that the assumptions on the constants give.                   *)
LEMMA Hard == Hardware \in Nat \ {0} /\ CANARY_SIZE \in 1 .. Hardware - 1 /\ Pages \in Nat
BY PageAssumption, BoundsAssumption

(* An address between the beginnings of two pages is in a page between.    *)
LEMMA Between ==
    ASSUME NEW i \in Nat, NEW j \in Nat, NEW a \in Nat, i * Hardware <= a, a < j * Hardware
    PROVE  PageOf(a) \in i .. j - 1
<1>1. PageOf(a) \in Nat /\ PageOf(a) * Hardware <= a /\ a < PageOf(a) * Hardware + Hardware
  BY Division, Hard DEF PageOf
<1>2. i <= PageOf(a)
  BY <1>1, Before, Hard, Distributed
<1>3. PageOf(a) < j
  <2> SUFFICES ASSUME j <= PageOf(a)
               PROVE  FALSE
    BY <1>1
  <2>1. j * Hardware <= PageOf(a) * Hardware
    BY <1>1, Ordered, Hard
  <2>. QED
    BY <1>1, <2>1, Distributed, Hard
<1>. QED
  BY <1>1, <1>2, <1>3

(* A page starts at the multiple of the hardware page of its number.       *)
LEMMA PageAt == ASSUME NEW i \in Nat, NEW n, n = i * Hardware PROVE PageOf(n) = i
BY Multiple, Hard DEF PageOf

(* Whole pages from the start of a page are the pages of their numbers.    *)
LEMMA PagesOfRun ==
    ASSUME NEW i \in Nat, NEW j \in Nat, i + j <= Pages,
           NEW first, NEW length, first = i * Hardware, length = j * Hardware
    PROVE  PagesOf(first, length) = i .. i + j - 1
<1>1. first \div Hardware = i
  BY Multiple, Hard
<1>2. i * Hardware + j * Hardware = (i + j) * Hardware
  BY Distributed, Hard
<1>3. ASSUME NEW p \in Nat
      PROVE  p * Hardware < (i + j) * Hardware <=> p < i + j
  <2>1. CASE p < i + j
    <3>1. (p + 1) * Hardware <= (i + j) * Hardware
      BY <2>1, Ordered, Hard
    <3>. QED
      BY <2>1, <3>1, Distributed, Hard
  <2>2. CASE i + j <= p
    BY <2>2, Ordered, Distributed, Hard
  <2>. QED
    BY <2>1, <2>2
<1>. QED
  BY <1>1, <1>2, <1>3, Hard DEF PagesOf, Page

(* An address rounds down to the start of its page.                        *)
LEMMA RoundedDown ==
    ASSUME page_size = Hardware, NEW i \in Nat, NEW n \in Nat,
           i * Hardware <= n, n < i * Hardware + Hardware
    PROVE  RoundDown(n) = i * Hardware
BY Quotient, Hard DEF RoundDown

(* What is asked for, with the canary, rounded up to pages; and whatever   *)
(* passes the test of the size and asks mmap for something has not wrapped.*)
LEMMA Rounded ==
    ASSUME page_size = Hardware, NEW size \in 0 .. SIZE_MAX, ~TooBig(size), Total(size) > 0
    PROVE  \E k \in Nat \ {0} : /\ Unprotected(size) = k * Hardware
                                /\ Unprotected(size) <= SIZE_MAX
                                /\ CANARY_SIZE + size <= k * Hardware
                                /\ k * Hardware < CANARY_SIZE + size + Hardware
                                /\ Total(size) = (k + 3) * Hardware
<1> DEFINE n == CANARY_SIZE + size + Hardware - 1
           k == n \div Hardware
<1>1. /\ n \in Nat /\ n < SIZE_MAX + 1 /\ SIZE_MAX \in Nat
      /\ CANARY_SIZE + size < SIZE_MAX + 1 /\ CANARY_SIZE + size \in Nat
      /\ n + 2 * Hardware < SIZE_MAX
  BY Hard, SizeAssumption DEF TooBig
<1>2. \A i \in Nat : i < SIZE_MAX + 1 => Size_t(i) = i
  BY <1>1 DEF Size_t
<1>3. k \in Nat /\ k * Hardware <= n /\ n < k * Hardware + Hardware
  BY <1>1, Division, Hard
<1>4. Unprotected(size) = k * Hardware
  <2>1. Size_t(CANARY_SIZE + size) = CANARY_SIZE + size
    BY <1>1, <1>2
  <2>2. Size_t(CANARY_SIZE + size + page_size - 1) = n
    BY <1>1, <1>2
  <2>. QED
    BY <1>1, <1>3, <2>1, <2>2, RoundedDown DEF Unprotected, PageRound
<1> HIDE DEF k
<1>5. k # 0
  <2>1. 0 * Hardware = 0
    BY Hard
  <2>. QED
    BY <1>1, <1>3, <2>1, Hard
<1>6. Total(size) = (k + 3) * Hardware
  <2>1. PICK z \in Nat : SIZE_MAX + 1 = z * Hardware
    BY SizeAssumption
  <2>2. (k + 3) * Hardware = k * Hardware + 3 * Hardware /\ (k + 3) * Hardware \in Nat
    BY <1>3, Distributed, Hard
  <2>3. Total(size) = Size_t((k + 3) * Hardware)
    <3>1. 3 * Hardware + k * Hardware = (k + 3) * Hardware
      <4>1. k * Hardware \in Nat /\ 3 * Hardware \in Nat
        BY <1>3, Distributed, Hard
      <4>. QED
        BY <2>2, <4>1
    <3>2. 3 * page_size + Unprotected(size) = (k + 3) * Hardware
      BY <1>4, <3>1
    <3>. QED
      BY <3>2 DEF Total
  <2>4. k + 3 <= z
    BY <1>1, <1>3, <2>1, <2>2, Before, Hard
  <2>5. k + 3 # z
    <3> SUFFICES ASSUME k + 3 = z
                 PROVE  FALSE
      OBVIOUS
    <3>1. Total(size) = (SIZE_MAX + 1) % (SIZE_MAX + 1)
      BY <2>1, <2>3 DEF Size_t
    <3>2. Total(size) = 0
      BY <1>1, <3>1
    <3>. QED
      BY <3>2
  <2>6. (k + 4) * Hardware <= z * Hardware
    BY <1>3, <2>4, <2>5, Ordered, Hard
  <2>7. (k + 4) * Hardware = (k + 3) * Hardware + Hardware
    BY <1>3, Distributed, Hard
  <2>. QED
    BY <1>2, <2>1, <2>2, <2>3, <2>6, <2>7, Hard
<1>7. k * Hardware \in Nat
  BY <1>3, Distributed, Hard
<1>. QED
  BY <1>1, <1>3, <1>4, <1>5, <1>6, <1>7, Hard
-----------------------------------------------------------------------------
(* The layout of an allocation: a header and a guard page, the region that *)
(* the application may protect, and a guard page.                          *)
First(m) == PageOf(m.ptr - CANARY_SIZE) - 2
Last(m)  == PageOf(m.ptr + m.size)

LaidOut(m) ==
    /\ m.ptr \in Nat /\ m.size \in Nat
    /\ First(m) \in Nat \ {0} /\ Last(m) \in Nat /\ First(m) + 3 <= Last(m) /\ Last(m) < Pages
    /\ m.pages = First(m) .. Last(m)
    /\ (First(m) + 2) * Hardware <= m.ptr - CANARY_SIZE
    /\ m.ptr - CANARY_SIZE < (First(m) + 2) * Hardware + Hardware
    /\ m.ptr + m.size = Last(m) * Hardware

Region(m)  == First(m) + 2 .. Last(m) - 1
Guarded(m) == prot[First(m)] = "read" /\ prot[First(m) + 1] = "none" /\ prot[Last(m)] = "none"

(* The addresses of an allocation and of its canary are those of a region. *)
LEMMA InRegion ==
    ASSUME NEW m, LaidOut(m), NEW a \in Nat, m.ptr - CANARY_SIZE <= a, a < m.ptr + m.size
    PROVE  PageOf(a) \in Region(m) /\ a \in Address
<1>1. PageOf(a) \in Region(m)
  <2> DEFINE i == First(m) + 2
             j == Last(m)
  <2>1. i \in Nat /\ j \in Nat /\ i * Hardware <= m.ptr - CANARY_SIZE /\ m.ptr + m.size = j * Hardware
    BY DEF LaidOut
  <2>2. i * Hardware \in Nat /\ m.ptr \in Nat
    BY <2>1, Distributed, Hard DEF LaidOut
  <2> HIDE DEF i, j
  <2>3. i * Hardware <= a /\ a < j * Hardware
    BY <2>1, <2>2, Hard
  <2>4. PageOf(a) \in i .. j - 1
    BY <2>1, <2>3, Between
  <2>. QED
    BY <2>4 DEF i, j, Region
<1>2. Last(m) * Hardware <= Pages * Hardware
  BY Ordered, Hard, SMTT(30) DEF LaidOut
<1>. QED
  BY <1>1, <1>2, Distributed, Hard DEF LaidOut, Address

(* From the pointer alone, the arithmetic of sodium_free finds the start   *)
(* of the region and of the whole mapping.                                 *)
LEMMA FoundFrom ==
    ASSUME NEW m, LaidOut(m), page_size = Hardware
    PROVE  /\ UnprotectedFrom(m.ptr) = (First(m) + 2) * Hardware
           /\ UnprotectedFrom(m.ptr) - 2 * page_size = First(m) * Hardware
           /\ PageOf(First(m) * Hardware) = First(m)
           /\ First(m) * Hardware \in Address
           /\ UnprotectedFrom(m.ptr) > 2 * page_size
<1>1. UnprotectedFrom(m.ptr) = (First(m) + 2) * Hardware
  <2> DEFINE i == First(m) + 2
             n == m.ptr - CANARY_SIZE
  <2>1. i \in Nat /\ i * Hardware <= n /\ n < i * Hardware + Hardware /\ n \in Int
    BY Hard, SMTT(30) DEF LaidOut
  <2>2. i * Hardware \in Nat
    BY <2>1, Distributed, Hard
  <2> HIDE DEF i, n
  <2>3. RoundDown(n) = i * Hardware
    BY <2>1, <2>2, RoundedDown
  <2>. QED
    BY <2>3 DEF i, n, UnprotectedFrom
<1>2. (First(m) + 2) * Hardware = First(m) * Hardware + 2 * Hardware
  BY Distributed, Hard DEF LaidOut
<1>3. PageOf(First(m) * Hardware) = First(m)
  BY Multiple, Hard DEF LaidOut, PageOf
<1>4. First(m) * Hardware \in Nat /\ First(m) * Hardware # 0
  <2>0. First(m) \in Nat /\ 1 <= First(m) /\ 1 \in Nat /\ Hardware \in Nat
    BY Hard DEF LaidOut
  <2>1. 1 * Hardware <= First(m) * Hardware
    BY <2>0, Ordered
  <2>. QED
    BY <2>1, Distributed, Hard DEF LaidOut
<1>5. (First(m) + 1) * Hardware <= Pages * Hardware
  BY Ordered, Hard, SMTT(30) DEF LaidOut
<1>6. (First(m) + 1) * Hardware = First(m) * Hardware + Hardware
  BY Distributed, Hard DEF LaidOut
<1>7. Pages * Hardware \in Nat
  BY Distributed, Hard
<1>. QED
  BY <1>1, <1>2, <1>3, <1>4, <1>5, <1>6, <1>7, Hard DEF Address
-----------------------------------------------------------------------------
(* The invariant                                                           *)
Modes == {"unmapped", "none", "read", "write"}
Ended == {"segv", "killed", "misuse"}

TypeInv ==
    /\ page_size \in {Default, Hardware} /\ canary \in {"zero", "canary"}
    /\ prot \in [Page -> Modes]
    /\ byte \in [Address -> {"zero", "canary", "fill", "data"}]
    /\ number \in [Page -> 0 .. SIZE_MAX]
    /\ failed \in BOOLEAN
    /\ process \in {"running"} \union Ended

SetUpInv ==
    /\ canary = "canary" => page_size = Hardware
    /\ live # {} => canary = "canary"

LayoutInv ==
    /\ \A m \in live : /\ LaidOut(m)
                       /\ number[First(m)] = (Last(m) - First(m) - 2) * Hardware
                       /\ prot[First(m)] \in Read
    /\ \A m, n \in live : m = n \/ m.pages \intersect n.pages = {}

MappedInv == {p \in Page : prot[p] # "unmapped"} = UNION {m.pages : m \in live}

GuardInv == ~failed => \A m \in live : Guarded(m)

(* A canary has changed if and only if it was overwritten.                 *)
CanaryInv ==
    /\ \A m \in live : m.ptr \in smashed <=> ~CanaryIntact(m.ptr)
    /\ \A ptr \in smashed : \E m \in live : m.ptr = ptr
    /\ process = "killed" => smashed # {}

DataInv ==
    ~failed => \A a \in Address : byte[a] = "data" => \E m \in live : PageOf(a) \in Region(m)

HeapInv ==
    /\ TypeInv /\ SetUpInv /\ LayoutInv /\ MappedInv /\ GuardInv
    /\ CanaryInv /\ DataInv
-----------------------------------------------------------------------------
(* What a step does, in terms of the layout                                *)
Ending ==
    /\ process' \in Ended
    /\ process' = "killed" => \E m \in live : ~CanaryIntact(m.ptr)
    /\ UNCHANGED <<page_size, canary, memory, live, smashed, failed>>

Placed(m) ==
    /\ page_size = Hardware /\ canary = "canary" /\ LaidOut(m)
    /\ \A p \in m.pages : prot[p] = "unmapped"
    /\ live' = live \union {m}
    /\ prot' \in [Page -> Modes]
    /\ \A p \in Page : IF p \in m.pages THEN prot'[p] # "unmapped" ELSE prot'[p] = prot[p]
    /\ prot'[First(m)] \in Read
    /\ failed' \in BOOLEAN /\ (~failed' => ~failed /\ Guarded(m)')
    /\ byte' = Filled(m.ptr, m.size)
    /\ number' = [number EXCEPT ![First(m)] = (Last(m) - First(m) - 2) * Hardware]
    /\ number'[First(m)] \in 0 .. SIZE_MAX
    /\ UNCHANGED <<page_size, canary, smashed, process>>

Filling(m) ==
    /\ byte' = [a \in Address |-> IF a \in m.ptr .. m.ptr + m.size - 1 THEN "data" ELSE byte[a]]
    /\ UNCHANGED <<page_size, canary, prot, number, live, smashed, failed, process>>

Straying(a) ==
    /\ May(a, Write)
    /\ byte' = [byte EXCEPT ![a] = "data"]
    /\ smashed' = smashed \union
           {n.ptr : n \in {l \in live : a \in l.ptr - CANARY_SIZE .. l.ptr - 1}}
    /\ UNCHANGED <<page_size, canary, prot, number, live, failed, process>>

Protecting(m, mode) ==
    /\ prot' = [p \in Page |-> IF p \in Region(m) THEN mode ELSE prot[p]] \/ prot' = prot
    /\ failed' \in BOOLEAN /\ (failed => failed')
    /\ UNCHANGED <<page_size, canary, byte, number, live, smashed, process>>

Freeing(m) ==
    /\ CanaryIntact(m.ptr)
    /\ byte' = [a \in Address |->
                   IF (First(m) + 2) * Hardware <= a /\ a < Last(m) * Hardware THEN "zero" ELSE byte[a]]
    /\ prot' = [p \in Page |-> IF p \in m.pages THEN "unmapped" ELSE prot[p]]
    /\ number' = [p \in Page |-> IF p \in m.pages THEN 0 ELSE number[p]]
    /\ live' = live \ {m}
    /\ failed' \in BOOLEAN /\ (failed => failed')
    /\ UNCHANGED <<page_size, canary, smashed, process>>

Steps ==
    \/ AllocInit \/ Ending
    \/ \E m : Placed(m)
    \/ \E m \in live : \/ Filling(m) \/ Freeing(m)
                       \/ \E mode \in {"none", "read", "write"} : Protecting(m, mode)
    \/ \E a \in Nat : Straying(a)

(* An allocation of a size that fits lays out a region between its guards, *)
(* the canary before the data and the data against the rear guard.         *)
LEMMA PlaceEffect ==
    ASSUME TypeInv, page_size = Hardware, canary = "canary",
           NEW size \in 0 .. SIZE_MAX, ~TooBig(size), Total(size) > 0,
           NEW p \in Page, Place(size, size, p * Hardware)
    PROVE  \E m : Placed(m)
<1> USE Hard
<1>1. PICK k \in Nat \ {0} : /\ Unprotected(size) = k * Hardware
                             /\ Unprotected(size) <= SIZE_MAX
                             /\ CANARY_SIZE + size <= k * Hardware
                             /\ k * Hardware < CANARY_SIZE + size + Hardware
                             /\ Total(size) = (k + 3) * Hardware
  BY Rounded
<1> DEFINE base  == p * Hardware
           ptr   == UserPointer(base, size)
           pages == PagesOf(base, Total(size))
<1>2. /\ p \in Nat /\ base \in Nat /\ k * Hardware \in Nat /\ size \in Nat
      /\ (p + 1) * Hardware = base + Hardware
      /\ (p + 2) * Hardware = base + 2 * Hardware
      /\ (p + 2 + k) * Hardware = base + 2 * Hardware + k * Hardware
      /\ (p + k + 3) * Hardware = base + (k + 3) * Hardware
  <2>1. p \in Nat /\ size \in Nat
    BY SizeAssumption DEF Page
  <2>2. /\ p * Hardware \in Nat /\ k * Hardware \in Nat
        /\ (p + 1) * Hardware = p * Hardware + Hardware
        /\ (p + 2) * Hardware = p * Hardware + 2 * Hardware
        /\ (p + (k + 3)) * Hardware = p * Hardware + (k + 3) * Hardware
        /\ ((p + 2) + k) * Hardware = (p + 2) * Hardware + k * Hardware
    BY <2>1, Distributed
  <2>. QED
    BY <2>1, <2>2
<1>3. p + k + 3 <= Pages
  <2>1. (p + k + 3) * Hardware <= Pages * Hardware
    BY <1>1, <1>2 DEF Place
  <2>2. Pages * Hardware < Pages * Hardware + Hardware
    BY Distributed
  <2>. QED
    BY <1>2, <2>1, <2>2, Before, Distributed
<1>4. pages = p .. p + k + 2
  <2>1. PagesOf(base, Total(size)) = p .. p + (k + 3) - 1
    <3> DEFINE i == p
               j == k + 3
               first == base
               length == Total(size)
    <3>1. i \in Nat /\ j \in Nat /\ i + j <= Pages /\ first = i * Hardware /\ length = j * Hardware
      BY <1>1, <1>2, <1>3
    <3> HIDE DEF i, j, first, length
    <3>2. PagesOf(first, length) = i .. i + j - 1
      BY <3>1, PagesOfRun
    <3>. QED
      BY <3>2 DEF i, j, first, length
  <2>. QED
    BY <1>2, <2>1
<1>5. /\ PagesOf(base + page_size, page_size) = {p + 1}
      /\ PagesOf(base + 2 * page_size + Unprotected(size), page_size) = {p + k + 2}
      /\ PagesOf(base, page_size) = {p}
  <2>1. page_size = 1 * Hardware
    OBVIOUS
  <2>2. PagesOf(base + page_size, page_size) = p + 1 .. p + 1 + 1 - 1
    <3> DEFINE i == p + 1
               j == 1
               first == base + page_size
               length == page_size
    <3>1. i \in Nat /\ j \in Nat /\ i + j <= Pages /\ first = i * Hardware /\ length = j * Hardware
      BY <1>2, <1>3, <2>1
    <3> HIDE DEF i, j, first, length
    <3>2. PagesOf(first, length) = i .. i + j - 1
      BY <3>1, PagesOfRun
    <3>. QED
      BY <3>2 DEF i, j, first, length
  <2>3. PagesOf(base + 2 * page_size + Unprotected(size), page_size) = p + 2 + k .. p + 2 + k + 1 - 1
    <3> DEFINE i == p + 2 + k
               j == 1
               first == base + 2 * page_size + Unprotected(size)
               length == page_size
    <3>1. i \in Nat /\ j \in Nat /\ i + j <= Pages /\ first = i * Hardware /\ length = j * Hardware
      BY <1>1, <1>2, <1>3, <2>1
    <3> HIDE DEF i, j, first, length
    <3>2. PagesOf(first, length) = i .. i + j - 1
      BY <3>1, PagesOfRun
    <3>. QED
      BY <3>2 DEF i, j, first, length
  <2>4. PagesOf(base, page_size) = p .. p + 1 - 1
    <3> DEFINE i == p
               j == 1
               first == base
               length == page_size
    <3>1. i \in Nat /\ j \in Nat /\ i + j <= Pages /\ first = i * Hardware /\ length = j * Hardware
      BY <1>2, <1>3, <2>1
    <3> HIDE DEF i, j, first, length
    <3>2. PagesOf(first, length) = i .. i + j - 1
      BY <3>1, PagesOfRun
    <3>. QED
      BY <3>2 DEF i, j, first, length
  <2>. QED
    BY <1>2, <2>2, <2>3, <2>4
<1>6. /\ ptr \in Nat /\ ptr + size = (p + 2 + k) * Hardware
      /\ (p + 2) * Hardware <= ptr - CANARY_SIZE
      /\ ptr - CANARY_SIZE < (p + 2) * Hardware + Hardware
      /\ ptr - CANARY_SIZE \in Nat
  BY <1>1, <1>2 DEF UserPointer
<1>19. PICK m : m = [ptr |-> ptr, size |-> size, pages |-> pages]
  OBVIOUS
<1>20. m.ptr = ptr /\ m.size = size /\ m.pages = pages
  BY <1>19
<1>7. First(m) = p /\ Last(m) = p + 2 + k
  <2>1. PageOf(ptr - CANARY_SIZE) = p + 2
    BY <1>2, <1>6, Quotient DEF PageOf
  <2>2. PageOf(ptr + size) = p + 2 + k
    BY <1>2, <1>6, PageAt
  <2>. QED
    BY <1>2, <1>20, <2>1, <2>2 DEF First, Last
<1>8. LaidOut(m)
  <2>1. p # 0
    BY <1>2, <1>4 DEF Place
  <2>. QED
    BY <1>2, <1>3, <1>4, <1>6, <1>7, <1>20, <2>1 DEF LaidOut
<1>9. UnprotectedFrom(ptr) = base + 2 * page_size
  BY <1>2, <1>7, <1>8, <1>20, FoundFrom
<1> DEFINE front   == PagesOf(base + page_size, page_size)
           back    == PagesOf(base + 2 * page_size + Unprotected(size), page_size)
           header  == PagesOf(base, page_size)
           opened  == Protected(prot, pages, "write")
<1>10. PICK refused \in Refusals({"front", "back", "header"}) :
          LET fronted == IF "front" \in refused THEN opened ELSE Protected(opened, front, "none")
              backed  == IF "back" \in refused THEN fronted ELSE Protected(fronted, back, "none")
          IN
          /\ prot' = IF "header" \in refused THEN backed ELSE Protected(backed, header, "read")
          /\ byte' = Filled(ptr, size)
          /\ number' = [number EXCEPT ![PageOf(base)] = Unprotected(size)]
          /\ live' = live \union {m}
          /\ failed' = (failed \/ refused # {})
          /\ UNCHANGED <<page_size, canary, smashed, process>>
  BY <1>9, <1>19 DEF Place
<1> HIDE DEF front, back, header, opened, pages
<1>11. /\ opened = [q \in Page |-> IF q \in p .. p + k + 2 THEN "write" ELSE prot[q]]
       /\ front = {p + 1} /\ back = {p + k + 2} /\ header = {p}
  BY <1>4, <1>5 DEF front, back, header, opened, Protected
<1>12. /\ prot' \in [Page -> Modes]
       /\ \A q \in Page : IF q \in p .. p + k + 2 THEN prot'[q] # "unmapped" ELSE prot'[q] = prot[q]
       /\ prot'[p] \in Read
       /\ refused = {} => prot'[p] = "read" /\ prot'[p + 1] = "none" /\ prot'[p + k + 2] = "none"
  BY <1>2, <1>3, <1>10, <1>11 DEF Protected, TypeInv, Modes, Page, Read
<1>13. \A q \in pages : prot[q] = "unmapped"
  BY DEF Place, pages
<1>14. m.pages = p .. p + k + 2 /\ m.ptr = ptr /\ m.size = size /\ pages = p .. p + k + 2
  BY <1>4, <1>20 DEF pages
<1> HIDE DEF ptr, base
<1>15. failed' \in BOOLEAN /\ (~failed' => ~failed /\ refused = {})
  BY <1>10 DEF TypeInv
<1>16. ~failed' => Guarded(m)'
  <2>1. Guarded(m)' <=> prot'[p] = "read" /\ prot'[p + 1] = "none" /\ prot'[p + 2 + k] = "none"
    BY <1>7 DEF Guarded, First, Last
  <2>. QED
    BY <1>2, <1>12, <1>15, <2>1
<1>17. /\ number' = [number EXCEPT ![First(m)] = (Last(m) - First(m) - 2) * Hardware]
       /\ number'[First(m)] \in 0 .. SIZE_MAX
  <2>1. PageOf(base) = p
    BY <1>2, PageAt DEF base
  <2>2. Last(m) - First(m) - 2 = k
    BY <1>2, <1>7
  <2>3. Unprotected(size) = (Last(m) - First(m) - 2) * Hardware
    BY <1>1, <2>2
  <2>4. Unprotected(size) \in 0 .. SIZE_MAX
    BY <1>1, <1>2, SizeAssumption
  <2>. QED
    BY <1>7, <1>10, <2>1, <2>3, <2>4 DEF TypeInv
<1>18. Placed(m)
  BY <1>7, <1>8, <1>10, <1>12, <1>13, <1>14, <1>15, <1>16, <1>17 DEF Placed
<1>. QED
  BY <1>18

(* The other handlers.                                                     *)
LEMMA ProtectEffect ==
    ASSUME HeapInv, NEW m \in live, NEW mode \in {"none", "read", "write"}, Mprotect(m, mode)
    PROVE  Ending \/ Protecting(m, mode)
<1> DEFINE base == First(m) * Hardware
<1>1. page_size = Hardware /\ LaidOut(m) /\ prot[First(m)] \in Read
      /\ number[First(m)] = (Last(m) - First(m) - 2) * Hardware
  BY DEF HeapInv, SetUpInv, LayoutInv
<1>2. /\ UnprotectedFrom(m.ptr) = (First(m) + 2) * Hardware
      /\ UnprotectedFrom(m.ptr) - 2 * page_size = base
      /\ PageOf(base) = First(m)
  BY <1>1, FoundFrom
<1>3. PagesOf(UnprotectedFrom(m.ptr), number[First(m)]) = Region(m)
  <2> DEFINE i == First(m) + 2
             j == Last(m) - First(m) - 2
             first == UnprotectedFrom(m.ptr)
             length == number[First(m)]
  <2>1. i \in Nat /\ j \in Nat /\ i + j <= Pages /\ first = i * Hardware /\ length = j * Hardware
    BY <1>1, <1>2, Hard, SMTT(30) DEF LaidOut
  <2>2. i + j - 1 = Last(m) - 1
    BY <1>1 DEF LaidOut
  <2> HIDE DEF i, j, first, length
  <2>3. PagesOf(first, length) = i .. i + j - 1
    BY <2>1, PagesOfRun
  <2>. QED
    BY <2>2, <2>3 DEF i, first, length, Region
<1> HIDE DEF base
<1>. QED
  BY <1>2, <1>3 DEF Mprotect, Ending, Ended, Protecting, Protected, memory, Refusals,
      HeapInv, TypeInv, Ends

(* sodium_free either ends the process or unmaps all that the allocation   *)
(* had mapped.                                                             *)
LEMMA FreeEffect ==
    ASSUME HeapInv, NEW m \in live, Free(m)
    PROVE  Ending \/ Freeing(m)
<1> DEFINE base == First(m) * Hardware
           size == number[First(m)]
<1>1. page_size = Hardware /\ LaidOut(m) /\ prot[First(m)] \in Read
      /\ size = (Last(m) - First(m) - 2) * Hardware
  BY DEF HeapInv, SetUpInv, LayoutInv
<1>2. /\ UnprotectedFrom(m.ptr) = (First(m) + 2) * Hardware
      /\ UnprotectedFrom(m.ptr) - 2 * page_size = base
      /\ PageOf(base) = First(m)
  BY <1>1, FoundFrom
<1>3. First(m) \in Nat /\ Last(m) \in Nat /\ First(m) + 3 <= Last(m) /\ Last(m) < Pages
  BY <1>1 DEF LaidOut
<1>4. /\ (Last(m) + 1) * Hardware = Last(m) * Hardware + Hardware
      /\ (First(m) + 2) * Hardware + size = Last(m) * Hardware
      /\ 3 * Hardware + size = (Last(m) + 1 - First(m)) * Hardware
  <2> DEFINE j == Last(m) - First(m) - 2
  <2>1. j \in Nat /\ First(m) + 2 + j = Last(m) /\ j + 3 = Last(m) + 1 - First(m)
    BY <1>3
  <2>2. size = j * Hardware
    BY <1>1
  <2> HIDE DEF j, size
  <2>3. /\ ((First(m) + 2) + j) * Hardware = (First(m) + 2) * Hardware + j * Hardware
        /\ (j + 3) * Hardware = j * Hardware + 3 * Hardware
        /\ (Last(m) + 1) * Hardware = Last(m) * Hardware + Hardware
        /\ j * Hardware \in Nat
    BY <1>3, <2>1, Distributed, Hard
  <2>. QED
    BY <2>1, <2>2, <2>3, Hard
<1>5. PagesOf(base, 3 * page_size + size) = m.pages
  <2> DEFINE i == First(m)
             j == Last(m) + 1 - First(m)
             first == base
             length == 3 * page_size + size
  <2>1. i \in Nat /\ j \in Nat /\ i + j <= Pages /\ first = i * Hardware /\ length = j * Hardware
    BY <1>1, <1>3, <1>4, Hard
  <2>2. i + j - 1 = Last(m)
    BY <1>3
  <2> HIDE DEF i, j, first, length
  <2>3. PagesOf(first, length) = i .. i + j - 1
    BY <2>1, PagesOfRun
  <2>. QED
    BY <1>1, <2>2, <2>3 DEF i, first, length, LaidOut
<1>6. \A a \in Address : a \in Wiped(UnprotectedFrom(m.ptr), size) <=>
                            (First(m) + 2) * Hardware <= a /\ a < Last(m) * Hardware
  <2> DEFINE first == (First(m) + 2) * Hardware
             end   == Last(m) * Hardware
  <2>1. first \in Nat /\ end \in Nat /\ size \in Int /\ first + size = end
    <3>1. size \in Int
      <4>1. First(m) \in Page
        BY <1>3, Hard DEF Page
      <4>2. number[First(m)] \in 0 .. SIZE_MAX
        BY <4>1 DEF HeapInv, TypeInv
      <4>. QED
        BY <4>2
    <3>. QED
      BY <1>3, <1>4, <3>1, Distributed, Hard
  <2>2. \A a \in Address : a \in Int
    BY DEF Address
  <2> HIDE DEF first, end, size
  <2>. QED
    BY <1>2, <2>1, <2>2 DEF Wiped, first, end
<1> HIDE DEF base, size
<1>7. size = number[PageOf(base)]
  BY <1>2 DEF size
<1>8. ASSUME NEW how \in Ended \ {"killed"}, Ends(how)
      PROVE  Ending
  BY <1>8 DEF Ends, Ending, memory
<1>9. CASE Ends("killed") /\ ~CanaryIntact(m.ptr)
  BY <1>9 DEF Ends, Ending, memory, Ended
<1>10. CASE Ends("misuse") \/ Ends("segv")
  BY <1>8, <1>10 DEF Ended
<1>11. CASE ~(Ends("misuse") \/ Ends("segv") \/ (Ends("killed") /\ ~CanaryIntact(m.ptr)))
  <2>1. PICK refused \in Refusals({"all"}) :
            /\ CanaryIntact(m.ptr)
            /\ byte' = [a \in Address |-> IF a \in Wiped(UnprotectedFrom(m.ptr), size) THEN "zero" ELSE byte[a]]
            /\ prot' = Protected(prot, PagesOf(base, 3 * page_size + size), "unmapped")
            /\ number' = [p \in Page |-> IF p \in PagesOf(base, 3 * page_size + size) THEN 0 ELSE number[p]]
            /\ live' = live \ {m}
            /\ failed' = (failed \/ refused # {})
            /\ UNCHANGED <<page_size, canary, smashed, process>>
    BY <1>2, <1>7, <1>11 DEF Free
  <2>2. failed' \in BOOLEAN /\ (failed => failed')
    BY <2>1 DEF HeapInv, TypeInv
  <2>. QED
    BY <1>5, <1>6, <2>1, <2>2 DEF Freeing, Protected
<1>. QED
  BY <1>9, <1>10, <1>11

(* The product that sodium_allocarray lets through does not overflow.      *)
LEMMA ArrayFits ==
    ASSUME NEW count \in 0 .. SIZE_MAX, NEW size \in 0 .. SIZE_MAX, Fits(count, size)
    PROVE  Size_t(count * size) = count * size /\ count * size \in 0 .. SIZE_MAX
<1>1. count * size \in 0 .. SIZE_MAX
  <2>1. CASE count = 0
    BY <2>1, SizeAssumption
  <2>2. CASE count # 0
    <3>1. count \in Nat \ {0} /\ size \in Nat /\ SIZE_MAX \in Nat
      BY <2>2, SizeAssumption
    <3>2. PICK q \in Nat : q = SIZE_MAX \div count /\ q * count <= SIZE_MAX
      BY <3>1, Floor
    <3>3. size < q
      BY <2>2, <3>2 DEF Fits
    <3>4. size * count <= q * count
      BY <3>1, <3>2, <3>3, Ordered
    <3>5. q * count \in Nat /\ size * count \in Nat /\ size * count = count * size
      BY <3>1, <3>2
    <3>. QED
      BY <3>1, <3>2, <3>4, <3>5
  <2>. QED
    BY <2>1, <2>2
<1>2. SIZE_MAX \in Nat
  BY SizeAssumption
<1> DEFINE n == count * size
<1>3. n \in 0 .. SIZE_MAX
  BY <1>1
<1> HIDE DEF n
<1>4. Size_t(n) = n
  BY <1>2, <1>3 DEF Size_t
<1>. QED
  BY <1>3, <1>4 DEF n

(* sodium_malloc after sodium_init lays out a region.                      *)
LEMMA AllocateEffect ==
    ASSUME BeforeInit = FALSE, HeapInv, NEW size \in 0 .. SIZE_MAX, Allocate(size, size)
    PROVE  \E m : Placed(m)
<1>1. canary = "canary" /\ page_size = Hardware
  BY DEF Allocate, HeapInv, SetUpInv
<1>2. PICK p \in Page : Place(size, size, p * Hardware)
  BY DEF Allocate
<1>. QED
  BY <1>1, <1>2, PlaceEffect DEF Allocate, HeapInv

(* A write of the caller fills its data, ends the process, or changes one  *)
(* octet.                                                                  *)
LEMMA StrayEffect ==
    ASSUME HeapInv, NEW m \in live, Fill(m) \/ Underflow(m) \/ Overflow(m)
    PROVE  Ending \/ Filling(m) \/ \E a \in Nat : Straying(a)
<1>1. ASSUME Ends("segv")
      PROVE  Ending
  BY <1>1 DEF Ends, Ending, memory, Ended
<1>2. LaidOut(m)
  BY DEF HeapInv, LayoutInv
<1>3. CASE Fill(m)
  BY <1>1, <1>3 DEF Fill, Filling
<1>4. ASSUME NEW a \in Nat, Stray(m, a)
      PROVE  Ending \/ Straying(a)
  BY <1>1, <1>4 DEF Stray, Straying
<1>5. CASE Underflow(m)
  <2>1. PICK i \in Depths : i <= m.ptr /\ Stray(m, m.ptr - i)
    BY <1>5 DEF Underflow
  <2>2. m.ptr - i \in Nat
    BY <1>2, <2>1, BoundsAssumption DEF LaidOut
  <2>. QED
    BY <1>4, <2>1, <2>2
<1>6. CASE Overflow(m)
  <2>1. m.ptr + m.size \in Nat
    BY <1>2 DEF LaidOut
  <2>. QED
    BY <1>4, <1>6, <2>1 DEF Overflow
<1>. QED
  BY <1>3, <1>5, <1>6

(* Every step after sodium_init is one of the effects listed.              *)
LEMMA StepEffect == BeforeInit = FALSE /\ HeapInv /\ Next => Steps
<1> SUFFICES ASSUME BeforeInit = FALSE, HeapInv, Next
             PROVE  Steps
  OBVIOUS
<1>1. CASE AllocInit
  BY <1>1 DEF Steps
<1>2. ASSUME NEW size \in Sizes, Malloc(size)
      PROVE  Steps
  BY <1>2, AllocateEffect, SizeAssumption DEF Malloc, Steps
<1>3. ASSUME NEW count \in Counts, NEW size \in Sizes, AllocArray(count, size)
      PROVE  Steps
  <2> DEFINE n == count * size
  <2>1. Size_t(n) = n /\ n \in 0 .. SIZE_MAX
    BY <1>3, ArrayFits, SizeAssumption DEF AllocArray
  <2>2. Allocate(Size_t(n), n)
    BY <1>3 DEF AllocArray
  <2> HIDE DEF n
  <2>3. Allocate(n, n)
    BY <2>1, <2>2
  <2>. QED
    BY <2>1, <2>3, AllocateEffect DEF Steps
<1>4. ASSUME NEW m \in live, Fill(m) \/ Underflow(m) \/ Overflow(m)
      PROVE  Steps
  BY <1>4, StrayEffect DEF Steps
<1>5. ASSUME NEW m \in live, NEW mode \in {"none", "read", "write"}, Mprotect(m, mode)
      PROVE  Steps
  BY <1>5, ProtectEffect DEF Steps
<1>6. ASSUME NEW m \in live, Free(m)
      PROVE  Steps
  BY <1>6, FreeEffect DEF Steps
<1>. QED
  BY <1>1, <1>2, <1>3, <1>4, <1>5, <1>6 DEF Next
-----------------------------------------------------------------------------
(* Every step keeps the invariant                                          *)

(* An address lies in a page of the address space, and in the pages that   *)
(* it lies between.                                                        *)
LEMMA Within ==
    ASSUME NEW i \in Nat, NEW j \in Nat, NEW a \in Address
    PROVE  /\ a \in Nat /\ PageOf(a) \in Page
           /\ PageOf(a) \in i .. j - 1 <=> i * Hardware <= a /\ a < j * Hardware
<1>1. a \in Nat /\ a < Pages * Hardware /\ 0 * Hardware <= a
  BY Distributed, Hard DEF Address
<1>2. PageOf(a) \in Page
  BY <1>1, Between, Hard DEF Page
<1>3. i * Hardware <= a /\ a < j * Hardware => PageOf(a) \in i .. j - 1
  BY <1>1, Between
<1>4. ASSUME PageOf(a) \in i .. j - 1
      PROVE  i * Hardware <= a /\ a < j * Hardware
  <2>1. PICK q \in Nat : q = PageOf(a) /\ q * Hardware <= a /\ a < q * Hardware + Hardware
    BY <1>1, Floor, Hard DEF PageOf
  <2>2. i * Hardware <= q * Hardware /\ (q + 1) * Hardware <= j * Hardware
    BY <1>4, <2>1, Ordered, Hard
  <2>3. /\ i * Hardware \in Nat /\ q * Hardware \in Nat /\ j * Hardware \in Nat
        /\ (q + 1) * Hardware = q * Hardware + Hardware
    BY <2>1, Distributed, Hard
  <2>. QED
    BY <1>1, <2>1, <2>2, <2>3, Hard
<1>. QED
  BY <1>1, <1>2, <1>3, <1>4

(* An allocation has two guards and a page of size before its region, and  *)
(* the pages of the region.                                                *)
LEMMA PagesOfOne ==
    ASSUME NEW m, LaidOut(m)
    PROVE  /\ m.pages \subseteq Page \ {0} /\ Region(m) \subseteq m.pages
           /\ {First(m), First(m) + 1, Last(m)} \subseteq m.pages \ Region(m)
           /\ \A p \in m.pages : p \in Region(m) \/ p \in {First(m), First(m) + 1, Last(m)}
<1>1. /\ First(m) \in Nat \ {0} /\ Last(m) \in Nat /\ First(m) + 3 <= Last(m) /\ Last(m) < Pages
      /\ m.pages = First(m) .. Last(m)
  BY DEF LaidOut
<1>2. m.pages \subseteq Page \ {0} /\ Region(m) \subseteq m.pages
  BY <1>1, Hard DEF Region, Page
<1>. QED
  BY <1>1, <1>2 DEF Region

(* The canary lies in the region.                                          *)
LEMMA CanaryIn ==
    ASSUME NEW m, LaidOut(m), NEW a \in m.ptr - CANARY_SIZE .. m.ptr - 1
    PROVE  a \in Address /\ PageOf(a) \in Region(m)
<1>1. (First(m) + 2) * Hardware \in Nat
  BY Distributed, Hard DEF LaidOut
<1>2. a \in Nat /\ m.ptr - CANARY_SIZE <= a /\ a < m.ptr + m.size
  BY <1>1, Hard, SMTT(30) DEF LaidOut
<1>. QED
  BY <1>2, InRegion

(* The data lies in the region.                                            *)
LEMMA FillIn ==
    ASSUME NEW m, LaidOut(m), NEW a \in m.ptr .. m.ptr + m.size - 1
    PROVE  a \in Address /\ PageOf(a) \in Region(m)
<1>1. a \in Nat /\ m.ptr - CANARY_SIZE <= a /\ a < m.ptr + m.size
  <2>1. m.ptr \in Nat /\ m.size \in Nat
    BY DEF LaidOut
  <2>. QED
    BY <2>1, Hard
<1>. QED
  BY <1>1, InRegion

(* A new allocation has no page in common with one that lives.             *)
LEMMA Apart ==
    ASSUME HeapInv, NEW m, Placed(m), NEW n \in live
    PROVE  m.pages \intersect n.pages = {} /\ First(m) # First(n) /\ m.ptr # n.ptr
<1>1. LaidOut(n) /\ LaidOut(m)
  BY DEF HeapInv, LayoutInv, Placed
<1>2. m.pages \intersect n.pages = {}
  BY <1>1, PagesOfOne DEF HeapInv, MappedInv, Placed
<1>. QED
  BY <1>1, <1>2, PagesOfOne DEF First

(* Every effect keeps the types.                                           *)
LEMMA TypeStep == HeapInv /\ (Steps \/ UNCHANGED vars) => TypeInv'
<1> SUFFICES ASSUME HeapInv, Steps \/ UNCHANGED vars
             PROVE  TypeInv'
  OBVIOUS
<1> USE SizeAssumption DEF HeapInv, TypeInv, Modes, Ended
<1>1. CASE AllocInit
  BY <1>1 DEF AllocInit, memory
<1>2. CASE Ending
  BY <1>2 DEF Ending, memory
<1>3. ASSUME NEW m, Placed(m)
      PROVE  TypeInv'
  BY <1>3 DEF Placed, Filled, Page
<1>4. ASSUME NEW m \in live, Filling(m)
      PROVE  TypeInv'
  BY <1>4 DEF Filling
<1>5. ASSUME NEW m \in live, NEW mode \in {"none", "read", "write"}, Protecting(m, mode)
      PROVE  TypeInv'
  BY <1>5 DEF Protecting
<1>6. ASSUME NEW m \in live, Freeing(m)
      PROVE  TypeInv'
  BY <1>6 DEF Freeing
<1>7. ASSUME NEW a \in Nat, Straying(a)
      PROVE  TypeInv'
  BY <1>7 DEF Straying
<1>8. CASE UNCHANGED vars
  BY <1>8 DEF vars, memory
<1>. QED
  BY <1>1, <1>2, <1>3, <1>4, <1>5, <1>6, <1>7, <1>8 DEF Steps

(* Every effect keeps what sodium_init set up.                             *)
LEMMA SetUpStep == HeapInv /\ (Steps \/ UNCHANGED vars) => SetUpInv'
<1> SUFFICES ASSUME HeapInv, Steps \/ UNCHANGED vars
             PROVE  SetUpInv'
  OBVIOUS
<1> USE DEF HeapInv, TypeInv, SetUpInv
<1>1. CASE AllocInit
  BY <1>1 DEF AllocInit, memory
<1>2. CASE Ending
  BY <1>2 DEF Ending, memory
<1>3. ASSUME NEW m, Placed(m)
      PROVE  SetUpInv'
  BY <1>3 DEF Placed
<1>4. ASSUME NEW m \in live, Filling(m)
      PROVE  SetUpInv'
  BY <1>4 DEF Filling
<1>5. ASSUME NEW m \in live, NEW mode \in {"none", "read", "write"}, Protecting(m, mode)
      PROVE  SetUpInv'
  BY <1>5 DEF Protecting
<1>6. ASSUME NEW m \in live, Freeing(m)
      PROVE  SetUpInv'
  BY <1>6 DEF Freeing
<1>7. ASSUME NEW a \in Nat, Straying(a)
      PROVE  SetUpInv'
  BY <1>7 DEF Straying
<1>8. CASE UNCHANGED vars
  BY <1>8 DEF vars, memory
<1>. QED
  BY <1>1, <1>2, <1>3, <1>4, <1>5, <1>6, <1>7, <1>8 DEF Steps

(* Every effect keeps the layout of all that lives.                        *)
LEMMA LayoutStep == HeapInv /\ (Steps \/ UNCHANGED vars) => LayoutInv'
<1> SUFFICES ASSUME HeapInv, Steps \/ UNCHANGED vars
             PROVE  LayoutInv'
  OBVIOUS
<1> USE DEF HeapInv, LayoutInv
<1>1. CASE AllocInit
  BY <1>1 DEF AllocInit, memory
<1>2. CASE Ending
  BY <1>2 DEF Ending, memory
<1>3. ASSUME NEW m, Placed(m)
      PROVE  LayoutInv'
  <2>1. LaidOut(m) /\ First(m) \in Page /\ First(m) \in m.pages
    BY <1>3, PagesOfOne DEF Placed
  <2>2. ASSUME NEW n \in live
        PROVE  /\ LaidOut(n) /\ number'[First(n)] = number[First(n)] /\ prot'[First(n)] = prot[First(n)]
               /\ m.pages \intersect n.pages = {}
    <3>1. /\ LaidOut(n) /\ First(n) \in Page /\ First(n) \in n.pages
          /\ m.pages \intersect n.pages = {} /\ First(m) # First(n)
      BY <1>3, Apart, PagesOfOne DEF LayoutInv
    <3>. QED
      BY <1>3, <3>1 DEF Placed, TypeInv
  <2>3. live' = live \union {m} /\ number'[First(m)] = (Last(m) - First(m) - 2) * Hardware
        /\ prot'[First(m)] \in Read
    BY <1>3, <2>1 DEF Placed, TypeInv
  <2>. QED
    BY <2>1, <2>2, <2>3 DEF LayoutInv
<1>4. ASSUME NEW m \in live, Filling(m)
      PROVE  LayoutInv'
  BY <1>4 DEF Filling
<1>5. ASSUME NEW m \in live, NEW mode \in {"none", "read", "write"}, Protecting(m, mode)
      PROVE  LayoutInv'
  <2>1. ASSUME NEW n \in live
        PROVE  prot'[First(n)] = prot[First(n)]
    <3>1. First(n) \in Page /\ First(n) \notin Region(m)
      BY PagesOfOne DEF LayoutInv
    <3>. QED
      BY <1>5, <3>1 DEF Protecting
  <2>. QED
    BY <1>5, <2>1 DEF Protecting, LayoutInv
<1>6. ASSUME NEW m \in live, Freeing(m)
      PROVE  LayoutInv'
  <2>1. ASSUME NEW n \in live \ {m}
        PROVE  prot'[First(n)] = prot[First(n)] /\ number'[First(n)] = number[First(n)]
    <3>1. First(n) \in Page /\ First(n) \notin m.pages
      BY PagesOfOne DEF LayoutInv
    <3>. QED
      BY <1>6, <3>1 DEF Freeing
  <2>. QED
    BY <1>6, <2>1 DEF Freeing, LayoutInv
<1>7. ASSUME NEW a \in Nat, Straying(a)
      PROVE  LayoutInv'
  BY <1>7 DEF Straying
<1>8. CASE UNCHANGED vars
  BY <1>8 DEF vars, memory
<1>. QED
  BY <1>1, <1>2, <1>3, <1>4, <1>5, <1>6, <1>7, <1>8 DEF Steps

(* Every effect keeps mapped the pages of what lives, and no others.       *)
LEMMA MappedStep == HeapInv /\ (Steps \/ UNCHANGED vars) => MappedInv'
<1> SUFFICES ASSUME HeapInv, Steps \/ UNCHANGED vars
             PROVE  MappedInv'
  OBVIOUS
<1> USE DEF HeapInv
<1>1. CASE AllocInit
  BY <1>1 DEF AllocInit, memory, MappedInv
<1>2. CASE Ending
  BY <1>2 DEF Ending, memory, MappedInv
<1>3. ASSUME NEW m, Placed(m)
      PROVE  MappedInv'
  <2>1. m.pages \subseteq Page
    BY <1>3, PagesOfOne DEF Placed
  <2>. QED
    BY <1>3, <2>1 DEF Placed, MappedInv
<1>4. ASSUME NEW m \in live, Filling(m)
      PROVE  MappedInv'
  BY <1>4 DEF Filling, MappedInv
<1>5. ASSUME NEW m \in live, NEW mode \in {"none", "read", "write"}, Protecting(m, mode)
      PROVE  MappedInv'
  <2>1. Region(m) \subseteq m.pages
    BY PagesOfOne DEF LayoutInv
  <2>2. \A p \in Region(m) : prot[p] # "unmapped"
    BY <2>1 DEF MappedInv
  <2>3. \A p \in Page : prot'[p] = "unmapped" <=> prot[p] = "unmapped"
    BY <1>5, <2>2 DEF Protecting
  <2>. QED
    BY <1>5, <2>3 DEF Protecting, MappedInv
<1>6. ASSUME NEW m \in live, Freeing(m)
      PROVE  MappedInv'
  <2>1. \A p \in Page : prot'[p] # "unmapped" <=> prot[p] # "unmapped" /\ p \notin m.pages
    BY <1>6 DEF Freeing
  <2>2. UNION {n.pages : n \in live \ {m}} = (UNION {n.pages : n \in live}) \ m.pages
    BY DEF LayoutInv
  <2>3. live' = live \ {m}
    BY <1>6 DEF Freeing
  <2>. QED
    BY <2>1, <2>2, <2>3 DEF MappedInv
<1>7. ASSUME NEW a \in Nat, Straying(a)
      PROVE  MappedInv'
  BY <1>7 DEF Straying, MappedInv
<1>8. CASE UNCHANGED vars
  BY <1>8 DEF vars, memory, MappedInv
<1>. QED
  BY <1>1, <1>2, <1>3, <1>4, <1>5, <1>6, <1>7, <1>8 DEF Steps

(* Every effect keeps the guards closed and the data of a caller within    *)
(* what he asked for.                                                      *)
LEMMA GuardStep == HeapInv /\ (Steps \/ UNCHANGED vars) => GuardInv'
<1> SUFFICES ASSUME HeapInv, Steps \/ UNCHANGED vars
             PROVE  GuardInv'
  OBVIOUS
<1> USE DEF HeapInv
<1>1. CASE AllocInit
  BY <1>1 DEF AllocInit, memory, GuardInv, Guarded
<1>2. CASE Ending
  BY <1>2 DEF Ending, memory, GuardInv, Guarded
<1>3. ASSUME NEW m, Placed(m)
      PROVE  GuardInv'
  <2>1. ASSUME NEW n \in live
        PROVE  Guarded(n)' <=> Guarded(n)
    <3>1. {First(n), First(n) + 1, Last(n)} \subseteq Page \ m.pages
      BY <1>3, Apart, PagesOfOne DEF LayoutInv
    <3>. QED
      BY <1>3, <3>1 DEF Placed, Guarded, TypeInv, First, Last
  <2>. QED
    BY <1>3, <2>1 DEF Placed, GuardInv
<1>4. ASSUME NEW m \in live, Filling(m)
      PROVE  GuardInv'
  BY <1>4 DEF Filling, GuardInv, Guarded
<1>5. ASSUME NEW m \in live, NEW mode \in {"none", "read", "write"}, Protecting(m, mode)
      PROVE  GuardInv'
  <2>1. ASSUME NEW n \in live
        PROVE  Guarded(n)' <=> Guarded(n)
    <3>1. {First(n), First(n) + 1, Last(n)} \subseteq Page \ Region(m)
      BY PagesOfOne DEF LayoutInv
    <3>. QED
      BY <1>5, <3>1 DEF Protecting, Guarded, TypeInv, First, Last
  <2>. QED
    BY <1>5, <2>1 DEF Protecting, GuardInv
<1>6. ASSUME NEW m \in live, Freeing(m)
      PROVE  GuardInv'
  <2>1. ASSUME NEW n \in live \ {m}
        PROVE  Guarded(n)' <=> Guarded(n)
    <3>1. {First(n), First(n) + 1, Last(n)} \subseteq Page \ m.pages
      BY PagesOfOne DEF LayoutInv
    <3>. QED
      BY <1>6, <3>1 DEF Freeing, Guarded, TypeInv, First, Last
  <2>. QED
    BY <1>6, <2>1 DEF Freeing, GuardInv
<1>7. ASSUME NEW a \in Nat, Straying(a)
      PROVE  GuardInv'
  BY <1>7 DEF Straying, GuardInv, Guarded
<1>8. CASE UNCHANGED vars
  BY <1>8 DEF vars, memory, GuardInv, Guarded
<1>. QED
  BY <1>1, <1>2, <1>3, <1>4, <1>5, <1>6, <1>7, <1>8 DEF Steps

(* Every effect keeps the canaries, but for those that a stray write was   *)
(* recorded to hit.                                                        *)
LEMMA CanaryStep == HeapInv /\ (Steps \/ UNCHANGED vars) => CanaryInv'
<1> SUFFICES ASSUME HeapInv, Steps \/ UNCHANGED vars
             PROVE  CanaryInv'
  OBVIOUS
<1> USE DEF HeapInv
<1>1. CASE AllocInit
  BY <1>1 DEF AllocInit, memory, CanaryInv, CanaryIntact, SetUpInv
<1>2. CASE Ending
  BY <1>2 DEF Ending, memory, CanaryInv, CanaryIntact
<1>3. ASSUME NEW m, Placed(m)
      PROVE  CanaryInv'
  <2>1. ASSUME NEW n \in live
        PROVE  CanaryIntact(n.ptr)' <=> CanaryIntact(n.ptr)
    <3>1. \A b \in n.ptr - CANARY_SIZE .. n.ptr - 1 : b \in Address /\ byte'[b] = byte[b]
      <4> TAKE b \in n.ptr - CANARY_SIZE .. n.ptr - 1
      <4>1. b \in Address /\ PageOf(b) \in Region(n) /\ Region(n) \subseteq n.pages /\ LaidOut(n)
        BY CanaryIn, PagesOfOne DEF LayoutInv
      <4>2. b \notin m.ptr - CANARY_SIZE .. m.ptr - 1 /\ b \notin m.ptr .. m.ptr + m.size - 1
        BY <1>3, <4>1, Apart, CanaryIn, FillIn, PagesOfOne DEF Placed
      <4>. QED
        BY <1>3, <4>1, <4>2 DEF Placed, Filled
    <3>. QED
      BY <1>3, <3>1 DEF Placed, CanaryIntact
  <2>2. \A b \in m.ptr - CANARY_SIZE .. m.ptr - 1 : byte'[b] = canary /\ canary' = canary
    <3> TAKE b \in m.ptr - CANARY_SIZE .. m.ptr - 1
    <3>1. LaidOut(m) /\ byte' = Filled(m.ptr, m.size) /\ canary' = canary
      BY <1>3 DEF Placed
    <3>2. b \in Address
      BY <3>1, CanaryIn
    <3>3. b \notin m.ptr .. m.ptr + m.size - 1
      BY <3>1 DEF LaidOut
    <3>. QED
      BY <3>1, <3>2, <3>3 DEF Filled
  <2>3. CanaryIntact(m.ptr)'
    BY <2>2 DEF CanaryIntact
  <2>4. m.ptr \notin smashed
    BY <1>3, Apart DEF CanaryInv
  <2>5. live' = live \union {m} /\ smashed' = smashed /\ process' = process
    BY <1>3 DEF Placed
  <2>. QED
    BY <2>1, <2>3, <2>4, <2>5 DEF CanaryInv
<1>4. ASSUME NEW m \in live, Filling(m)
      PROVE  CanaryInv'
  <2>1. ASSUME NEW n \in live
        PROVE  CanaryIntact(n.ptr)' <=> CanaryIntact(n.ptr)
    <3>1. \A b \in n.ptr - CANARY_SIZE .. n.ptr - 1 : b \in Address /\ byte'[b] = byte[b]
      <4> TAKE b \in n.ptr - CANARY_SIZE .. n.ptr - 1
      <4>1. b \in Address /\ PageOf(b) \in Region(n) /\ Region(n) \subseteq n.pages /\ LaidOut(n)
        BY CanaryIn, PagesOfOne DEF LayoutInv
      <4>2. b \notin m.ptr .. m.ptr + m.size - 1
        <5>1. CASE n = m
          <6>1. m.ptr \in Nat
            BY DEF LayoutInv, LaidOut
          <6>. QED
            BY <5>1, <6>1, Hard
        <5>2. CASE n # m
          <6>1. LaidOut(m) /\ m.pages \intersect n.pages = {}
            BY <5>2 DEF LayoutInv
          <6>2. \A a \in m.ptr .. m.ptr + m.size - 1 : PageOf(a) \in m.pages
            BY <6>1, FillIn, PagesOfOne
          <6>. QED
            BY <4>1, <6>1, <6>2
        <5>. QED
          BY <5>1, <5>2
      <4>. QED
        BY <1>4, <4>1, <4>2 DEF Filling
    <3>. QED
      BY <1>4, <3>1 DEF Filling, CanaryIntact
  <2>. QED
    BY <1>4, <2>1 DEF Filling, CanaryInv
<1>5. ASSUME NEW m \in live, NEW mode \in {"none", "read", "write"}, Protecting(m, mode)
      PROVE  CanaryInv'
  BY <1>5 DEF Protecting, CanaryInv, CanaryIntact
<1>6. ASSUME NEW m \in live, Freeing(m)
      PROVE  CanaryInv'
  <2>1. ASSUME NEW n \in live \ {m}
        PROVE  CanaryIntact(n.ptr)' <=> CanaryIntact(n.ptr)
    <3>1. \A b \in n.ptr - CANARY_SIZE .. n.ptr - 1 : b \in Address /\ byte'[b] = byte[b]
      <4> TAKE b \in n.ptr - CANARY_SIZE .. n.ptr - 1
      <4>1. b \in Address /\ PageOf(b) \in Region(n) /\ Region(n) \subseteq n.pages /\ LaidOut(n)
        BY CanaryIn, PagesOfOne DEF LayoutInv
      <4>2. LaidOut(m) /\ m.pages \intersect n.pages = {}
        BY DEF LayoutInv
      <4>3. PageOf(b) \notin First(m) + 2 .. Last(m) - 1
        BY <4>1, <4>2, PagesOfOne DEF Region
      <4>4. First(m) + 2 \in Nat /\ Last(m) \in Nat
        BY <4>2 DEF LaidOut
      <4>5. ~((First(m) + 2) * Hardware <= b /\ b < Last(m) * Hardware)
        BY <4>1, <4>3, <4>4, Within
      <4>. QED
        BY <1>6, <4>1, <4>5 DEF Freeing
    <3>. QED
      BY <1>6, <3>1 DEF Freeing, CanaryIntact
  <2>2. m.ptr \notin smashed
    BY <1>6 DEF Freeing, CanaryInv
  <2>. QED
    BY <1>6, <2>1, <2>2 DEF Freeing, CanaryInv
<1>7. ASSUME NEW a \in Nat, Straying(a)
      PROVE  CanaryInv'
  <2>1. a \in Address /\ byte' = [byte EXCEPT ![a] = "data"] /\ byte \in [Address -> {"zero", "canary", "fill", "data"}]
    BY <1>7 DEF Straying, May, TypeInv
  <2>2. ASSUME NEW n \in live
        PROVE  CanaryIntact(n.ptr)' <=> CanaryIntact(n.ptr) /\ a \notin n.ptr - CANARY_SIZE .. n.ptr - 1
    <3>1. \A b \in n.ptr - CANARY_SIZE .. n.ptr - 1 : b \in Address
      BY CanaryIn DEF LayoutInv
    <3>2. canary = "canary" /\ canary' = canary
      BY <1>7 DEF SetUpInv, Straying
    <3>3. \A b \in n.ptr - CANARY_SIZE .. n.ptr - 1 : byte'[b] = IF b = a THEN "data" ELSE byte[b]
      BY <2>1, <3>1
    <3>. QED
      BY <3>2, <3>3 DEF CanaryIntact
  <2>3. \A n \in live : n.ptr \in smashed' <=> n.ptr \in smashed \/ a \in n.ptr - CANARY_SIZE .. n.ptr - 1
    BY <1>7 DEF Straying
  <2>4. \A ptr \in smashed' : \E n \in live : n.ptr = ptr
    BY <1>7 DEF Straying, CanaryInv
  <2>5. live' = live /\ process' = process /\ smashed \subseteq smashed'
    BY <1>7 DEF Straying
  <2>. QED
    BY <2>2, <2>3, <2>4, <2>5 DEF CanaryInv
<1>8. CASE UNCHANGED vars
  BY <1>8 DEF vars, memory, CanaryInv, CanaryIntact, SetUpInv
<1>. QED
  BY <1>1, <1>2, <1>3, <1>4, <1>5, <1>6, <1>7, <1>8 DEF Steps

(* Every effect keeps data on mapped pages of the allocation that it was   *)
(* written to.                                                             *)
LEMMA DataStep == HeapInv /\ (Steps \/ UNCHANGED vars) => DataInv'
<1> SUFFICES ASSUME HeapInv, Steps \/ UNCHANGED vars
             PROVE  DataInv'
  OBVIOUS
<1> USE DEF HeapInv
<1>1. CASE AllocInit
  BY <1>1 DEF AllocInit, memory, DataInv
<1>2. CASE Ending
  BY <1>2 DEF Ending, memory, DataInv
<1>3. ASSUME NEW m, Placed(m)
      PROVE  DataInv'
  <2>1. ~failed' => ~failed
    BY <1>3 DEF Placed
  <2>2. \A b \in Address : byte'[b] = "data" => byte[b] = "data"
    BY <1>3 DEF Placed, Filled
  <2>3. live \subseteq live'
    BY <1>3 DEF Placed
  <2>. QED
    BY <2>1, <2>2, <2>3 DEF DataInv, Region, First, Last
<1>4. ASSUME NEW m \in live, Filling(m)
      PROVE  DataInv'
  <2>1. \A b \in m.ptr .. m.ptr + m.size - 1 : PageOf(b) \in Region(m)
    BY FillIn DEF LayoutInv
  <2>2. /\ \A b \in Address : byte'[b] = "data" => byte[b] = "data" \/ b \in m.ptr .. m.ptr + m.size - 1
        /\ live' = live /\ failed' = failed
    BY <1>4 DEF Filling
  <2>. QED
    BY <2>1, <2>2 DEF DataInv
<1>5. ASSUME NEW m \in live, NEW mode \in {"none", "read", "write"}, Protecting(m, mode)
      PROVE  DataInv'
  BY <1>5 DEF Protecting, DataInv
<1>6. ASSUME NEW m \in live, Freeing(m)
      PROVE  DataInv'
  <2>1. ASSUME NEW b \in Address, byte'[b] = "data", ~failed'
        PROVE  \E n \in live \ {m} : PageOf(b) \in Region(n)
    <3>1. byte[b] = "data" /\ ~failed /\ ~((First(m) + 2) * Hardware <= b /\ b < Last(m) * Hardware)
      BY <1>6, <2>1 DEF Freeing
    <3>2. PICK n \in live : PageOf(b) \in Region(n)
      BY <3>1 DEF DataInv
    <3>3. First(m) + 2 \in Nat /\ Last(m) \in Nat
      BY DEF LayoutInv, LaidOut
    <3>4. n # m
      BY <3>1, <3>2, <3>3, Within DEF Region
    <3>. QED
      BY <3>2, <3>4
  <2>2. live' = live \ {m}
    BY <1>6 DEF Freeing
  <2>. QED
    BY <2>1, <2>2 DEF DataInv
<1>7. ASSUME NEW a \in Nat, Straying(a)
      PROVE  DataInv'
  <2>1. a \in Address /\ prot[PageOf(a)] = "write" /\ live' = live /\ failed' = failed
    BY <1>7 DEF Straying, May, Write
  <2>2. \A b \in Address : byte'[b] = "data" => byte[b] = "data" \/ b = a
    BY <1>7 DEF Straying, TypeInv
  <2>3. ASSUME ~failed
        PROVE  \E n \in live : PageOf(a) \in Region(n)
    <3>1. PageOf(a) \in Page
      BY <2>1, Within
    <3>2. PICK n \in live : PageOf(a) \in n.pages
      BY <2>1, <3>1 DEF MappedInv
    <3>3. PageOf(a) \notin {First(n), First(n) + 1, Last(n)}
      BY <2>1, <2>3 DEF GuardInv, Guarded
    <3>. QED
      BY <3>2, <3>3, PagesOfOne DEF LayoutInv
  <2>. QED
    BY <2>1, <2>2, <2>3 DEF DataInv
<1>8. CASE UNCHANGED vars
  BY <1>8 DEF vars, memory, DataInv
<1>. QED
  BY <1>1, <1>2, <1>3, <1>4, <1>5, <1>6, <1>7, <1>8 DEF Steps

(* The invariant holds before the first call.                              *)
LEMMA InitHeap == Init => HeapInv
<1> SUFFICES ASSUME Init
             PROVE  HeapInv
  OBVIOUS
<1>1. Default # Hardware \/ Default = Hardware
  OBVIOUS
<1>2. TypeInv
  <2>1. 0 \in 0 .. SIZE_MAX
    BY SizeAssumption
  <2>. QED
    BY <2>1 DEF Init, TypeInv, Modes
<1>3. SetUpInv /\ LayoutInv /\ MappedInv /\ GuardInv /\ CanaryInv /\ DataInv
  BY DEF Init, SetUpInv, LayoutInv, MappedInv, GuardInv, CanaryInv, DataInv
<1>. QED
  BY <1>2, <1>3 DEF HeapInv

(* HeapInv is inductive.                                                   *)
LEMMA StepHeap == BeforeInit = FALSE /\ HeapInv /\ [Next]_vars => HeapInv'
<1> SUFFICES ASSUME BeforeInit = FALSE, HeapInv, [Next]_vars
             PROVE  HeapInv'
  OBVIOUS
<1>1. Steps \/ UNCHANGED vars
  BY StepEffect
<1>. QED
  BY <1>1, TypeStep, SetUpStep, LayoutStep, MappedStep, GuardStep, CanaryStep,
      DataStep DEF HeapInv

(* HeapInv holds of the specification.                                     *)
LEMMA Heap == ASSUME BeforeInit = FALSE PROVE Spec => []HeapInv
<1>1. HeapInv /\ [Next]_vars => HeapInv'
  BY StepHeap
<1>. QED
  BY <1>1, InitHeap, PTL DEF Spec

(* The type invariant of the model follows from HeapInv.                   *)
LEMMA TypesHold == ASSUME BeforeInit = FALSE, HeapInv PROVE TypeOK
<1>1. \A m \in live : m.size \in Nat /\ m.ptr \in Nat /\ m.pages \subseteq Page
  BY PagesOfOne DEF HeapInv, LayoutInv, LaidOut
<1>2. \A m, n \in live : m = n \/ m.pages \intersect n.pages = {}
  BY DEF HeapInv, LayoutInv
<1>3. smashed \subseteq Address
  <2> SUFFICES ASSUME NEW m \in live
               PROVE  m.ptr \in Address
    BY DEF HeapInv, CanaryInv
  <2>1. /\ m.ptr \in Nat /\ m.size \in Nat /\ Last(m) \in Nat /\ Last(m) + 1 <= Pages
        /\ m.ptr + m.size = Last(m) * Hardware
    BY Hard DEF HeapInv, LayoutInv, LaidOut
  <2>2. (Last(m) + 1) * Hardware <= Pages * Hardware /\ Pages * Hardware \in Nat
    BY <2>1, Ordered, Distributed, Hard
  <2>3. (Last(m) + 1) * Hardware = Last(m) * Hardware + Hardware
    BY <2>1, Distributed, Hard
  <2>. QED
    BY <2>1, <2>2, <2>3, Hard DEF Address
<1>. QED
  BY <1>1, <1>2, <1>3 DEF TypeOK, HeapInv, TypeInv, Modes, Ended, Asserting

(* Every allocation made after sodium_init lies in its pages and ends      *)
(* where a page of no access begins, and another such page stands before   *)
(* its region, through every malloc, protection and free of it and of      *)
(* others.                                                                 *)
THEOREM Guards == ASSUME BeforeInit = FALSE PROVE Spec => []GuardsStand
<1>1. ASSUME HeapInv
      PROVE  GuardsStand
  <2> SUFFICES ASSUME ~failed, NEW m \in live
               PROVE  /\ PagesOf(m.ptr - CANARY_SIZE, CANARY_SIZE + m.size) \subseteq m.pages
                      /\ prot[PageOf(m.ptr + m.size)] = "none"
                      /\ (m.ptr + m.size) % Hardware = 0
                      /\ prot[PageOf(UnprotectedFrom(m.ptr)) - 1] = "none"
    BY DEF GuardsStand
  <2>1. LaidOut(m) /\ Guarded(m) /\ page_size = Hardware
    BY <1>1 DEF HeapInv, LayoutInv, GuardInv, SetUpInv
  <2>2. First(m) \in Nat /\ Last(m) \in Nat /\ First(m) + 3 <= Last(m) /\ Last(m) < Pages
    BY <2>1 DEF LaidOut
  <2>3. PageOf(UnprotectedFrom(m.ptr)) = First(m) + 2
    BY <2>1, <2>2, FoundFrom, PageAt
  <2>4. (m.ptr + m.size) % Hardware = 0
    BY <2>1, <2>2, Multiple, Hard DEF LaidOut
  <2>5. PagesOf(m.ptr - CANARY_SIZE, CANARY_SIZE + m.size) \subseteq m.pages
    <3> SUFFICES ASSUME NEW p \in Page, p >= First(m) + 2, p * Hardware < Last(m) * Hardware
                 PROVE  p \in m.pages
      <4>1. (m.ptr - CANARY_SIZE) \div Hardware = First(m) + 2
        <5> DEFINE i == First(m) + 2
                   n == m.ptr - CANARY_SIZE
        <5>1. i \in Nat /\ i * Hardware <= n /\ n < i * Hardware + Hardware /\ n \in Int
          BY <2>1, <2>2, Hard DEF LaidOut
        <5>2. i * Hardware \in Nat
          BY <5>1, Distributed, Hard
        <5> HIDE DEF i, n
        <5>3. n \div Hardware = i
          BY <5>1, <5>2, Quotient, Hard
        <5>. QED
          BY <5>3 DEF i, n
      <4>2. m.ptr - CANARY_SIZE + (CANARY_SIZE + m.size) = Last(m) * Hardware
        BY <2>1, Hard DEF LaidOut
      <4>. QED
        BY <4>1, <4>2 DEF PagesOf
    <3>1. p \in Nat
      BY DEF Page
    <3>2. p < Last(m)
      BY <2>2, <3>1, Ordered, Distributed, Hard
    <3>. QED
      BY <2>1, <2>2, <3>1, <3>2 DEF LaidOut
  <2>. QED
    BY <2>1, <2>2, <2>3, <2>4, <2>5 DEF Guarded, Last
<1>. QED
  BY <1>1, Heap, PTL

(* sodium_free gives back all that sodium_malloc has mapped for the        *)
(* pointer, and nothing of another allocation: the pages that are mapped   *)
(* are those of the allocations that live.                                 *)
THEOREM Found == ASSUME BeforeInit = FALSE PROVE Spec => []FreeFindsAll
<1>1. HeapInv => FreeFindsAll
  BY TypesHold DEF FreeFindsAll, HeapInv, MappedInv
<1>. QED
  BY <1>1, Heap, PTL

(* sodium_free kills the process only over a canary that was overwritten,  *)
(* and an allocation whose canary was overwritten is never given back.     *)
THEOREM Canaries == ASSUME BeforeInit = FALSE PROVE Spec => []CanaryTells
<1>1. HeapInv => CanaryTells
  BY DEF HeapInv, CanaryInv, CanaryTells
<1>. QED
  BY <1>1, Heap, PTL

(* What the application has stored, in its data or in the canary page      *)
(* below, is no longer there when the pages are given back, unless         *)
(* mprotect has failed.                                                    *)
THEOREM Wipes == ASSUME BeforeInit = FALSE PROVE Spec => []NothingLeft
<1>1. ASSUME HeapInv
      PROVE  NothingLeft
  <2> SUFFICES ASSUME ~failed, NEW a \in Address, byte[a] = "data"
               PROVE  prot[PageOf(a)] # "unmapped"
    BY DEF NothingLeft
  <2>1. PICK m \in live : PageOf(a) \in Region(m)
    BY <1>1 DEF HeapInv, DataInv
  <2>2. PageOf(a) \in m.pages
    BY <1>1, <2>1, PagesOfOne DEF HeapInv, LayoutInv
  <2>. QED
    BY <1>1, <2>2 DEF HeapInv, MappedInv
<1>. QED
  BY <1>1, Heap, PTL

(* The assertion of _sodium_malloc holds once sodium_init has run.         *)
THEOREM Asserts == ASSUME BeforeInit = FALSE PROVE Spec => []AssertionHolds
<1>1. HeapInv => AssertionHolds
  BY DEF HeapInv, TypeInv, Ended, AssertionHolds
<1>. QED
  BY <1>1, Heap, PTL
=============================================================================
