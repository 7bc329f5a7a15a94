---------------------------- MODULE GuardedHeap ----------------------------
(***************************************************************************)
(* sodium_malloc, sodium_allocarray, sodium_free and sodium_mprotect_*:    *)
(* allocations in pages of their own, between guard pages, whose end is    *)
(* the end of a page and whose beginning a canary precedes.  Nothing is    *)
(* known of an allocation but its pointer: sodium_free finds the pages by  *)
(* rounding, and their number in the first of them.                        *)
(*                                                                         *)
(* The build with mmap and mprotect.  A handler is one step: it touches    *)
(* the pages of one allocation, and page_size and the canary only change   *)
(* in sodium_init.  mlock and madvise, whose failures are ignored, are     *)
(* left out; so is a refusal of mmap, after which malloc returns NULL.     *)
(***************************************************************************)
EXTENDS Naturals, FiniteSets

CONSTANTS
    Hardware,     \* the size of a page in bytes
    Default,      \* page_size before sodium_init
    CANARY_SIZE,
    SIZE_MAX,     \* the largest size_t, one less than a power of two
    Pages,        \* the address space; nothing is mapped at page 0
    Sizes,        \* sizes that applications ask for
    Counts,       \* element counts that they give to sodium_allocarray
    MaxLive,      \* bound: allocations at a time
    BeforeInit,   \* may an application allocate before sodium_init?
    Depths,       \* how far below its region an application may write
    MayRefuse     \* may mprotect fail (once: a bound)?

ASSUME PageAssumption ==
    /\ Hardware \in Nat \ {0} /\ CANARY_SIZE \in 1 .. Hardware - 1
    /\ \E k \in 1 .. Default : Default = k * Hardware
ASSUME SizeAssumption ==
    /\ SIZE_MAX \in Nat /\ SIZE_MAX > 4 * Default
    /\ \E k \in 1 .. SIZE_MAX : SIZE_MAX + 1 = k * Hardware
    /\ Sizes \subseteq 0 .. SIZE_MAX /\ Counts \subseteq 0 .. SIZE_MAX
ASSUME BoundsAssumption == Pages \in Nat /\ MaxLive \in Nat /\ Depths \subseteq Nat
ASSUME ChoicesAssumption == BeforeInit \in BOOLEAN /\ MayRefuse \in BOOLEAN

VARIABLES
    page_size, canary,
    prot,     \* prot[p]: the protection of page p, or "unmapped"
    byte,     \* byte[a]: the contents of address a
    number,   \* number[p]: the size_t stored at the beginning of page p
    live,     \* the allocations: pointer and size as the application has
              \* them, and the first and last page that mmap has returned
    smashed,  \* the pointers whose canary an application has overwritten
    failed,   \* has an mprotect failed?
    process   \* "running", or how it ended

memory == <<prot, byte, number>>
vars   == <<page_size, canary, memory, live, smashed, failed, process>>
-----------------------------------------------------------------------------
Page    == 0 .. Pages - 1
Address == 0 .. Pages * Hardware - 1
PageOf(a) == a \div Hardware
Size_t(n) == n % (SIZE_MAX + 1)

PagesOf(first, length) == {p \in Page : /\ p >= first \div Hardware
                                        /\ p * Hardware < first + length}
Mapped(pages)  == \A p \in pages : prot[p] # "unmapped"
May(a, access) == a \in Address /\ prot[PageOf(a)] \in access
Read  == {"read", "write"}
Write == {"write"}

(* mprotect of whole pages.  One that the kernel refuses changes nothing.  *)
Protected(p, pages, mode) == [q \in Page |-> IF q \in pages THEN mode ELSE p[q]]
Refusals(calls) == {{}} \union (IF MayRefuse /\ ~failed THEN {{c} : c \in calls} ELSE {})

Init ==
    /\ page_size = Default /\ canary = "zero"
    /\ prot = [p \in Page |-> "unmapped"]
    /\ byte = [a \in Address |-> "zero"]
    /\ number = [p \in Page |-> 0]
    /\ live = {} /\ smashed = {}
    /\ failed = FALSE
    /\ process = "running"

Running == process = "running"
Ends(how) == process' = how /\ UNCHANGED <<page_size, canary, memory, live, smashed, failed>>

(* _sodium_alloc_init; sodium_init calls it once.                          *)
AllocInit ==
    /\ Running /\ canary = "zero"
    /\ page_size' = Hardware
    /\ canary' = "canary"
    /\ UNCHANGED <<memory, live, smashed, failed, process>>
-----------------------------------------------------------------------------
(* sodium_malloc                                                           *)

RoundDown(n) == n - (n % page_size)
PageRound(n) == RoundDown(Size_t(n + page_size - 1))

Unprotected(size) == PageRound(Size_t(CANARY_SIZE + size))

TotalOneGuard(size) ==  \* Mutant: no room for the guard page at the end.
    Size_t(2 * page_size + Unprotected(size))

Total(size) == Size_t(3 * page_size + Unprotected(size))

TooBig(size) == size >= SIZE_MAX - 4 * page_size

(* _unprotected_ptr_from_user_ptr                                          *)

UnprotectedFrom(ptr) == RoundDown(ptr - CANARY_SIZE)

(* Mutant: the region begins where its pages do.                           *)
UserFront(base, size) == base + 2 * page_size + CANARY_SIZE

UserPointer(base, size) == base + 2 * page_size + Unprotected(size) - size

(* The bytes of a new allocation: the canary, then 0xdb.                   *)
Filled(ptr, size) ==
    [a \in Address |-> CASE a \in ptr - CANARY_SIZE .. ptr - 1 -> canary
                         [] a \in ptr .. ptr + size - 1        -> "fill"
                         [] OTHER                              -> byte[a]]

Place(size, asked, base) ==
    LET ptr         == UserPointer(base, size)
        pages       == PagesOf(base, Total(size))
        unprotected == base + 2 * page_size
        front       == PagesOf(base + page_size, page_size)
        back        == PagesOf(unprotected + Unprotected(size), page_size)
        header      == PagesOf(base, page_size)
        opened      == Protected(prot, pages, "write")
    IN
    /\ pages \subseteq Page \ {0} /\ \A p \in pages : prot[p] = "unmapped"
    /\ base + Total(size) <= Pages * Hardware
    /\ IF UnprotectedFrom(ptr) # unprotected THEN Ends("assert")
       ELSE \E refused \in Refusals({"front", "back", "header"}) :
              LET fronted == IF "front" \in refused THEN opened ELSE Protected(opened, front, "none")
                  backed  == IF "back" \in refused THEN fronted ELSE Protected(fronted, back, "none")
              IN
              /\ prot' = IF "header" \in refused THEN backed ELSE Protected(backed, header, "read")
              /\ byte' = Filled(ptr, size)
              /\ number' = [number EXCEPT ![PageOf(base)] = Unprotected(size)]
              /\ live' = live \union {[ptr |-> ptr, size |-> asked, pages |-> pages]}
              /\ failed' = (failed \/ refused # {})
              /\ UNCHANGED <<page_size, canary, smashed, process>>

Allocate(size, asked) ==
    /\ Running /\ Cardinality(live) < MaxLive
    /\ BeforeInit \/ canary = "canary"
    /\ ~TooBig(size) /\ Total(size) > 0
    /\ \E p \in Page : Place(size, asked, p * Hardware)

Malloc(size) == Allocate(size, size)

(* sodium_allocarray                                                       *)
Fits(count, size) == count = 0 \/ size < SIZE_MAX \div count

AllocArray(count, size) ==
    /\ Fits(count, size)
    /\ Allocate(Size_t(count * size), count * size)
-----------------------------------------------------------------------------
(* The application fills an allocation, or a byte that is not its own.     *)

Fill(m) ==
    /\ Running
    /\ LET region == m.ptr .. m.ptr + m.size - 1 IN
       IF \A a \in region : May(a, Write)
         THEN /\ byte' = [a \in Address |-> IF a \in region THEN "data" ELSE byte[a]]
              /\ UNCHANGED <<page_size, canary, prot, number, live, smashed, failed, process>>
         ELSE Ends("segv")

Stray(m, a) ==
    /\ Running
    /\ IF May(a, Write)
         THEN /\ byte' = [byte EXCEPT ![a] = "data"]
              /\ smashed' = smashed \union
                     {n.ptr : n \in {l \in live : a \in l.ptr - CANARY_SIZE .. l.ptr - 1}}
              /\ UNCHANGED <<page_size, canary, prot, number, live, failed, process>>
         ELSE Ends("segv")

Underflow(m) == \E i \in Depths : i <= m.ptr /\ Stray(m, m.ptr - i)
Overflow(m)  == Stray(m, m.ptr + m.size)
-----------------------------------------------------------------------------
(* sodium_mprotect_noaccess, _readonly and _readwrite                      *)
Mprotect(m, mode) ==
    LET unprotected == UnprotectedFrom(m.ptr)
        base        == unprotected - 2 * page_size
        pages       == PagesOf(unprotected, number[PageOf(base)])
    IN
    /\ Running
    /\ IF unprotected <= 2 * page_size THEN Ends("misuse")
       ELSE IF ~May(base, Read) THEN Ends("segv")
       ELSE \E refused \in Refusals({"region"}) :
              /\ prot' = IF refused = {} /\ Mapped(pages) THEN Protected(prot, pages, mode)
                                                         ELSE prot
              /\ failed' = (failed \/ refused # {})
              /\ UNCHANGED <<page_size, canary, byte, number, live, smashed, process>>

(* Mutant: what is wiped is what the application asked for from the start  *)
(* of the pages, not the pages.                                            *)
WipesSize(unprotected, size) == unprotected .. unprotected + size - CANARY_SIZE - 1

Wiped(unprotected, size) == unprotected .. unprotected + size - 1

CanaryBegins(ptr) == byte[ptr - CANARY_SIZE] = canary  \* Mutant: one byte is compared.

CanaryIntact(ptr) == \A a \in ptr - CANARY_SIZE .. ptr - 1 : byte[a] = canary

(* sodium_free: open the pages, compare the canary, wipe, unmap.           *)
Free(m) ==
    LET unprotected == UnprotectedFrom(m.ptr)
        base        == unprotected - 2 * page_size
        size        == number[PageOf(base)]
        pages       == PagesOf(base, 3 * page_size + size)
    IN
    /\ Running
    /\ IF unprotected <= 2 * page_size THEN Ends("misuse")
       ELSE IF ~May(base, Read) THEN Ends("segv")
       ELSE \E refused \in Refusals({"all"}) :
              LET opened == IF refused = {} /\ Mapped(pages) THEN Protected(prot, pages, "write") ELSE prot
                  wiped  == Wiped(unprotected, size)
              IN
              IF \E a \in m.ptr - CANARY_SIZE .. m.ptr - 1 : opened[PageOf(a)] \notin Read
                THEN Ends("segv")
              ELSE IF ~CanaryIntact(m.ptr) THEN Ends("killed")
              ELSE IF \E a \in wiped : opened[PageOf(a)] \notin Write THEN Ends("segv")
              ELSE /\ byte' = [a \in Address |-> IF a \in wiped THEN "zero" ELSE byte[a]]
                   /\ prot' = Protected(prot, pages, "unmapped")
                   /\ number' = [p \in Page |-> IF p \in pages THEN 0 ELSE number[p]]
                   /\ live' = live \ {m}
                   /\ failed' = (failed \/ refused # {})
                   /\ UNCHANGED <<page_size, canary, smashed, process>>
-----------------------------------------------------------------------------
Next ==
    \/ AllocInit
    \/ \E size \in Sizes : Malloc(size)
    \/ \E count \in Counts, size \in Sizes : AllocArray(count, size)
    \/ \E m \in live : \/ Fill(m) \/ Underflow(m) \/ Overflow(m)
                       \/ \E mode \in {"none", "read", "write"} : Mprotect(m, mode)
                       \/ Free(m)

Spec == Init /\ [][Next]_vars
-----------------------------------------------------------------------------
Asserting == IF BeforeInit THEN {"assert"} ELSE {}

(* Every variable has its type; allocations do not share pages; and, after *)
(* sodium_init, the assertion of _sodium_malloc holds.                     *)
TypeOK ==
    /\ page_size \in {Default, Hardware} /\ canary \in {"zero", "canary"}
    /\ prot \in [Page -> {"unmapped", "none", "read", "write"}]
    /\ byte \in [Address -> {"zero", "canary", "fill", "data"}]
    /\ number \in [Page -> 0 .. SIZE_MAX]
    /\ \A m \in live : m.size \in Nat /\ m.ptr \in Nat /\ m.pages \subseteq Page
    /\ \A m, n \in live : m = n \/ m.pages \intersect n.pages = {}
    /\ smashed \subseteq Address
    /\ failed \in BOOLEAN
    /\ process \in {"running", "segv", "killed", "misuse"} \union Asserting

(* Whatever is asked for, protected or freed in between, an allocation     *)
(* lies in its pages, all of it, and ends where a page of no access        *)
(* begins; another stands before its first page.                           *)
GuardsStand ==
    ~failed => \A m \in live :
        /\ PagesOf(m.ptr - CANARY_SIZE, CANARY_SIZE + m.size) \subseteq m.pages
        /\ prot[PageOf(m.ptr + m.size)] = "none"
        /\ (m.ptr + m.size) % Hardware = 0
        /\ prot[PageOf(UnprotectedFrom(m.ptr)) - 1] = "none"

(* sodium_free finds from the pointer exactly the pages that mmap gave,    *)
(* and every variable keeps its type.                                      *)
FreeFindsAll == TypeOK /\ {p \in Page : prot[p] # "unmapped"} = UNION {m.pages : m \in live}

(* An allocation whose canary was overwritten is never freed: the process  *)
(* is killed instead.  And it is killed for nothing else.                  *)
CanaryTells ==
    /\ process = "killed" => smashed # {}
    /\ \A ptr \in smashed : \E m \in live : m.ptr = ptr

(* What an application has stored is gone from the memory it gives back,   *)
(* and so is what it has stored below its region where it could.           *)
NothingLeft ==
    ~failed => \A a \in Address : byte[a] = "data" => prot[PageOf(a)] # "unmapped"

(* The assertion of _sodium_malloc: the pointer leads back to the pages.   *)
AssertionHolds == process # "assert"
=============================================================================
