-------------------------- MODULE InternalRandom --------------------------
(***************************************************************************)
(* The internal generator of randombytes: one ChaCha20 stream per thread,  *)
(* with a pool of 32-bit words, seeded by the first thread to need it      *)
(* through flags that all threads of the process share, and inherited by a *)
(* forked child, which recognises itself by the process id it finds there. *)
(*                                                                         *)
(* The build for Linux, which defines HAVE_GETENTROPY.  ChaCha20 is ideal: *)
(* a key is known by its seed and by what has been drawn since, and equal  *)
(* blocks come from equal keys and nonces only.  The clock that a stir     *)
(* puts into the nonce is left out, so streams of one key are never told   *)
(* apart by it, and so is RDRAND, which not every processor has.           *)
(***************************************************************************)
EXTENDS Naturals, Sequences, FiniteSets

CONSTANTS
    Thread,
    Kernels,   \* subset of {"getentropy", "device"}: may getentropy work?
    Words,     \* the words in a full pool (120 in the code)
    MaxThreads,\* bound: threads ever, in both processes
    MaxStirs,  \* bound: keys drawn from the source
    MaxDraws   \* bound: calls that return random bytes

ASSUME BoundsAssumption ==
    /\ Words \in Nat \ {0}
    /\ MaxThreads \in Nat /\ MaxStirs \in Nat /\ MaxDraws \in Nat
ASSUME KernelsAssumption == Kernels \subseteq {"getentropy", "device"}

Process == {"parent", "child"}
Context == Process \X Thread

VARIABLES
    kernel,     \* does getentropy work on this machine?
    global,     \* global[p]: the flags that the threads of p share
    stream,     \* stream[c]: the thread-local generator of c
    pc,         \* pc[c]: the next step of the stir that c is in, or "idle",
                \* or "unborn"
    process,    \* process[p]: "unborn", "running" or "misuse"
    seeds,      \* the number of keys the source has given
    draws,      \* the number of calls that have returned random bytes
    drawn,      \* the blocks generated in either process
    handed,     \* the 32-bit words handed out in either process, but for
                \* those that a child pops off the pool it was born with
    repeated,   \* the blocks generated twice
    again,      \* the words handed out twice
    born,       \* the context a fork has made and that has its parent's stream
    overlapped, \* have two threads of one process initialised it at once?
    masked      \* has another thread of the child stirred beside that context?

threads == <<pc, process>>
output  == <<draws, drawn, repeated, handed, again>>
hist    == <<born, overlapped, masked>>
vars    == <<kernel, global, stream, threads, seeds, output, hist>>
-----------------------------------------------------------------------------
ZeroKey == [seed |-> 0, draws |-> <<>>]
Block   == [key |-> ZeroKey, nonce |-> 0]
Closed  == [on |-> FALSE, key |-> ZeroKey, nonce |-> 0, left |-> 0, pool |-> Block]
Initializing == {"reset", "probe", "mark"}

Init ==
    /\ kernel \in Kernels
    /\ global = [p \in Process |-> [initialized |-> FALSE, available |-> FALSE, pid |-> "none"]]
    /\ stream = [c \in Context |-> Closed]
    /\ \E t \in Thread :
         pc = [c \in Context |-> IF c = <<"parent", t>> THEN "idle" ELSE "unborn"]
    /\ process = [p \in Process |-> IF p = "parent" THEN "running" ELSE "unborn"]
    /\ seeds = 0
    /\ draws = 0
    /\ drawn = {} /\ handed = {} /\ repeated = {} /\ again = {}
    /\ born = {} /\ overlapped = FALSE /\ masked = FALSE

At(c, step) == process[c[1]] = "running" /\ pc[c] = step
Go(c, step) == pc' = [pc EXCEPT ![c] = step]
Misuse(c)   == process' = [process EXCEPT ![c[1]] = "misuse"]
Mine(c)     == global[c[1]]
Siblings(c) == {d \in Context \ {c} : d[1] = c[1]}
-----------------------------------------------------------------------------
(* randombytes_internal_random_stir, which an application calls, and which *)
(* buf and random call for a stream that is not on.  They go on once it    *)
(* is: what is left of them is Buf and Random below.                       *)

(* Mutant: the words of the old stream stay in the pool.                   *)
PoolKept(s) == [s EXCEPT !.nonce = 0]

Cleared(s) == [s EXCEPT !.nonce = 0, !.left = 0, !.pool = Block]

Clear(c) ==
    /\ At(c, "idle")
    /\ stream' = [stream EXCEPT ![c] = Cleared(@)]
    /\ Go(c, IF Mine(c).initialized THEN "seed" ELSE "reset")
    /\ overlapped' = (overlapped \/ (/\ ~Mine(c).initialized
                                     /\ \E d \in Siblings(c) : pc[d] \in Initializing))
    /\ born' = born \ {c}
    /\ UNCHANGED <<kernel, global, process, seeds, output, masked>>

(* Mutant: the process is marked initialised before it is.                 *)
ResetMarked(c) ==
    /\ At(c, "reset")
    /\ global' = [global EXCEPT ![c[1]].available = FALSE, ![c[1]].initialized = TRUE]
    /\ Go(c, "probe")
    /\ UNCHANGED <<kernel, stream, process, seeds, output, hist>>

ResetAvailable(c) ==
    /\ At(c, "reset")
    /\ global' = [global EXCEPT ![c[1]].available = FALSE]
    /\ Go(c, "probe")
    /\ UNCHANGED <<kernel, stream, process, seeds, output, hist>>

(* getentropy works, or a device is opened instead, or neither.            *)
Probe(c) ==
    /\ At(c, "probe")
    /\ \/ /\ kernel = "getentropy"
          /\ global' = [global EXCEPT ![c[1]].available = TRUE]
          /\ Go(c, "mark") /\ UNCHANGED process
       \/ /\ kernel = "device"
          /\ Go(c, "mark") /\ UNCHANGED <<global, process>>
       \/ /\ kernel = "device"
          /\ Misuse(c) /\ UNCHANGED <<global, pc>>
    /\ UNCHANGED <<kernel, stream, seeds, output, hist>>

Mark(c) ==
    /\ At(c, "mark")
    /\ global' = [global EXCEPT ![c[1]].initialized = TRUE]
    /\ Go(c, "seed")
    /\ UNCHANGED <<kernel, stream, process, seeds, output, hist>>

(* The process id is stored and the key drawn from getentropy if that is   *)
(* available; this build has no other source and leaves the key as it is.  *)
Seed(c) ==
    /\ At(c, "seed")
    /\ global' = [global EXCEPT ![c[1]].pid = c[1]]
    /\ IF Mine(c).available
         THEN /\ seeds < MaxStirs
              /\ seeds' = seeds + 1
              /\ stream' = [stream EXCEPT ![c].key = [seed |-> seeds + 1, draws |-> <<>>],
                                          ![c].on = TRUE]
         ELSE stream' = [stream EXCEPT ![c].on = TRUE] /\ UNCHANGED seeds
    /\ Go(c, "idle")
    /\ masked' = (masked \/ \E d \in born : d \in Siblings(c))
    /\ UNCHANGED <<kernel, process, output, born, overlapped>>

SeedFails(c) ==
    /\ At(c, "seed") /\ Mine(c).available
    /\ Misuse(c)
    /\ UNCHANGED <<kernel, global, stream, pc, seeds, output, hist>>
-----------------------------------------------------------------------------
(* Output.  A stream that is on is used if its process still is the one    *)
(* that was last stirred in; every block overwrites the key it came from.  *)

Upcoming(c)    == [key |-> stream[c].key, nonce |-> stream[c].nonce]
Used(key, use) == [key EXCEPT !.draws = Append(@, use)]
Spend          == draws < MaxDraws /\ draws' = draws + 1

StillOn(c) == stream[c].on  \* Mutant: the process id is not compared.

May(c)     == stream[c].on /\ Mine(c).pid = c[1]
Forked(c)  == stream[c].on /\ Mine(c).pid # c[1]

Generate(block) ==
    /\ drawn' = drawn \union {block}
    /\ repeated' = repeated \union (drawn \intersect {block})

HandOut(c, word) ==
    IF c \in born THEN UNCHANGED <<handed, again>>
    ELSE /\ handed' = handed \union {word}
         /\ again' = again \union (handed \intersect {word})

Buf(c) ==
    /\ At(c, "idle") /\ May(c) /\ Spend
    /\ Generate(Upcoming(c))
    /\ stream' = [stream EXCEPT ![c].key = Used(@, "buf"), ![c].nonce = @ + 1]
    /\ UNCHANGED <<kernel, global, threads, seeds, handed, again, hist>>

(* random with an empty pool: refill it and pop its last word.             *)
Random(c) ==
    /\ At(c, "idle") /\ stream[c].left = 0 /\ May(c) /\ Spend
    /\ Generate(Upcoming(c))
    /\ HandOut(c, <<Upcoming(c), Words>>)
    /\ stream' = [stream EXCEPT ![c].key = Used(@, "random"), ![c].nonce = @ + 1,
                                ![c].pool = Upcoming(c), ![c].left = Words - 1]
    /\ UNCHANGED <<kernel, global, threads, seeds, hist>>

MisuseForked(c) ==
    /\ At(c, "idle") /\ Forked(c)
    /\ Misuse(c)
    /\ UNCHANGED <<kernel, global, stream, pc, seeds, output, hist>>

(* A word from the pool; nothing that other threads share is looked at.    *)
Pop(c) ==
    /\ At(c, "idle") /\ stream[c].left > 0 /\ Spend
    /\ HandOut(c, <<stream[c].pool, stream[c].left>>)
    /\ stream' = [stream EXCEPT ![c].left = @ - 1]
    /\ UNCHANGED <<kernel, global, threads, seeds, drawn, repeated, hist>>

(* close wipes the caller's stream; what the process shares stays.         *)
Close(c) ==
    /\ At(c, "idle")
    /\ stream' = [stream EXCEPT ![c] = Closed]
    /\ born' = born \ {c}
    /\ UNCHANGED <<kernel, global, threads, seeds, output, overlapped, masked>>
-----------------------------------------------------------------------------
(* The application starts threads and forks: the child has its parent's    *)
(* memory and one thread; the threads it starts have streams of their own. *)

Room == Cardinality({c \in Context : pc[c] # "unborn"}) < MaxThreads

Start(c) ==
    /\ Room /\ At(c, "unborn")
    /\ Go(c, "idle")
    /\ UNCHANGED <<kernel, global, stream, process, seeds, output, hist>>

Fork(c) ==
    LET child == <<"child", c[2]>> IN
    /\ Room /\ c[1] = "parent" /\ At(c, "idle") /\ process["child"] = "unborn"
    /\ process' = [process EXCEPT !["child"] = "running"]
    /\ Go(child, "idle")
    /\ global' = [global EXCEPT !["child"] = global["parent"]]
    /\ stream' = [stream EXCEPT ![child] = stream[c]]
    /\ born' = IF stream[c].on THEN {child} ELSE {}
    /\ UNCHANGED <<kernel, seeds, output, overlapped, masked>>

Step(c) ==
    \/ Clear(c) \/ ResetAvailable(c) \/ Probe(c) \/ Mark(c) \/ Seed(c)
    \/ SeedFails(c)
    \/ Buf(c) \/ Random(c) \/ Pop(c) \/ MisuseForked(c)
    \/ Close(c) \/ Start(c) \/ Fork(c)

Next == \E c \in Context : Step(c)

Spec == Init /\ [][Next]_vars
-----------------------------------------------------------------------------
KeyOK(key) == key.seed \in 0 .. seeds /\ key.draws \in Seq({"buf", "random"})

(* Every variable has its type; a stream's nonce counts what its key has   *)
(* been used for, and only a stream that is on has words in its pool.      *)
TypeOK ==
    /\ kernel \in Kernels
    /\ \A p \in Process : /\ global[p].initialized \in BOOLEAN
                          /\ global[p].available \in BOOLEAN
                          /\ global[p].pid \in Process \union {"none"}
    /\ \A c \in Context : /\ KeyOK(stream[c].key) /\ KeyOK(stream[c].pool.key)
                          /\ stream[c].nonce <= Len(stream[c].key.draws)
                          /\ stream[c].left \in 0 .. Words
                          /\ stream[c].left > 0 => stream[c].on
    /\ pc \in [Context -> {"unborn", "idle", "seed"} \union Initializing]
    /\ process \in [Process -> {"unborn", "running", "misuse"}]
    /\ seeds \in 0 .. MaxStirs /\ draws \in 0 .. MaxDraws
    /\ overlapped \in BOOLEAN /\ masked \in BOOLEAN /\ born \subseteq Context

(* Where getentropy works, every stream that is on has its key from it,    *)
(* unless two first uses overlap: the second then takes the flag away that *)
(* the first has just set, from under any thread that is about to seed.    *)
(* Every variable keeps its type (randombytes_internal_random_stir).       *)
SeededWhenOn ==
    /\ TypeOK
    /\ kernel = "getentropy" /\ ~overlapped =>
        \A c \in Context : stream[c].on => stream[c].key.seed # 0

(* A stir gives the stream a key from the entropy source.                  *)
StirReseeds == \A c \in Context : stream[c].on => stream[c].key.seed # 0

(* Does every stir reseed, and every child recognise itself?               *)
Told == ~overlapped /\ ~masked

(* No block of a seeded stream is generated twice, in one process or in a  *)
(* parent and its child, unless first uses overlapped or another thread of *)
(* the child has stirred: then the process id no longer tells the thread   *)
(* that was forked that it was.                                            *)
BlockOnce == Told => \A b \in repeated : b.key.seed = 0

(* No word of a seeded stream is handed out twice either, but for those    *)
(* that a child pops off the pool it was born with, before it stirs.       *)
WordOnce == Told => \A w \in again : w[1].key.seed = 0
=============================================================================
