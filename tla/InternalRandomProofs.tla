------------------------ MODULE InternalRandomProofs ------------------------
(***************************************************************************)
(* Proofs about InternalRandom, for every set of threads, both kinds of    *)
(* kernel, every size of the pool and every bound.                         *)
(*                                                                         *)
(* Of one seed there is at any time at most one stream that may still      *)
(* generate blocks (OneActive), and what has come of the seed is behind it *)
(* (BlocksBehind, WordsBehind).  Two others may hold its key: a child's    *)
(* that has not stirred since the fork, which the process id stops, and one*)
(* that is being stirred, which gets another key before it is used again.  *)
(***************************************************************************)
EXTENDS InternalRandom, SequenceTheorems, TLAPS

Key      == [seed : Nat, draws : Seq({"buf", "random"})]
BlockSet == [key : Key, nonce : Nat]
Stream   == [on : BOOLEAN, key : Key, nonce : Nat, left : 0 .. Words, pool : BlockSet]
Flags    == [initialized : BOOLEAN, available : BOOLEAN, pid : Process \union {"none"}]
Stirring == Initializing \union {"seed"}

StreamType ==
    /\ stream \in [Context -> Stream]
    /\ seeds \in Nat
    /\ \A c \in Context : /\ stream[c].key.seed <= seeds /\ stream[c].pool.key.seed <= seeds
                          /\ stream[c].nonce <= Len(stream[c].key.draws)
                          /\ stream[c].left > 0 => stream[c].on

StirInv == \A c \in Context : pc[c] \in Stirring => stream[c].nonce = 0 /\ stream[c].left = 0

Others(c) == \A d \in Context \ {c} : stream'[d] = stream[d]

OutputType ==
    /\ drawn \in SUBSET BlockSet /\ repeated \subseteq drawn
    /\ handed \in SUBSET (BlockSet \X Nat) /\ again \subseteq handed

ControlType ==
    /\ kernel \in Kernels
    /\ global \in [Process -> Flags]
    /\ pc \in [Context -> {"unborn", "idle", "seed"} \union Initializing]
    /\ process \in [Process -> {"unborn", "running", "misuse"}]
    /\ seeds \in 0 .. MaxStirs /\ draws \in 0 .. MaxDraws
    /\ overlapped \in BOOLEAN /\ masked \in BOOLEAN /\ born \subseteq Context

TypeInv == ControlType /\ StreamType /\ StirInv /\ OutputType

(* Threads and processes begin with nothing.                               *)
UnbornInv ==
    /\ process["child"] = "unborn" => \A c \in Context : c[1] = "child" => pc[c] = "unborn"
    /\ \A c \in Context : pc[c] = "unborn" => ~stream[c].on

(* A stream that is off has no key and no words.                           *)
OffInv == \A c \in Context : ~stream[c].on => stream[c].key = ZeroKey /\ stream[c].left = 0

(* What a child has from its parent, it has not stirred; until a thread of *)
(* the child does, the process id there is not the child's.                *)
BornInv ==
    /\ \A c \in born : c[1] = "child" /\ pc[c] = "idle"
    /\ global["parent"].pid # "child"
    /\ born # {} /\ ~masked => global["child"].pid # "child"

(* Where getentropy works and first uses do not overlap, a process that is *)
(* initialised has it, and so has every thread that is about to seed.      *)
FlagsInv ==
    kernel = "getentropy" /\ ~overlapped =>
        /\ \A p \in Process : global[p].initialized => global[p].available
        /\ \A c \in Context : /\ pc[c] \in Initializing => ~Mine(c).initialized
                              /\ pc[c] = "mark" => Mine(c).available
                              /\ pc[c] = "seed" => Mine(c).initialized
        /\ \A c, d \in Context :
              c[1] = d[1] /\ pc[c] \in Initializing /\ pc[d] \in Initializing => c = d

SeededInv ==
    kernel = "getentropy" /\ ~overlapped =>
        \A c \in Context : stream[c].on => stream[c].key.seed # 0

(* Where it does not, no key is drawn.                                     *)
DeviceInv ==
    kernel # "getentropy" => seeds = 0 /\ \A p \in Process : ~global[p].available

(* The blocks generated have known keys, and pools and words come of them. *)
DrawnInv ==
    /\ \A b \in drawn : b.key.seed <= seeds
    /\ \A c \in Context : stream[c].left > 0 =>
          stream[c].pool \in drawn /\ stream[c].pool.key.seed = stream[c].key.seed
    /\ \A w \in handed : w[1] \in drawn

(* A seeded stream that may generate blocks.                               *)
Active(c) == pc[c] = "idle" /\ c \notin born /\ stream[c].key.seed # 0

(* No two of them have one seed; the blocks and words that have come of it *)
(* are behind the stream.                                                  *)
OneActive ==
    Told => \A c, d \in Context :
        Active(c) /\ Active(d) /\ stream[c].key.seed = stream[d].key.seed => c = d

BlocksBehind ==
    Told => \A c \in Context, b \in drawn :
        Active(c) /\ b.key.seed = stream[c].key.seed =>
            Len(b.key.draws) < Len(stream[c].key.draws)

WordsBehind ==
    Told => \A c \in Context, w \in handed :
        Active(c) /\ stream[c].left > 0 /\ w[1] = stream[c].pool => w[2] > stream[c].left

BaseInv ==
    TypeInv /\ UnbornInv /\ OffInv /\ BornInv /\ FlagsInv /\ SeededInv /\ DeviceInv /\ DrawnInv

RandomInv == BaseInv /\ OneActive /\ BlocksBehind /\ WordsBehind /\ BlockOnce /\ WordOnce

(* The steps that generate nothing, pop nothing and seed nothing.          *)
Quiet(c) ==
    \/ Clear(c) \/ ResetAvailable(c) \/ Probe(c) \/ Mark(c) \/ SeedFails(c)
    \/ MisuseForked(c) \/ Close(c) \/ Start(c) \/ Fork(c)

-----------------------------------------------------------------------------
(* A context is a thread of a process.                                     *)
LEMMA Contexts == \A c \in Context : c[1] \in Process /\ c[2] \in Thread
BY DEF Context

(* A context is a pair of a process and a thread.                          *)
LEMMA ContextOf ==
    \A p \in Process, t \in Thread : <<p, t>> \in Context /\ <<p, t>>[1] = p /\ <<p, t>>[2] = t
BY DEF Context

(* Contexts are told apart by their process and their thread.              *)
LEMMA SameContext == \A c, d \in Context : c[1] = d[1] /\ c[2] = d[2] => c = d
<1>1. \A c \in Context : c = <<c[1], c[2]>>
  BY DEF Context
<1> SUFFICES ASSUME NEW c \in Context, NEW d \in Context, c[1] = d[1], c[2] = d[2]
             PROVE  c = d
  OBVIOUS
<1>2. c = <<c[1], c[2]>> /\ d = <<d[1], d[2]>>
  BY <1>1
<1>. QED
  BY <1>2, Zenon

(* A use of a key lengthens what has been drawn since it was seeded.       *)
LEMMA UsedKey ==
    ASSUME NEW key \in Key, NEW use \in {"buf", "random"}
    PROVE  /\ Used(key, use) \in Key
           /\ Used(key, use).seed = key.seed
           /\ Len(Used(key, use).draws) = Len(key.draws) + 1
<1>1. Used(key, use) = [seed |-> key.seed, draws |-> Append(key.draws, use)]
  BY DEF Key, Used
<1>. QED
  BY <1>1 DEF Key

(* The values that a stream begins with have their types.                  *)
LEMMA Empty == Block \in BlockSet /\ ZeroKey \in Key /\ Closed \in Stream
BY BoundsAssumption DEF BlockSet, Block, ZeroKey, Key, Closed, Stream

(* What a context would generate next is a block.                          *)
LEMMA NextBlock ==
    ASSUME StreamType, NEW c \in Context
    PROVE  Upcoming(c) \in BlockSet
BY DEF StreamType, Stream, Upcoming, BlockSet

(* stir clears the nonce, the pool and the count of words left, of one     *)
(* thread.                                                                 *)
LEMMA ClearEffect ==
    ASSUME StreamType, NEW c \in Context, Clear(c)
    PROVE  /\ stream' \in [Context -> Stream] /\ Others(c)
           /\ stream'[c].on = stream[c].on /\ stream'[c].key = stream[c].key
           /\ stream'[c].nonce = 0 /\ stream'[c].left = 0 /\ stream'[c].pool = Block
<1>1. stream' \in [Context -> Stream]
  <2>1. 0 \in 0 .. Words /\ 0 \in Nat /\ stream[c] \in Stream
    BY BoundsAssumption DEF StreamType
  <2>2. Cleared(stream[c]) \in Stream
    BY <2>1, Empty DEF Stream, Cleared
  <2>. QED
    BY <2>2 DEF StreamType, Clear
<1>2. Others(c)
  BY DEF StreamType, Clear, Cleared, Others
<1>3. /\ stream'[c].on = stream[c].on /\ stream'[c].key = stream[c].key
     /\ stream'[c].nonce = 0 /\ stream'[c].left = 0 /\ stream'[c].pool = Block
  BY Empty, BoundsAssumption DEF StreamType, Clear, Cleared, Stream
<1>. QED
  BY <1>1, <1>2, <1>3

(* Seeding turns a stream on, with the next key of the entropy source      *)
(* where that is available.                                                *)
LEMMA SeedEffect ==
    ASSUME StreamType, NEW c \in Context, Seed(c)
    PROVE  /\ stream' \in [Context -> Stream] /\ Others(c)
           /\ stream'[c].on /\ stream'[c].nonce = stream[c].nonce
           /\ stream'[c].left = stream[c].left /\ stream'[c].pool = stream[c].pool
           /\ IF Mine(c).available
                THEN stream'[c].key = [seed |-> seeds + 1, draws |-> <<>>]
                ELSE stream'[c].key = stream[c].key
<1>1. stream' \in [Context -> Stream]
  <2>1. CASE Mine(c).available
    <3> DEFINE key == [seed |-> seeds + 1, draws |-> <<>>]
    <3>1. key \in Key
      BY DEF StreamType, Key
    <3>2. stream' = [stream EXCEPT ![c].key = key, ![c].on = TRUE]
      BY <2>1 DEF Seed, Mine
    <3> HIDE DEF key
    <3>. QED
      BY <3>1, <3>2 DEF StreamType, Stream
  <2>2. CASE ~Mine(c).available
    BY <2>2 DEF StreamType, Seed, Mine, Stream
  <2>. QED
    BY <2>1, <2>2
<1>2. Others(c)
  BY DEF StreamType, Seed, Mine, Others
<1>3. /\ stream'[c].on /\ stream'[c].nonce = stream[c].nonce
     /\ stream'[c].left = stream[c].left /\ stream'[c].pool = stream[c].pool
     /\ IF Mine(c).available
          THEN stream'[c].key = [seed |-> seeds + 1, draws |-> <<>>]
          ELSE stream'[c].key = stream[c].key
  BY DEF StreamType, Seed, Mine, Stream
<1>. QED
  BY <1>1, <1>2, <1>3

(* randombytes_buf spends a block and mixes its key.                       *)
LEMMA BufEffect ==
    ASSUME StreamType, NEW c \in Context, Buf(c)
    PROVE  /\ stream' \in [Context -> Stream] /\ Others(c)
           /\ stream'[c].on = stream[c].on /\ stream'[c].key = Used(stream[c].key, "buf")
           /\ stream'[c].nonce = stream[c].nonce + 1
           /\ stream'[c].left = stream[c].left /\ stream'[c].pool = stream[c].pool
<1>1. stream' \in [Context -> Stream]
  BY UsedKey DEF StreamType, Buf, Stream
<1>2. Others(c)
  BY DEF StreamType, Buf, Others
<1>3. /\ stream'[c].on = stream[c].on /\ stream'[c].key = Used(stream[c].key, "buf")
     /\ stream'[c].nonce = stream[c].nonce + 1
     /\ stream'[c].left = stream[c].left /\ stream'[c].pool = stream[c].pool
  BY UsedKey DEF StreamType, Buf, Stream
<1>. QED
  BY <1>1, <1>2, <1>3

(* randombytes_random spends a block on the pool, gives one word of it out *)
(* and mixes its key.                                                      *)
LEMMA RandomEffect ==
    ASSUME StreamType, NEW c \in Context, Random(c)
    PROVE  /\ stream' \in [Context -> Stream] /\ Others(c)
           /\ stream'[c].on = stream[c].on /\ stream'[c].key = Used(stream[c].key, "random")
           /\ stream'[c].nonce = stream[c].nonce + 1
           /\ stream'[c].left = Words - 1 /\ stream'[c].pool = Upcoming(c)
<1>1. stream' \in [Context -> Stream]
  <2>1. Used(stream[c].key, "random") \in Key
    BY UsedKey DEF StreamType, Stream
  <2>2. Words - 1 \in 0 .. Words
    BY BoundsAssumption
  <2>. QED
    BY <2>1, <2>2, NextBlock DEF StreamType, Random, Stream
<1>2. Others(c)
  BY DEF StreamType, Random, Others
<1>3. /\ stream'[c].on = stream[c].on /\ stream'[c].key = Used(stream[c].key, "random")
     /\ stream'[c].nonce = stream[c].nonce + 1
     /\ stream'[c].left = Words - 1 /\ stream'[c].pool = Upcoming(c)
  BY UsedKey, NextBlock, BoundsAssumption DEF StreamType, Random, Stream
<1>. QED
  BY <1>1, <1>2, <1>3

(* A word from the pool changes the count of words left and nothing else.  *)
LEMMA PopEffect ==
    ASSUME StreamType, NEW c \in Context, Pop(c)
    PROVE  /\ stream' \in [Context -> Stream] /\ Others(c)
           /\ stream'[c].on = stream[c].on /\ stream'[c].key = stream[c].key
           /\ stream'[c].nonce = stream[c].nonce
           /\ stream'[c].left = stream[c].left - 1 /\ stream'[c].pool = stream[c].pool
<1>1. stream' \in [Context -> Stream]
  <2>1. stream[c].left - 1 \in 0 .. Words /\ stream[c] \in Stream
    BY BoundsAssumption DEF StreamType, Stream, Pop
  <2>. QED
    BY <2>1 DEF StreamType, Pop, Stream
<1>2. Others(c)
  BY DEF StreamType, Pop, Others
<1>3. /\ stream'[c].on = stream[c].on /\ stream'[c].key = stream[c].key
     /\ stream'[c].nonce = stream[c].nonce
     /\ stream'[c].left = stream[c].left - 1 /\ stream'[c].pool = stream[c].pool
  BY DEF StreamType, Pop, Stream
<1>. QED
  BY <1>1, <1>2, <1>3

(* A fork makes one context of the child.                                  *)
LEMMA ForkEffect ==
    ASSUME NEW c \in Context, Fork(c)
    PROVE  \E child \in Context :
              /\ child[1] = "child" /\ child[2] = c[2] /\ c[1] = "parent" /\ child # c
              /\ pc[c] = "idle" /\ process["parent"] = "running" /\ process["child"] = "unborn"
              /\ process' = [process EXCEPT !["child"] = "running"]
              /\ pc' = [pc EXCEPT ![child] = "idle"]
              /\ global' = [global EXCEPT !["child"] = global["parent"]]
              /\ stream' = [stream EXCEPT ![child] = stream[c]]
              /\ born' = IF stream[c].on THEN {child} ELSE {}
              /\ UNCHANGED <<kernel, seeds, draws, drawn, repeated, handed, again, overlapped, masked>>
<1> DEFINE child == <<"child", c[2]>>
<1>1. child \in Context /\ child[1] = "child" /\ child[2] = c[2]
  BY Contexts, ContextOf DEF Process
<1>2. c[1] = "parent" /\ child # c
  BY <1>1 DEF Fork
<1>. QED
  BY <1>1, <1>2 DEF Fork, At, Go, output

(* Only the stream of the acting context has to be looked at.              *)
LEMMA OneStream ==
    ASSUME StreamType, NEW c \in Context, stream' \in [Context -> Stream], Others(c),
           seeds' \in Nat, seeds' >= seeds,
           stream'[c].key.seed <= seeds', stream'[c].pool.key.seed <= seeds',
           stream'[c].nonce <= Len(stream'[c].key.draws),
           stream'[c].left > 0 => stream'[c].on
    PROVE  StreamType'
<1>1. \A d \in Context : stream[d].key.seed \in Nat /\ stream[d].pool.key.seed \in Nat
  BY DEF StreamType, Stream, BlockSet, Key
<1>. QED
  BY <1>1 DEF StreamType, Others

(* What is known of one stream.                                            *)
LEMMA Fields ==
    ASSUME StreamType, NEW c \in Context
    PROVE  /\ stream[c].on \in BOOLEAN
           /\ stream[c].key \in Key /\ stream[c].key.seed \in Nat
           /\ stream[c].key.draws \in Seq({"buf", "random"})
           /\ Len(stream[c].key.draws) \in Nat
           /\ stream[c].nonce \in Nat /\ stream[c].left \in 0 .. Words
           /\ stream[c].pool \in BlockSet /\ stream[c].pool.key.seed \in Nat
<1>1. stream[c] \in Stream
  BY DEF StreamType
<1>2. stream[c].key \in Key /\ stream[c].pool \in BlockSet
  BY <1>1 DEF Stream
<1>3. \A s \in Seq({"buf", "random"}) : Len(s) \in Nat
  OBVIOUS
<1>. QED
  BY <1>1, <1>2, <1>3 DEF Stream, BlockSet, Key

(* Every step keeps the types of the streams.                              *)
LEMMA StreamStep == StreamType /\ StirInv /\ [Next]_vars => StreamType'
<1> SUFFICES ASSUME StreamType, StirInv, [Next]_vars
             PROVE  StreamType'
  OBVIOUS
<1> USE BoundsAssumption
<1>1. ASSUME NEW c \in Context, Step(c)
      PROVE  StreamType'
  <2>1. CASE Clear(c)
    <3>1. /\ stream' \in [Context -> Stream] /\ Others(c)
            /\ stream'[c].on = stream[c].on /\ stream'[c].key = stream[c].key
            /\ stream'[c].nonce = 0 /\ stream'[c].left = 0 /\ stream'[c].pool = Block
      BY <2>1, ClearEffect DEF StreamType
    <3>2. seeds' \in Nat /\ seeds' >= seeds
      BY <2>1 DEF StreamType, Clear
    <3>3. /\ stream'[c].key.seed <= seeds' /\ stream'[c].pool.key.seed <= seeds'
          /\ stream'[c].nonce <= Len(stream'[c].key.draws)
          /\ stream'[c].left > 0 => stream'[c].on
      BY <2>1, <3>1, Fields DEF StreamType, Clear, Block, ZeroKey
    <3>. QED
      BY <3>1, <3>2, <3>3, OneStream
  <2>2. CASE ResetAvailable(c)
    BY <2>2 DEF ResetAvailable, StreamType
  <2>3. CASE Probe(c)
    BY <2>3 DEF Probe, StreamType
  <2>4. CASE Mark(c)
    BY <2>4 DEF Mark, StreamType
  <2>5. CASE Seed(c)
    <3>1. /\ stream' \in [Context -> Stream] /\ Others(c)
            /\ stream'[c].on /\ stream'[c].nonce = stream[c].nonce
            /\ stream'[c].left = stream[c].left /\ stream'[c].pool = stream[c].pool
            /\ IF Mine(c).available
                 THEN stream'[c].key = [seed |-> seeds + 1, draws |-> <<>>]
                 ELSE stream'[c].key = stream[c].key
      BY <2>5, SeedEffect DEF StreamType
    <3>2. seeds' \in Nat /\ seeds' >= seeds
      BY <2>5 DEF StreamType, Seed, Mine
    <3>3. stream[c].nonce = 0
      BY <2>5 DEF Seed, At, StirInv, Stirring
    <3>4. stream'[c].nonce <= Len(stream'[c].key.draws)
      <4>1. CASE Mine(c).available
        <5>1. Len(stream'[c].key.draws) = 0
          BY <3>1, <4>1
        <5>. QED
          BY <3>1, <3>3, <5>1
      <4>2. CASE ~Mine(c).available
        BY <3>1, <4>2 DEF StreamType
      <4>. QED
        BY <4>1, <4>2
    <3>5. /\ stream'[c].key.seed <= seeds' /\ stream'[c].pool.key.seed <= seeds'
          /\ stream'[c].left > 0 => stream'[c].on
      BY <2>5, <3>1, Fields DEF StreamType, Seed, Mine
    <3>. QED
      BY <3>1, <3>2, <3>4, <3>5, OneStream
  <2>6. CASE SeedFails(c)
    BY <2>6 DEF SeedFails, StreamType
  <2>7. CASE Buf(c)
    <3>1. /\ stream' \in [Context -> Stream] /\ Others(c)
            /\ stream'[c].on = stream[c].on /\ stream'[c].key = Used(stream[c].key, "buf")
            /\ stream'[c].nonce = stream[c].nonce + 1
            /\ stream'[c].left = stream[c].left /\ stream'[c].pool = stream[c].pool
      BY <2>7, BufEffect DEF StreamType
    <3>2. seeds' \in Nat /\ seeds' >= seeds
      BY <2>7 DEF StreamType, Buf
    <3>3. /\ stream'[c].key.seed <= seeds' /\ stream'[c].pool.key.seed <= seeds'
          /\ stream'[c].nonce <= Len(stream'[c].key.draws)
          /\ stream'[c].left > 0 => stream'[c].on
      BY <2>7, <3>1, Fields, UsedKey, SMTT(30) DEF StreamType, Buf, At
    <3>. QED
      BY <3>1, <3>2, <3>3, OneStream
  <2>8. CASE Random(c)
    <3>1. /\ stream' \in [Context -> Stream] /\ Others(c)
            /\ stream'[c].on = stream[c].on /\ stream'[c].key = Used(stream[c].key, "random")
            /\ stream'[c].nonce = stream[c].nonce + 1
            /\ stream'[c].left = Words - 1 /\ stream'[c].pool = Upcoming(c)
      BY <2>8, RandomEffect DEF StreamType
    <3>2. seeds' \in Nat /\ seeds' >= seeds
      BY <2>8 DEF StreamType, Random
    <3>3. /\ stream'[c].key.seed <= seeds' /\ stream'[c].pool.key.seed <= seeds'
          /\ stream'[c].nonce <= Len(stream'[c].key.draws)
          /\ stream'[c].left > 0 => stream'[c].on
      BY <2>8, <3>1, Fields, UsedKey, SMTT(30) DEF StreamType, Random, Upcoming, May
    <3>. QED
      BY <3>1, <3>2, <3>3, OneStream
  <2>9. CASE Pop(c)
    <3>1. /\ stream' \in [Context -> Stream] /\ Others(c)
            /\ stream'[c].on = stream[c].on /\ stream'[c].key = stream[c].key
            /\ stream'[c].nonce = stream[c].nonce
            /\ stream'[c].left = stream[c].left - 1 /\ stream'[c].pool = stream[c].pool
      BY <2>9, PopEffect DEF StreamType
    <3>2. seeds' \in Nat /\ seeds' >= seeds
      BY <2>9 DEF StreamType, Pop
    <3>3. /\ stream'[c].key.seed <= seeds' /\ stream'[c].pool.key.seed <= seeds'
          /\ stream'[c].nonce <= Len(stream'[c].key.draws)
          /\ stream'[c].left > 0 => stream'[c].on
      BY <2>9, <3>1, Fields DEF StreamType, Pop
    <3>. QED
      BY <3>1, <3>2, <3>3, OneStream
  <2>10. CASE MisuseForked(c)
    BY <2>10 DEF MisuseForked, StreamType
  <2>11. CASE Close(c)
    <3>1. stream' \in [Context -> Stream] /\ Others(c) /\ stream'[c] = Closed /\ seeds' = seeds
      BY <2>11, Empty DEF Close, Others, StreamType
    <3>2. /\ Closed.key.seed = 0 /\ Closed.pool.key.seed = 0 /\ Closed.nonce = 0
          /\ Len(Closed.key.draws) = 0 /\ Closed.left = 0
      BY DEF Closed, Block, ZeroKey
    <3>3. seeds \in Nat
      BY DEF StreamType
    <3>. QED
      BY <3>1, <3>2, <3>3, OneStream
  <2>12. CASE Start(c)
    BY <2>12 DEF Start, StreamType
  <2>13. CASE Fork(c)
    <3>1. PICK child \in Context :
              stream' = [stream EXCEPT ![child] = stream[c]] /\ UNCHANGED seeds
      BY <2>13, ForkEffect
    <3>. QED
      BY <3>1 DEF StreamType
  <2>. QED
    BY <1>1, <2>1, <2>2, <2>3, <2>4, <2>5, <2>6, <2>7, <2>8, <2>9, <2>10, <2>11,
        <2>12, <2>13 DEF Step
<1>2. CASE UNCHANGED vars
  BY <1>2 DEF vars, StreamType
<1>. QED
  BY <1>1, <1>2 DEF Next

(* The stores to the flags of a process keep their type.                   *)
LEMMA FlagsKeep ==
    ASSUME NEW flags \in Flags
    PROVE  /\ [flags EXCEPT !.available = FALSE] \in Flags
           /\ [flags EXCEPT !.available = TRUE] \in Flags
           /\ [flags EXCEPT !.initialized = TRUE] \in Flags
           /\ \A p \in Process : [flags EXCEPT !.pid = p] \in Flags
BY DEF Flags

(* Every step keeps the types of control.                                  *)
LEMMA ControlStep == ControlType /\ [Next]_vars => ControlType'
<1> SUFFICES ASSUME ControlType, [Next]_vars
             PROVE  ControlType'
  OBVIOUS
<1> USE BoundsAssumption, Contexts
        DEF ControlType, Initializing, At, Go, Misuse, Spend, threads, output, hist
<1>1. ASSUME NEW c \in Context, Step(c)
      PROVE  ControlType'
  <2>1. CASE Clear(c)
    BY <2>1 DEF Clear
  <2>2. CASE ResetAvailable(c)
    <3>1. [global[c[1]] EXCEPT !.available = FALSE] \in Flags
      BY FlagsKeep
    <3>. QED
      BY <2>2, <3>1 DEF ResetAvailable
  <2>3. CASE Probe(c)
    <3>1. [global[c[1]] EXCEPT !.available = TRUE] \in Flags
      BY FlagsKeep
    <3>2. /\ process' \in [Process -> {"unborn", "running", "misuse"}]
          /\ pc' \in [Context -> {"unborn", "idle", "seed"} \union Initializing]
      BY <2>3 DEF Probe
    <3>3. global' \in [Process -> Flags]
      BY <2>3, <3>1 DEF Probe
    <3>. QED
      BY <2>3, <3>2, <3>3 DEF Probe
  <2>4. CASE Mark(c)
    <3>1. [global[c[1]] EXCEPT !.initialized = TRUE] \in Flags
      BY FlagsKeep
    <3>. QED
      BY <2>4, <3>1 DEF Mark
  <2>5. CASE Seed(c)
    <3>1. [global[c[1]] EXCEPT !.pid = c[1]] \in Flags
      BY FlagsKeep
    <3>2. seeds' \in 0 .. MaxStirs
      BY <2>5, BoundsAssumption DEF Seed, Mine
    <3>3. masked' \in BOOLEAN
      BY <2>5 DEF Seed
    <3>. QED
      BY <2>5, <3>1, <3>2, <3>3 DEF Seed
  <2>6. CASE SeedFails(c)
    BY <2>6 DEF SeedFails
  <2>7. CASE Buf(c)
    BY <2>7 DEF Buf
  <2>8. CASE Random(c)
    BY <2>8 DEF Random
  <2>9. CASE Pop(c)
    BY <2>9 DEF Pop
  <2>10. CASE MisuseForked(c)
    BY <2>10 DEF MisuseForked
  <2>11. CASE Close(c)
    BY <2>11 DEF Close
  <2>12. CASE Start(c)
    BY <2>12 DEF Start
  <2>13. CASE Fork(c)
    <3>1. PICK child \in Context :
              /\ process' = [process EXCEPT !["child"] = "running"]
              /\ pc' = [pc EXCEPT ![child] = "idle"]
              /\ global' = [global EXCEPT !["child"] = global["parent"]]
              /\ born' = IF stream[c].on THEN {child} ELSE {}
              /\ UNCHANGED <<kernel, seeds, draws, overlapped, masked>>
      BY <2>13, ForkEffect
    <3>. QED
      BY <3>1 DEF Process
  <2>. QED
    BY <1>1, <2>1, <2>2, <2>3, <2>4, <2>5, <2>6, <2>7, <2>8, <2>9, <2>10, <2>11,
        <2>12, <2>13 DEF Step
<1>2. CASE UNCHANGED vars
  BY <1>2 DEF vars
<1>. QED
  BY <1>1, <1>2 DEF Next

(* Every step keeps the types of what was drawn and handed out.            *)
LEMMA OutputStep == StreamType /\ OutputType /\ [Next]_vars => OutputType'
<1> SUFFICES ASSUME StreamType, OutputType, [Next]_vars
             PROVE  OutputType'
  OBVIOUS
<1> USE DEF OutputType, Generate, HandOut, Spend, threads, output, hist
<1>1. ASSUME NEW c \in Context, Step(c)
      PROVE  OutputType'
  <2>1. CASE Clear(c)
    BY <2>1 DEF Clear
  <2>2. CASE ResetAvailable(c)
    BY <2>2 DEF ResetAvailable
  <2>3. CASE Probe(c)
    BY <2>3 DEF Probe
  <2>4. CASE Mark(c)
    BY <2>4 DEF Mark
  <2>5. CASE Seed(c)
    BY <2>5 DEF Seed
  <2>6. CASE SeedFails(c)
    BY <2>6 DEF SeedFails
  <2>7. CASE Buf(c)
    BY <2>7, NextBlock DEF Buf
  <2>8. CASE Random(c)
    <3>1. <<Upcoming(c), Words>> \in BlockSet \X Nat
      BY NextBlock, BoundsAssumption
    <3>. QED
      BY <2>8, <3>1, NextBlock DEF Random
  <2>9. CASE Pop(c)
    <3>1. <<stream[c].pool, stream[c].left>> \in BlockSet \X Nat
      BY Fields
    <3>. QED
      BY <2>9, <3>1 DEF Pop
  <2>10. CASE MisuseForked(c)
    BY <2>10 DEF MisuseForked
  <2>11. CASE Close(c)
    BY <2>11 DEF Close
  <2>12. CASE Start(c)
    BY <2>12 DEF Start
  <2>13. CASE Fork(c)
    <3>1. PICK child \in Context : UNCHANGED <<drawn, repeated, handed, again>>
      BY <2>13, ForkEffect
    <3>. QED
      BY <3>1
  <2>. QED
    BY <1>1, <2>1, <2>2, <2>3, <2>4, <2>5, <2>6, <2>7, <2>8, <2>9, <2>10, <2>11,
        <2>12, <2>13 DEF Step
<1>2. CASE UNCHANGED vars
  BY <1>2 DEF vars
<1>. QED
  BY <1>1, <1>2 DEF Next

(* A thread that is stirring has no nonce and no words until it is done.   *)
LEMMA StirStep == ControlType /\ StreamType /\ StirInv /\ [Next]_vars => StirInv'
<1> SUFFICES ASSUME ControlType, StreamType, StirInv, [Next]_vars
             PROVE  StirInv'
  OBVIOUS
<1> USE DEF ControlType, StirInv, StreamType, Stirring, Initializing, At, Go, Misuse,
    threads, output, hist
<1>1. ASSUME NEW c \in Context, Step(c)
      PROVE  StirInv'
  <2>1. CASE Clear(c)
    BY <2>1, ClearEffect DEF Clear, Others
  <2>2. CASE ResetAvailable(c)
    BY <2>2 DEF ResetAvailable
  <2>3. CASE Probe(c)
    BY <2>3 DEF Probe
  <2>4. CASE Mark(c)
    BY <2>4 DEF Mark
  <2>5. CASE Seed(c)
    BY <2>5, SeedEffect DEF Seed, Others
  <2>6. CASE SeedFails(c)
    BY <2>6 DEF SeedFails
  <2>7. CASE Buf(c)
    BY <2>7, BufEffect DEF Buf, Others
  <2>8. CASE Random(c)
    BY <2>8, RandomEffect DEF Random, Others
  <2>9. CASE Pop(c)
    BY <2>9, PopEffect DEF Pop, Others
  <2>10. CASE MisuseForked(c)
    BY <2>10 DEF MisuseForked
  <2>11. CASE Close(c)
    BY <2>11 DEF Close
  <2>12. CASE Start(c)
    BY <2>12 DEF Start
  <2>13. CASE Fork(c)
    <3>1. PICK child \in Context :
              /\ pc[c] = "idle" /\ pc' = [pc EXCEPT ![child] = "idle"]
              /\ stream' = [stream EXCEPT ![child] = stream[c]]
      BY <2>13, ForkEffect
    <3>. QED
      BY <3>1
  <2>. QED
    BY <1>1, <2>1, <2>2, <2>3, <2>4, <2>5, <2>6, <2>7, <2>8, <2>9, <2>10, <2>11,
        <2>12, <2>13 DEF Step
<1>2. CASE UNCHANGED vars
  BY <1>2 DEF vars
<1>. QED
  BY <1>1, <1>2 DEF Next

(* What has not begun has no stream.                                       *)
LEMMA UnbornStep ==
    ControlType /\ StreamType /\ UnbornInv /\ [Next]_vars => UnbornInv'
<1> SUFFICES ASSUME ControlType, StreamType, UnbornInv, [Next]_vars
             PROVE  UnbornInv'
  OBVIOUS
<1> USE Contexts, ContextOf
        DEF UnbornInv, ControlType, StreamType, Initializing, Stirring, At, Go,
            Misuse, Mine, Process, threads, output, hist
<1>1. ASSUME NEW c \in Context, Step(c)
      PROVE  UnbornInv'
  <2>1. CASE Clear(c)
    BY <2>1, ClearEffect DEF Clear, Others
  <2>2. CASE ResetAvailable(c)
    BY <2>2 DEF ResetAvailable
  <2>3. CASE Probe(c)
    BY <2>3 DEF Probe
  <2>4. CASE Mark(c)
    BY <2>4 DEF Mark
  <2>5. CASE Seed(c)
    BY <2>5, SeedEffect DEF Seed, Others
  <2>6. CASE SeedFails(c)
    BY <2>6 DEF SeedFails
  <2>7. CASE Buf(c)
    <3>1. \A d \in Context : stream'[d].on = stream[d].on
      BY <2>7, BufEffect DEF Others
    <3>. QED
      BY <2>7, <3>1 DEF Buf
  <2>8. CASE Random(c)
    BY <2>8, RandomEffect, ZenonT(30) DEF Random, Others
  <2>9. CASE Pop(c)
    BY <2>9, PopEffect DEF Pop, Others
  <2>10. CASE MisuseForked(c)
    BY <2>10 DEF MisuseForked
  <2>11. CASE Close(c)
    BY <2>11 DEF Close, Closed
  <2>12. CASE Start(c)
    BY <2>12 DEF Start
  <2>13. CASE Fork(c)
    <3>1. PICK child \in Context :
              /\ child[1] = "child" /\ child[2] = c[2] /\ c[1] = "parent" /\ child # c
              /\ pc[c] = "idle" /\ process["parent"] = "running" /\ process["child"] = "unborn"
              /\ process' = [process EXCEPT !["child"] = "running"]
              /\ pc' = [pc EXCEPT ![child] = "idle"]
              /\ global' = [global EXCEPT !["child"] = global["parent"]]
              /\ stream' = [stream EXCEPT ![child] = stream[c]]
              /\ born' = IF stream[c].on THEN {child} ELSE {}
              /\ UNCHANGED <<kernel, seeds, draws, drawn, repeated, handed, again, overlapped, masked>>
      BY <2>13, ForkEffect
    <3>. QED
      BY <3>1, Contexts
  <2>. QED
    BY <1>1, <2>1, <2>2, <2>3, <2>4, <2>5, <2>6, <2>7, <2>8, <2>9, <2>10, <2>11,
        <2>12, <2>13 DEF Step
<1>2. CASE UNCHANGED vars
  BY <1>2 DEF vars
<1>. QED
  BY <1>1, <1>2 DEF Next

(* A stream that is off stays empty.                                       *)
LEMMA OffStep == ControlType /\ StreamType /\ OffInv /\ [Next]_vars => OffInv'
<1> SUFFICES ASSUME ControlType, StreamType, OffInv, [Next]_vars
             PROVE  OffInv'
  OBVIOUS
<1> USE DEF OffInv, May, ControlType, StreamType, Initializing, Stirring, At, Go,
    Misuse, Mine, Process, threads, output, hist
<1>1. ASSUME NEW c \in Context, Step(c)
      PROVE  OffInv'
  <2>1. CASE Clear(c)
    BY <2>1, ClearEffect DEF Clear, Others
  <2>2. CASE ResetAvailable(c)
    BY <2>2 DEF ResetAvailable
  <2>3. CASE Probe(c)
    BY <2>3 DEF Probe
  <2>4. CASE Mark(c)
    BY <2>4 DEF Mark
  <2>5. CASE Seed(c)
    BY <2>5, SeedEffect, ZenonT(30) DEF Seed, Others
  <2>6. CASE SeedFails(c)
    BY <2>6 DEF SeedFails
  <2>7. CASE Buf(c)
    BY <2>7, BufEffect, ZenonT(30) DEF Buf, Others
  <2>8. CASE Random(c)
    <3>1. stream'[c].on = stream[c].on /\ Others(c)
      BY <2>8, RandomEffect
    <3>2. stream[c].on
      BY <2>8 DEF Random
    <3>. QED
      BY <3>1, <3>2 DEF Others
  <2>9. CASE Pop(c)
    BY <2>9, PopEffect DEF Pop, Others
  <2>10. CASE MisuseForked(c)
    BY <2>10 DEF MisuseForked
  <2>11. CASE Close(c)
    BY <2>11 DEF Close, Closed
  <2>12. CASE Start(c)
    BY <2>12 DEF Start
  <2>13. CASE Fork(c)
    <3>1. PICK child \in Context :
              /\ child[1] = "child" /\ child[2] = c[2] /\ c[1] = "parent" /\ child # c
              /\ pc[c] = "idle" /\ process["parent"] = "running" /\ process["child"] = "unborn"
              /\ process' = [process EXCEPT !["child"] = "running"]
              /\ pc' = [pc EXCEPT ![child] = "idle"]
              /\ global' = [global EXCEPT !["child"] = global["parent"]]
              /\ stream' = [stream EXCEPT ![child] = stream[c]]
              /\ born' = IF stream[c].on THEN {child} ELSE {}
              /\ UNCHANGED <<kernel, seeds, draws, drawn, repeated, handed, again, overlapped, masked>>
      BY <2>13, ForkEffect
    <3>. QED
      BY <3>1, Contexts
  <2>. QED
    BY <1>1, <2>1, <2>2, <2>3, <2>4, <2>5, <2>6, <2>7, <2>8, <2>9, <2>10, <2>11,
        <2>12, <2>13 DEF Step
<1>2. CASE UNCHANGED vars
  BY <1>2 DEF vars
<1>. QED
  BY <1>1, <1>2 DEF Next

(* Until a thread of the child stirs, the child does not pass for          *)
(* initialised.                                                            *)
LEMMA BornStep == ControlType /\ BornInv /\ [Next]_vars => BornInv'
<1> SUFFICES ASSUME ControlType, BornInv, [Next]_vars
             PROVE  BornInv'
  OBVIOUS
<1> USE Contexts
        DEF BornInv, Siblings, Flags, ControlType, Initializing, Stirring, At, Go,
            Misuse, Mine, Process, threads, output, hist
<1>1. ASSUME NEW c \in Context, Step(c)
      PROVE  BornInv'
  <2>1. CASE Clear(c)
    BY <2>1 DEF Clear
  <2>2. CASE ResetAvailable(c)
    BY <2>2 DEF ResetAvailable
  <2>3. CASE Probe(c)
    BY <2>3 DEF Probe
  <2>4. CASE Mark(c)
    BY <2>4 DEF Mark
  <2>5. CASE Seed(c)
    <3>1. /\ pc[c] = "seed" /\ pc' = [pc EXCEPT ![c] = "idle"] /\ born' = born
          /\ global' = [global EXCEPT ![c[1]].pid = c[1]]
          /\ masked' = (masked \/ \E d \in born : d \in Siblings(c))
      BY <2>5 DEF Seed
    <3>2. c \notin born
      BY <3>1
    <3>3. \A p \in Process : p # c[1] => global'[p] = global[p]
      BY <3>1
    <3>4. global'[c[1]].pid = c[1]
      BY <3>1
    <3>5. c[1] = "child" /\ born # {} => masked'
      <4> SUFFICES ASSUME c[1] = "child", NEW d \in born
                   PROVE  d \in Siblings(c)
        BY <3>1
      <4>. QED
        BY <3>2
    <3>6. c[1] \in Process
      BY Contexts
    <3>. QED
      BY <3>1, <3>2, <3>3, <3>4, <3>5, <3>6
  <2>6. CASE SeedFails(c)
    BY <2>6 DEF SeedFails
  <2>7. CASE Buf(c)
    BY <2>7 DEF Buf
  <2>8. CASE Random(c)
    BY <2>8 DEF Random
  <2>9. CASE Pop(c)
    BY <2>9 DEF Pop
  <2>10. CASE MisuseForked(c)
    BY <2>10 DEF MisuseForked
  <2>11. CASE Close(c)
    BY <2>11 DEF Close
  <2>12. CASE Start(c)
    BY <2>12 DEF Start
  <2>13. CASE Fork(c)
    <3>1. PICK child \in Context :
              /\ child[1] = "child" /\ child[2] = c[2] /\ c[1] = "parent" /\ child # c
              /\ pc[c] = "idle" /\ process["parent"] = "running" /\ process["child"] = "unborn"
              /\ process' = [process EXCEPT !["child"] = "running"]
              /\ pc' = [pc EXCEPT ![child] = "idle"]
              /\ global' = [global EXCEPT !["child"] = global["parent"]]
              /\ stream' = [stream EXCEPT ![child] = stream[c]]
              /\ born' = IF stream[c].on THEN {child} ELSE {}
              /\ UNCHANGED <<kernel, seeds, draws, drawn, repeated, handed, again, overlapped, masked>>
      BY <2>13, ForkEffect
    <3>. QED
      BY <3>1, Contexts
  <2>. QED
    BY <1>1, <2>1, <2>2, <2>3, <2>4, <2>5, <2>6, <2>7, <2>8, <2>9, <2>10, <2>11,
        <2>12, <2>13 DEF Step
<1>2. CASE UNCHANGED vars
  BY <1>2 DEF vars
<1>. QED
  BY <1>1, <1>2 DEF Next

(* Where first uses do not overlap, the flag of getentropy is set before   *)
(* that of the process.                                                    *)
LEMMA FlagsStep == ControlType /\ UnbornInv /\ FlagsInv /\ [Next]_vars => FlagsInv'
<1> SUFFICES ASSUME ControlType, UnbornInv, FlagsInv, [Next]_vars
             PROVE  FlagsInv'
  OBVIOUS
<1> USE Contexts
        DEF UnbornInv, FlagsInv, Siblings, Flags, ControlType, Initializing,
            Stirring, At, Go, Misuse, Mine, Process, threads, output, hist
<1>1. ASSUME NEW c \in Context, Step(c)
      PROVE  FlagsInv'
  <2>1. CASE Clear(c)
    BY <2>1, ZenonT(30) DEF Clear
  <2>2. CASE ResetAvailable(c)
    BY <2>2 DEF ResetAvailable
  <2>3. CASE Probe(c)
    BY <2>3 DEF Probe
  <2>4. CASE Mark(c)
    BY <2>4 DEF Mark
  <2>5. CASE Seed(c)
    BY <2>5 DEF Seed
  <2>6. CASE SeedFails(c)
    BY <2>6 DEF SeedFails
  <2>7. CASE Buf(c)
    BY <2>7 DEF Buf
  <2>8. CASE Random(c)
    BY <2>8 DEF Random
  <2>9. CASE Pop(c)
    BY <2>9 DEF Pop
  <2>10. CASE MisuseForked(c)
    BY <2>10 DEF MisuseForked
  <2>11. CASE Close(c)
    BY <2>11 DEF Close
  <2>12. CASE Start(c)
    BY <2>12 DEF Start
  <2>13. CASE Fork(c)
    <3>1. PICK child \in Context :
              /\ child[1] = "child" /\ child[2] = c[2] /\ c[1] = "parent" /\ child # c
              /\ pc[c] = "idle" /\ process["parent"] = "running" /\ process["child"] = "unborn"
              /\ process' = [process EXCEPT !["child"] = "running"]
              /\ pc' = [pc EXCEPT ![child] = "idle"]
              /\ global' = [global EXCEPT !["child"] = global["parent"]]
              /\ stream' = [stream EXCEPT ![child] = stream[c]]
              /\ born' = IF stream[c].on THEN {child} ELSE {}
              /\ UNCHANGED <<kernel, seeds, draws, drawn, repeated, handed, again, overlapped, masked>>
      BY <2>13, ForkEffect
    <3>. QED
      BY <3>1
  <2>. QED
    BY <1>1, <2>1, <2>2, <2>3, <2>4, <2>5, <2>6, <2>7, <2>8, <2>9, <2>10, <2>11,
        <2>12, <2>13 DEF Step
<1>2. CASE UNCHANGED vars
  BY <1>2 DEF vars
<1>. QED
  BY <1>1, <1>2 DEF Next

(* Nothing but seeding changes the seed of a key, nor whose stream is on.  *)
LEMMA SeedKept ==
    ASSUME StreamType, NEW c \in Context, Clear(c) \/ Buf(c) \/ Random(c) \/ Pop(c)
    PROVE  /\ Others(c) /\ stream'[c].on = stream[c].on
           /\ stream'[c].key \in Key /\ stream'[c].key.seed = stream[c].key.seed
<1>1. CASE Clear(c)
  BY <1>1, ClearEffect, Fields
<1>2. CASE Buf(c)
  BY <1>2, BufEffect, Fields, UsedKey
<1>3. CASE Random(c)
  BY <1>3, RandomEffect, Fields, UsedKey
<1>4. CASE Pop(c)
  BY <1>4, PopEffect, Fields
<1>. QED
  BY <1>1, <1>2, <1>3, <1>4

(* Where getentropy works and first uses do not overlap, a stream that is  *)
(* on has a key from it.                                                   *)
LEMMA SeededStep ==
    ControlType /\ StreamType /\ FlagsInv /\ SeededInv /\ [Next]_vars => SeededInv'
<1> SUFFICES ASSUME ControlType, StreamType, FlagsInv, SeededInv, [Next]_vars
             PROVE  SeededInv'
  OBVIOUS
<1> USE Contexts
        DEF FlagsInv, SeededInv, ControlType, Initializing, Stirring, At, Go, Misuse,
            Mine, Process, threads, output, hist
<1>1. ASSUME NEW c \in Context, Step(c)
      PROVE  SeededInv'
  <2>1. CASE Clear(c)
    <3>1. Others(c) /\ stream'[c].on = stream[c].on /\ stream'[c].key.seed = stream[c].key.seed
      BY <2>1, SeedKept
    <3>2. kernel' = kernel /\ (overlapped => overlapped')
      BY <2>1 DEF Clear
    <3>. QED
      BY <3>1, <3>2 DEF Others
  <2>2. CASE ResetAvailable(c)
    BY <2>2 DEF ResetAvailable
  <2>3. CASE Probe(c)
    BY <2>3 DEF Probe
  <2>4. CASE Mark(c)
    BY <2>4 DEF Mark
  <2>5. CASE Seed(c)
    <3>1. Others(c) /\ (IF Mine(c).available
                              THEN stream'[c].key = [seed |-> seeds + 1, draws |-> <<>>]
                              ELSE stream'[c].key = stream[c].key)
      BY <2>5, SeedEffect
    <3>2. kernel' = kernel /\ overlapped' = overlapped /\ pc[c] = "seed"
      BY <2>5 DEF Seed
    <3>3. SUFFICES ASSUME kernel = "getentropy", ~overlapped
                   PROVE  stream'[c].key.seed # 0
      BY <3>1, <3>2 DEF Others
    <3>4. Mine(c).available
      BY <3>2, <3>3
    <3>. QED
      BY <3>1, <3>4
  <2>6. CASE SeedFails(c)
    BY <2>6 DEF SeedFails
  <2>7. CASE Buf(c)
    <3>1. Others(c) /\ stream'[c].on = stream[c].on /\ stream'[c].key.seed = stream[c].key.seed
      BY <2>7, SeedKept
    <3>2. kernel' = kernel /\ (overlapped => overlapped')
      BY <2>7 DEF Buf
    <3>. QED
      BY <3>1, <3>2 DEF Others
  <2>8. CASE Random(c)
    <3>1. Others(c) /\ stream'[c].on = stream[c].on /\ stream'[c].key.seed = stream[c].key.seed
      BY <2>8, SeedKept
    <3>2. kernel' = kernel /\ (overlapped => overlapped')
      BY <2>8 DEF Random
    <3>. QED
      BY <3>1, <3>2 DEF Others
  <2>9. CASE Pop(c)
    <3>1. Others(c) /\ stream'[c].on = stream[c].on /\ stream'[c].key.seed = stream[c].key.seed
      BY <2>9, SeedKept
    <3>2. kernel' = kernel /\ (overlapped => overlapped')
      BY <2>9 DEF Pop
    <3>. QED
      BY <3>1, <3>2 DEF Others
  <2>10. CASE MisuseForked(c)
    BY <2>10 DEF MisuseForked
  <2>11. CASE Close(c)
    BY <2>11 DEF Close, Closed, StreamType
  <2>12. CASE Start(c)
    BY <2>12 DEF Start
  <2>13. CASE Fork(c)
    <3>1. PICK child \in Context :
              /\ child[1] = "child" /\ child[2] = c[2] /\ c[1] = "parent" /\ child # c
              /\ pc[c] = "idle" /\ process["parent"] = "running" /\ process["child"] = "unborn"
              /\ process' = [process EXCEPT !["child"] = "running"]
              /\ pc' = [pc EXCEPT ![child] = "idle"]
              /\ global' = [global EXCEPT !["child"] = global["parent"]]
              /\ stream' = [stream EXCEPT ![child] = stream[c]]
              /\ born' = IF stream[c].on THEN {child} ELSE {}
              /\ UNCHANGED <<kernel, seeds, draws, drawn, repeated, handed, again, overlapped, masked>>
      BY <2>13, ForkEffect
    <3>. QED
      BY <3>1 DEF StreamType
  <2>. QED
    BY <1>1, <2>1, <2>2, <2>3, <2>4, <2>5, <2>6, <2>7, <2>8, <2>9, <2>10, <2>11,
        <2>12, <2>13 DEF Step
<1>2. CASE UNCHANGED vars
  BY <1>2 DEF vars
<1>. QED
  BY <1>1, <1>2 DEF Next

(* Where getentropy does not work no key is drawn.                         *)
LEMMA DeviceStep == ControlType /\ DeviceInv /\ [Next]_vars => DeviceInv'
<1> SUFFICES ASSUME ControlType, DeviceInv, [Next]_vars
             PROVE  DeviceInv'
  OBVIOUS
<1> USE Contexts
        DEF DeviceInv, Flags, ControlType, Initializing, Stirring, At, Go, Misuse,
            Mine, Process, threads, output, hist
<1>1. ASSUME NEW c \in Context, Step(c)
      PROVE  DeviceInv'
  <2>1. CASE Clear(c)
    BY <2>1 DEF Clear
  <2>2. CASE ResetAvailable(c)
    BY <2>2 DEF ResetAvailable
  <2>3. CASE Probe(c)
    BY <2>3 DEF Probe
  <2>4. CASE Mark(c)
    BY <2>4 DEF Mark
  <2>5. CASE Seed(c)
    BY <2>5 DEF Seed
  <2>6. CASE SeedFails(c)
    BY <2>6 DEF SeedFails
  <2>7. CASE Buf(c)
    BY <2>7 DEF Buf
  <2>8. CASE Random(c)
    BY <2>8 DEF Random
  <2>9. CASE Pop(c)
    BY <2>9 DEF Pop
  <2>10. CASE MisuseForked(c)
    BY <2>10 DEF MisuseForked
  <2>11. CASE Close(c)
    BY <2>11 DEF Close
  <2>12. CASE Start(c)
    BY <2>12 DEF Start
  <2>13. CASE Fork(c)
    <3>1. PICK child \in Context :
              /\ child[1] = "child" /\ child[2] = c[2] /\ c[1] = "parent" /\ child # c
              /\ pc[c] = "idle" /\ process["parent"] = "running" /\ process["child"] = "unborn"
              /\ process' = [process EXCEPT !["child"] = "running"]
              /\ pc' = [pc EXCEPT ![child] = "idle"]
              /\ global' = [global EXCEPT !["child"] = global["parent"]]
              /\ stream' = [stream EXCEPT ![child] = stream[c]]
              /\ born' = IF stream[c].on THEN {child} ELSE {}
              /\ UNCHANGED <<kernel, seeds, draws, drawn, repeated, handed, again, overlapped, masked>>
      BY <2>13, ForkEffect
    <3>. QED
      BY <3>1
  <2>. QED
    BY <1>1, <2>1, <2>2, <2>3, <2>4, <2>5, <2>6, <2>7, <2>8, <2>9, <2>10, <2>11,
        <2>12, <2>13 DEF Step
<1>2. CASE UNCHANGED vars
  BY <1>2 DEF vars
<1>. QED
  BY <1>1, <1>2 DEF Next

(* Blocks come of known seeds, pools of blocks, and words of pools.        *)
LEMMA DrawnStep ==
    ControlType /\ StreamType /\ StirInv /\ OutputType /\ DrawnInv
       /\ [Next]_vars
    => DrawnInv'
<1> SUFFICES ASSUME ControlType, StreamType, StirInv, OutputType, DrawnInv,
                    [Next]_vars
             PROVE  DrawnInv'
  OBVIOUS
<1> USE DEF DrawnInv, ControlType, Initializing, Stirring, At, Go, Misuse, Mine,
    Process, threads, output, hist
<1>1. ASSUME NEW c \in Context, Step(c)
      PROVE  DrawnInv'
  <2>1. CASE Clear(c)
    <3>1. /\ stream' \in [Context -> Stream] /\ Others(c)
            /\ stream'[c].on = stream[c].on /\ stream'[c].key = stream[c].key
            /\ stream'[c].nonce = 0 /\ stream'[c].left = 0 /\ stream'[c].pool = Block
      BY <2>1, ClearEffect DEF StreamType
    <3>. QED
      BY <2>1, <3>1 DEF Clear, Others
  <2>2. CASE ResetAvailable(c)
    BY <2>2 DEF ResetAvailable
  <2>3. CASE Probe(c)
    BY <2>3 DEF Probe
  <2>4. CASE Mark(c)
    BY <2>4 DEF Mark
  <2>5. CASE Seed(c)
    <3>1. /\ stream' \in [Context -> Stream] /\ Others(c)
            /\ stream'[c].on /\ stream'[c].nonce = stream[c].nonce
            /\ stream'[c].left = stream[c].left /\ stream'[c].pool = stream[c].pool
            /\ IF Mine(c).available
                 THEN stream'[c].key = [seed |-> seeds + 1, draws |-> <<>>]
                 ELSE stream'[c].key = stream[c].key
      BY <2>5, SeedEffect DEF StreamType
    <3>2. stream[c].left = 0 /\ seeds' >= seeds /\ UNCHANGED <<drawn, handed>>
      BY <2>5 DEF Seed, StirInv, StreamType
    <3>3. \A b \in drawn' : b.key.seed <= seeds'
      <4> SUFFICES ASSUME NEW b \in drawn
                   PROVE  b.key.seed <= seeds'
        BY <3>2
      <4>1. b.key.seed \in Nat /\ b.key.seed <= seeds
        BY DEF OutputType, BlockSet, Key
      <4>2. seeds \in Nat /\ seeds' \in Nat
        BY <2>5 DEF Seed, StreamType
      <4>. QED
        BY <3>2, <4>1, <4>2
    <3>4. stream'[c].left = 0
      BY <3>1, <3>2
    <3>. QED
      BY <3>1, <3>2, <3>3, <3>4 DEF Others
  <2>6. CASE SeedFails(c)
    BY <2>6 DEF SeedFails
  <2>7. CASE Buf(c)
    <3>1. /\ stream' \in [Context -> Stream] /\ Others(c)
            /\ stream'[c].on = stream[c].on /\ stream'[c].key = Used(stream[c].key, "buf")
            /\ stream'[c].nonce = stream[c].nonce + 1
            /\ stream'[c].left = stream[c].left /\ stream'[c].pool = stream[c].pool
      BY <2>7, BufEffect DEF StreamType
    <3>2. /\ drawn' = drawn \union {Upcoming(c)} /\ handed' = handed /\ seeds' = seeds
          /\ Upcoming(c).key = stream[c].key
          /\ stream'[c].key.seed = stream[c].key.seed
      BY <2>7, SeedKept DEF Buf, Generate, Upcoming
    <3>. QED
      BY <3>1, <3>2, Fields DEF Others, StreamType
  <2>8. CASE Random(c)
    <3>1. /\ stream' \in [Context -> Stream] /\ Others(c)
            /\ stream'[c].on = stream[c].on /\ stream'[c].key = Used(stream[c].key, "random")
            /\ stream'[c].nonce = stream[c].nonce + 1
            /\ stream'[c].left = Words - 1 /\ stream'[c].pool = Upcoming(c)
      BY <2>8, RandomEffect DEF StreamType
    <3>2. /\ drawn' = drawn \union {Upcoming(c)} /\ seeds' = seeds
          /\ handed' \subseteq handed \union {<<Upcoming(c), Words>>}
          /\ Upcoming(c).key = stream[c].key
          /\ stream'[c].key.seed = stream[c].key.seed
      BY <2>8, SeedKept DEF Random, Generate, Upcoming, HandOut
    <3>. QED
      BY <3>1, <3>2, Fields DEF Others, StreamType
  <2>9. CASE Pop(c)
    <3>1. /\ stream' \in [Context -> Stream] /\ Others(c)
            /\ stream'[c].on = stream[c].on /\ stream'[c].key = stream[c].key
            /\ stream'[c].nonce = stream[c].nonce
            /\ stream'[c].left = stream[c].left - 1 /\ stream'[c].pool = stream[c].pool
      BY <2>9, PopEffect DEF StreamType
    <3>2. /\ drawn' = drawn /\ seeds' = seeds /\ stream[c].left > 0
          /\ handed' \subseteq handed \union {<<stream[c].pool, stream[c].left>>}
      BY <2>9 DEF Pop, HandOut
    <3>. QED
      BY <3>1, <3>2, Fields DEF Others, StreamType
  <2>10. CASE MisuseForked(c)
    BY <2>10 DEF MisuseForked
  <2>11. CASE Close(c)
    BY <2>11 DEF Close, Closed, StreamType
  <2>12. CASE Start(c)
    BY <2>12 DEF Start
  <2>13. CASE Fork(c)
    <3>1. PICK child \in Context :
              /\ child[1] = "child" /\ child[2] = c[2] /\ c[1] = "parent" /\ child # c
              /\ pc[c] = "idle" /\ process["parent"] = "running" /\ process["child"] = "unborn"
              /\ process' = [process EXCEPT !["child"] = "running"]
              /\ pc' = [pc EXCEPT ![child] = "idle"]
              /\ global' = [global EXCEPT !["child"] = global["parent"]]
              /\ stream' = [stream EXCEPT ![child] = stream[c]]
              /\ born' = IF stream[c].on THEN {child} ELSE {}
              /\ UNCHANGED <<kernel, seeds, draws, drawn, repeated, handed, again, overlapped, masked>>
      BY <2>13, ForkEffect
    <3>. QED
      BY <3>1 DEF StreamType
  <2>. QED
    BY <1>1, <2>1, <2>2, <2>3, <2>4, <2>5, <2>6, <2>7, <2>8, <2>9, <2>10, <2>11,
        <2>12, <2>13 DEF Step
<1>2. CASE UNCHANGED vars
  BY <1>2 DEF vars
<1>. QED
  BY <1>1, <1>2 DEF Next

(* That first uses overlapped, or that a child was masked, is not          *)
(* forgotten.                                                              *)
LEMMA ToldBefore ==
    ASSUME NEW c \in Context, Step(c), ControlType
    PROVE  Told' => Told
<1> USE DEF Told, hist
<1>1. CASE Clear(c)
  BY <1>1 DEF Clear
<1>2. CASE ResetAvailable(c)
  BY <1>2 DEF ResetAvailable
<1>3. CASE Probe(c)
  BY <1>3 DEF Probe
<1>4. CASE Mark(c)
  BY <1>4 DEF Mark
<1>5. CASE Seed(c)
  BY <1>5 DEF Seed
<1>6. CASE SeedFails(c)
  BY <1>6 DEF SeedFails
<1>7. CASE Buf(c)
  BY <1>7 DEF Buf
<1>8. CASE Random(c)
  BY <1>8 DEF Random
<1>9. CASE Pop(c)
  BY <1>9 DEF Pop
<1>10. CASE MisuseForked(c)
  BY <1>10 DEF MisuseForked
<1>11. CASE Close(c)
  BY <1>11 DEF Close
<1>12. CASE Start(c)
  BY <1>12 DEF Start
<1>13. CASE Fork(c)
  BY <1>13, ForkEffect DEF Fork
<1>. QED
  BY <1>1, <1>2, <1>3, <1>4, <1>5, <1>6, <1>7, <1>8, <1>9, <1>10, <1>11, <1>12,
      <1>13 DEF Step

(* A step that only moves flags gives out nothing and brings no stream     *)
(* back to life.                                                           *)
LEMMA QuietStep ==
    ASSUME BaseInv, NEW c \in Context, Quiet(c)
    PROVE  /\ UNCHANGED <<drawn, repeated, handed, again>>
           /\ \A d \in Context : Active(d)' => Active(d) /\ stream'[d] = stream[d]
<1> USE DEF BaseInv, TypeInv, ControlType, Active, At, Go, Misuse, threads, output, hist
<1>1. CASE Clear(c)
  BY <1>1, ClearEffect DEF Clear, Others
<1>2. CASE ResetAvailable(c)
  BY <1>2 DEF ResetAvailable
<1>3. CASE Probe(c)
  BY <1>3 DEF Probe
<1>4. CASE Mark(c)
  BY <1>4 DEF Mark
<1>5. CASE SeedFails(c)
  BY <1>5 DEF SeedFails
<1>6. CASE MisuseForked(c)
  BY <1>6 DEF MisuseForked
<1>7. CASE Close(c)
  BY <1>7 DEF Close, Closed, ZeroKey, StreamType
<1>8. CASE Start(c)
  BY <1>8 DEF Start, UnbornInv, OffInv, ZeroKey
<1>9. CASE Fork(c)
  <2>1. PICK child \in Context :
            /\ child[1] = "child" /\ child[2] = c[2] /\ c[1] = "parent" /\ child # c
            /\ pc[c] = "idle" /\ process["parent"] = "running" /\ process["child"] = "unborn"
            /\ process' = [process EXCEPT !["child"] = "running"]
            /\ pc' = [pc EXCEPT ![child] = "idle"]
            /\ global' = [global EXCEPT !["child"] = global["parent"]]
            /\ stream' = [stream EXCEPT ![child] = stream[c]]
            /\ born' = IF stream[c].on THEN {child} ELSE {}
            /\ UNCHANGED <<kernel, seeds, draws, drawn, repeated, handed, again, overlapped, masked>>
    BY <1>9, ForkEffect
  <2>2. born = {}
    BY <2>1 DEF UnbornInv, BornInv
  <2>3. \A d \in Context : d # child => stream'[d] = stream[d] /\ pc'[d] = pc[d] /\ d \notin born
    BY <2>1, <2>2
  <2>4. Active(child)' => stream[c].key.seed # 0 /\ ~stream[c].on
    BY <2>1 DEF StreamType
  <2>. QED
    BY <2>1, <2>3, <2>4 DEF OffInv, ZeroKey
<1>. QED
  BY <1>1, <1>2, <1>3, <1>4, <1>5, <1>6, <1>7, <1>8, <1>9 DEF Quiet

(* Seeding leaves one stream of the new seed, with no words, and the       *)
(* others alone.                                                           *)
LEMMA SeedStep ==
    ASSUME BaseInv, NEW c \in Context, Seed(c), Told
    PROVE  /\ UNCHANGED <<drawn, repeated, handed, again>>
           /\ \A d \in Context \ {c} : Active(d)' => Active(d) /\ stream'[d] = stream[d]
           /\ Active(c)' => stream'[c].key.seed = seeds + 1 /\ stream'[c].left = 0
<1> USE DEF BaseInv, TypeInv
<1>1. /\ stream' \in [Context -> Stream] /\ Others(c)
        /\ stream'[c].on /\ stream'[c].nonce = stream[c].nonce
        /\ stream'[c].left = stream[c].left /\ stream'[c].pool = stream[c].pool
        /\ IF Mine(c).available
             THEN stream'[c].key = [seed |-> seeds + 1, draws |-> <<>>]
             ELSE stream'[c].key = stream[c].key
  BY SeedEffect DEF StreamType
<1>2. /\ UNCHANGED <<drawn, repeated, handed, again, born>>
      /\ pc[c] = "seed" /\ \A d \in Context \ {c} : pc'[d] = pc[d]
  BY DEF Seed, At, Go, output, ControlType
<1>3. stream[c].left = 0
  BY <1>2 DEF StirInv, Stirring
<1>4. Active(c)' => Mine(c).available
  <2>1. CASE kernel = "getentropy"
    BY <1>2, <2>1, Contexts DEF FlagsInv, Told, Mine
  <2>2. CASE kernel # "getentropy"
    <3>1. seeds = 0
      BY <2>2 DEF DeviceInv
    <3>2. stream[c].key.seed = 0
      BY <3>1, Fields DEF StreamType
    <3>. QED
      BY <1>1, <3>2 DEF Active
  <2>. QED
    BY <2>1, <2>2
<1>. QED
  BY <1>1, <1>2, <1>3, <1>4 DEF Active, Others

(* A draw adds one block, the one upcoming for an active stream.           *)
LEMMA DrawStep ==
    ASSUME BaseInv, NEW c \in Context, Buf(c) \/ Random(c), Told
    PROVE  /\ drawn' = drawn \union {Upcoming(c)}
           /\ repeated' = repeated \union (drawn \intersect {Upcoming(c)})
           /\ Upcoming(c).key = stream[c].key
           /\ stream[c].key.seed # 0 => Active(c)
           /\ \A d \in Context : Active(d)' => Active(d)
           /\ Others(c)
           /\ stream'[c].key.seed = stream[c].key.seed
           /\ Len(stream'[c].key.draws) = Len(stream[c].key.draws) + 1
<1> USE DEF BaseInv, TypeInv
<1>1. /\ drawn' = drawn \union {Upcoming(c)}
      /\ repeated' = repeated \union (drawn \intersect {Upcoming(c)})
      /\ Upcoming(c).key = stream[c].key
      /\ May(c) /\ pc[c] = "idle" /\ UNCHANGED <<pc, born>>
  BY DEF Buf, Random, Generate, Upcoming, At, threads, hist
<1>2. /\ Others(c) /\ stream'[c].key.seed = stream[c].key.seed
      /\ Len(stream'[c].key.draws) = Len(stream[c].key.draws) + 1
  BY SeedKept, BufEffect, RandomEffect, Fields, UsedKey
<1>3. c \notin born
  BY <1>1 DEF BornInv, Told, May, Mine
<1>. QED
  BY <1>1, <1>2, <1>3 DEF Active, Others

(* A word from the pool adds no block and leaves the stream one word       *)
(* shorter.                                                                *)
LEMMA PopStep ==
    ASSUME BaseInv, NEW c \in Context, Pop(c)
    PROVE  /\ UNCHANGED <<drawn, repeated>>
           /\ \A d \in Context : Active(d)' => Active(d)
           /\ Others(c) /\ stream'[c].key = stream[c].key /\ stream'[c].pool = stream[c].pool
           /\ stream[c].left > 0 /\ stream'[c].left = stream[c].left - 1
           /\ c \notin born /\ stream[c].key.seed # 0 => Active(c)
<1> USE DEF BaseInv, TypeInv
<1>1. /\ UNCHANGED <<drawn, repeated, pc, born>>
      /\ pc[c] = "idle" /\ stream[c].left > 0
  BY DEF Pop, At, threads, hist
<1>2. /\ Others(c) /\ stream'[c].key = stream[c].key /\ stream'[c].pool = stream[c].pool
      /\ stream'[c].left = stream[c].left - 1
  BY PopEffect
<1>. QED
  BY <1>1, <1>2 DEF Active, Others

(* Of one seed, at most one stream is active, after every step too.        *)
LEMMA OneActiveStep == BaseInv /\ OneActive /\ [Next]_vars => OneActive'
<1> SUFFICES ASSUME BaseInv, OneActive, [Next]_vars, Told'
             PROVE  OneActive'
  BY DEF OneActive
<1>1. CASE UNCHANGED vars
  BY <1>1 DEF vars, output, hist, threads, Told, Active, OneActive
<1>2. ASSUME NEW c \in Context, Step(c)
      PROVE  OneActive'
  <2>1. Told /\ ControlType /\ StreamType
    BY <1>2, ToldBefore DEF BaseInv, TypeInv
  <2>2. CASE Quiet(c)
    BY <2>1, <2>2, QuietStep DEF OneActive
  <2>3. CASE Seed(c)
    <3>1. /\ \A d \in Context \ {c} : Active(d)' => Active(d) /\ stream'[d] = stream[d]
          /\ Active(c)' => stream'[c].key.seed = seeds + 1
      BY <2>1, <2>3, SeedStep
    <3>2. \A d \in Context : seeds + 1 # stream[d].key.seed
      <4> TAKE d \in Context
      <4>1. stream[d].key.seed \in Nat /\ stream[d].key.seed <= seeds /\ seeds \in Nat
        BY <2>1, Fields DEF StreamType
      <4>. QED
        BY <4>1
    <3>. QED
      BY <2>1, <3>1, <3>2 DEF OneActive
  <2>4. CASE Buf(c) \/ Random(c)
    BY <2>1, <2>4, DrawStep DEF OneActive, Others
  <2>5. CASE Pop(c)
    BY <2>1, <2>5, PopStep DEF OneActive, Others
  <2>. QED
    BY <1>2, <2>2, <2>3, <2>4, <2>5 DEF Step, Quiet
<1>. QED
  BY <1>1, <1>2 DEF Next

(* The blocks that have come of the seed of an active stream stay behind   *)
(* it.                                                                     *)
LEMMA BlocksBehindStep ==
    BaseInv /\ OneActive /\ BlocksBehind /\ [Next]_vars => BlocksBehind'
<1> SUFFICES ASSUME BaseInv, OneActive, BlocksBehind, [Next]_vars, Told'
             PROVE  BlocksBehind'
  BY DEF BlocksBehind
<1>1. CASE UNCHANGED vars
  BY <1>1 DEF vars, output, hist, threads, Told, Active, BlocksBehind, OneActive
<1>2. ASSUME NEW c \in Context, Step(c)
      PROVE  BlocksBehind'
  <2>1. Told /\ ControlType /\ StreamType
    BY <1>2, ToldBefore DEF BaseInv, TypeInv
  <2>2. CASE Quiet(c)
    BY <2>1, <2>2, QuietStep DEF BlocksBehind
  <2>3. CASE Seed(c)
    <3>1. /\ \A d \in Context \ {c} : Active(d)' => Active(d) /\ stream'[d] = stream[d]
          /\ Active(c)' => stream'[c].key.seed = seeds + 1
          /\ drawn' = drawn
      BY <2>1, <2>3, SeedStep
    <3>2. \A b \in drawn : seeds + 1 # b.key.seed
      <4> TAKE b \in drawn
      <4>1. b.key.seed \in Nat /\ b.key.seed <= seeds /\ seeds \in Nat
        BY <2>1 DEF StreamType, BaseInv, TypeInv, OutputType, DrawnInv, BlockSet, Key
      <4>. QED
        BY <4>1
    <3>. QED
      BY <2>1, <3>1, <3>2 DEF BlocksBehind
  <2>4. CASE Buf(c) \/ Random(c)
    <3>1. /\ drawn' = drawn \union {Upcoming(c)}
          /\ Upcoming(c).key = stream[c].key
          /\ stream[c].key.seed # 0 => Active(c)
          /\ \A d \in Context : Active(d)' => Active(d)
          /\ Others(c)
          /\ stream'[c].key.seed = stream[c].key.seed
          /\ Len(stream'[c].key.draws) = Len(stream[c].key.draws) + 1
      BY <2>1, <2>4, DrawStep
    <3>2. SUFFICES ASSUME NEW d \in Context, NEW b \in drawn', Active(d)',
                          b.key.seed = stream'[d].key.seed
                   PROVE  Len(b.key.draws) < Len(stream'[d].key.draws)
      BY DEF BlocksBehind
    <3>3. Active(d) /\ b.key.seed = stream[d].key.seed /\ stream[d].key.seed # 0
      BY <3>1, <3>2 DEF Active, Others
    <3>4. Len(stream[c].key.draws) \in Nat
      BY <2>1, Fields
    <3>5. CASE b = Upcoming(c)
      <4>1. Active(c) /\ c = d
        BY <2>1, <3>1, <3>3, <3>5 DEF OneActive
      <4>. QED
        BY <3>1, <3>4, <3>5, <4>1
    <3>6. CASE b \in drawn
      <4>1. Len(b.key.draws) < Len(stream[d].key.draws) /\ Len(b.key.draws) \in Nat
        BY <2>1, <3>3, <3>6 DEF BlocksBehind, BaseInv, TypeInv, OutputType, BlockSet, Key
      <4>2. CASE d = c
        BY <3>1, <3>4, <4>1, <4>2
      <4>3. CASE d # c
        BY <3>1, <4>1, <4>3 DEF Others
      <4>. QED
        BY <4>2, <4>3
    <3>. QED
      BY <3>1, <3>5, <3>6
  <2>5. CASE Pop(c)
    BY <2>1, <2>5, PopStep DEF BlocksBehind, Others
  <2>. QED
    BY <1>2, <2>2, <2>3, <2>4, <2>5 DEF Step, Quiet
<1>. QED
  BY <1>1, <1>2 DEF Next

(* No step draws a block that was drawn.                                   *)
LEMMA BlockOnceStep ==
    BaseInv /\ BlocksBehind /\ BlockOnce /\ [Next]_vars => BlockOnce'
<1> SUFFICES ASSUME BaseInv, BlocksBehind, BlockOnce, [Next]_vars, Told'
             PROVE  BlockOnce'
  BY DEF BlockOnce
<1>1. CASE UNCHANGED vars
  BY <1>1 DEF vars, output, hist, threads, Told, Active, BlockOnce, BlocksBehind
<1>2. ASSUME NEW c \in Context, Step(c)
      PROVE  BlockOnce'
  <2>1. Told /\ ControlType /\ StreamType
    BY <1>2, ToldBefore DEF BaseInv, TypeInv
  <2>2. CASE Quiet(c)
    BY <2>1, <2>2, QuietStep DEF BlockOnce
  <2>3. CASE Seed(c)
    BY <2>1, <2>3, SeedStep DEF BlockOnce
  <2>4. CASE Buf(c) \/ Random(c)
    <3>1. /\ repeated' = repeated \union (drawn \intersect {Upcoming(c)})
          /\ Upcoming(c).key = stream[c].key
          /\ stream[c].key.seed # 0 => Active(c)
      BY <2>1, <2>4, DrawStep
    <3>2. Len(stream[c].key.draws) \in Nat
      BY <2>1, Fields
    <3>3. Upcoming(c) \in drawn => stream[c].key.seed = 0
      BY <2>1, <3>1, <3>2 DEF BlocksBehind
    <3>. QED
      BY <2>1, <3>1, <3>3 DEF BlockOnce
  <2>5. CASE Pop(c)
    BY <2>1, <2>5, PopStep DEF BlockOnce
  <2>. QED
    BY <1>2, <2>2, <2>3, <2>4, <2>5 DEF Step, Quiet
<1>. QED
  BY <1>1, <1>2 DEF Next

(* What was handed out of the pool of an active stream stays above the     *)
(* words it has left.                                                      *)
LEMMA WordsBehindStep ==
    BaseInv /\ OneActive /\ BlocksBehind /\ WordsBehind /\ [Next]_vars
    => WordsBehind'
<1> SUFFICES ASSUME BaseInv, OneActive, BlocksBehind, WordsBehind, [Next]_vars,
                    Told'
             PROVE  WordsBehind'
  BY DEF WordsBehind
<1>1. CASE UNCHANGED vars
  BY <1>1 DEF vars, output, hist, threads, Told, Active, BlocksBehind, OneActive,
      WordsBehind
<1>2. ASSUME NEW c \in Context, Step(c)
      PROVE  WordsBehind'
  <2>1. Told /\ ControlType /\ StreamType
    BY <1>2, ToldBefore DEF BaseInv, TypeInv
  <2>2. CASE Quiet(c)
    BY <2>1, <2>2, QuietStep DEF WordsBehind
  <2>3. CASE Seed(c)
    <3>1. /\ \A d \in Context \ {c} : Active(d)' => Active(d) /\ stream'[d] = stream[d]
          /\ Active(c)' => stream'[c].left = 0
          /\ handed' = handed
      BY <2>1, <2>3, SeedStep
    <3>. QED
      BY <2>1, <3>1 DEF WordsBehind
  <2>4. CASE Buf(c) \/ Random(c)
    <3>1. /\ Upcoming(c).key = stream[c].key
          /\ stream[c].key.seed # 0 => Active(c)
          /\ \A d \in Context : Active(d)' => Active(d)
          /\ Others(c) /\ stream'[c].key.seed = stream[c].key.seed
      BY <2>1, <2>4, DrawStep
    <3>2. Upcoming(c) \in drawn => stream[c].key.seed = 0
      <4>1. Len(stream[c].key.draws) \in Nat
        BY <2>1, Fields
      <4>. QED
        BY <2>1, <3>1, <4>1 DEF BlocksBehind
    <3>3. CASE Buf(c)
      <4>1. handed' = handed /\ again' = again /\ stream'[c].left = stream[c].left
            /\ stream'[c].pool = stream[c].pool
        BY <2>1, <3>3, BufEffect DEF Buf
      <4>. QED
        BY <2>1, <3>1, <4>1 DEF WordsBehind, Others
    <3>4. CASE Random(c)
      <4>1. /\ handed' \subseteq handed \union {<<Upcoming(c), Words>>}
            /\ stream'[c].left = Words - 1 /\ stream'[c].pool = Upcoming(c)
        BY <2>1, <3>4, RandomEffect DEF Random, HandOut
      <4>2. SUFFICES ASSUME NEW d \in Context, NEW w \in handed', Active(d)', stream'[d].left > 0,
                            w[1] = stream'[d].pool
                     PROVE  w[2] > stream'[d].left
        BY DEF WordsBehind
      <4>3. Active(d)
        BY <3>1, <4>2
      <4>4. CASE d = c
        <5>1. w[1] \in drawn => FALSE
          BY <3>2, <4>1, <4>2, <4>3, <4>4 DEF Active
        <5>2. w \notin handed
          BY <5>1 DEF BaseInv, DrawnInv
        <5>3. w[2] = Words
          BY <4>1, <4>2, <5>2
        <5>. QED
          BY <4>1, <4>4, <5>3, BoundsAssumption
      <4>5. CASE d # c
        <5>1. stream'[d] = stream[d]
          BY <3>1, <4>5 DEF Others
        <5>2. stream[d].pool \in drawn /\ stream[d].key.seed # 0
              /\ stream[d].pool.key.seed = stream[d].key.seed
          BY <4>2, <4>3, <5>1 DEF Active, BaseInv, DrawnInv
        <5>3. w[1] # Upcoming(c)
          BY <3>1, <3>2, <4>2, <5>1, <5>2
        <5>4. w \in handed
          BY <4>1, <4>2, <5>3
        <5>. QED
          BY <2>1, <4>2, <4>3, <5>1, <5>4 DEF WordsBehind
      <4>. QED
        BY <4>4, <4>5
    <3>. QED
      BY <2>4, <3>3, <3>4
  <2>5. CASE Pop(c)
    <3>1. /\ handed' \subseteq handed \union {<<stream[c].pool, stream[c].left>>}
          /\ c \in born => handed' = handed
      BY <2>5 DEF Pop, HandOut
    <3>2. /\ \A d \in Context : Active(d)' => Active(d)
          /\ Others(c) /\ stream'[c].key = stream[c].key /\ stream'[c].pool = stream[c].pool
          /\ stream[c].left > 0 /\ stream'[c].left = stream[c].left - 1
          /\ c \notin born /\ stream[c].key.seed # 0 => Active(c)
      BY <2>1, <2>5, PopStep
    <3>3. SUFFICES ASSUME NEW d \in Context, NEW w \in handed', Active(d)', stream'[d].left > 0,
                          w[1] = stream'[d].pool
                   PROVE  w[2] > stream'[d].left
      BY DEF WordsBehind
    <3>4. /\ Active(d) /\ stream[d].left > 0 /\ w[1] = stream[d].pool
          /\ stream[d].key.seed # 0
      BY <2>1, <3>2, <3>3, Fields DEF Active, Others
    <3>5. CASE w \in handed
      <4>1. w[2] > stream[d].left /\ w[2] \in Nat
        BY <2>1, <3>4, <3>5 DEF WordsBehind, BaseInv, TypeInv, OutputType
      <4>2. stream'[d].left = stream[d].left \/ stream'[d].left = stream[d].left - 1
        BY <3>2 DEF Others
      <4>. QED
        BY <2>1, <4>1, <4>2, Fields
    <3>6. CASE w \notin handed
      <4>1. w[1] = stream[c].pool /\ w[2] = stream[c].left /\ c \notin born
        BY <3>1, <3>3, <3>6
      <4>2. stream[d].key.seed = stream[c].key.seed
        BY <3>2, <3>4, <4>1 DEF BaseInv, DrawnInv
      <4>3. c = d
        BY <2>1, <3>2, <3>4, <4>1, <4>2 DEF OneActive
      <4>. QED
        BY <2>1, <3>2, <4>1, <4>3, Fields
    <3>. QED
      BY <3>5, <3>6
  <2>. QED
    BY <1>2, <2>2, <2>3, <2>4, <2>5 DEF Step, Quiet
<1>. QED
  BY <1>1, <1>2 DEF Next

(* No step hands out a word that was handed out.                           *)
LEMMA WordOnceStep ==
    BaseInv /\ BlocksBehind /\ WordsBehind /\ WordOnce /\ [Next]_vars => WordOnce'
<1> SUFFICES ASSUME BaseInv, BlocksBehind, WordsBehind, WordOnce, [Next]_vars, Told'
             PROVE  WordOnce'
  BY DEF WordOnce
<1>1. CASE UNCHANGED vars
  BY <1>1 DEF vars, output, hist, threads, Told, Active, BlocksBehind, WordOnce,
      WordsBehind
<1>2. ASSUME NEW c \in Context, Step(c)
      PROVE  WordOnce'
  <2>1. Told /\ ControlType /\ StreamType
    BY <1>2, ToldBefore DEF BaseInv, TypeInv
  <2>2. CASE Quiet(c)
    BY <2>1, <2>2, QuietStep DEF WordOnce
  <2>3. CASE Seed(c)
    BY <2>1, <2>3, SeedStep DEF WordOnce
  <2>4. CASE Buf(c) \/ Random(c)
    <3>1. /\ Upcoming(c).key = stream[c].key
          /\ stream[c].key.seed # 0 => Active(c)
          /\ \A d \in Context : Active(d)' => Active(d)
          /\ Others(c) /\ stream'[c].key.seed = stream[c].key.seed
      BY <2>1, <2>4, DrawStep
    <3>2. Upcoming(c) \in drawn => stream[c].key.seed = 0
      <4>1. Len(stream[c].key.draws) \in Nat
        BY <2>1, Fields
      <4>. QED
        BY <2>1, <3>1, <4>1 DEF BlocksBehind
    <3>3. CASE Buf(c)
      <4>1. handed' = handed /\ again' = again /\ stream'[c].left = stream[c].left
            /\ stream'[c].pool = stream[c].pool
        BY <2>1, <3>3, BufEffect DEF Buf
      <4>. QED
        BY <2>1, <4>1 DEF WordOnce
    <3>4. CASE Random(c)
      <4>1. again' \subseteq again \union (handed \intersect {<<Upcoming(c), Words>>})
        BY <3>4 DEF Random, HandOut
      <4>2. <<Upcoming(c), Words>> \in handed => stream[c].key.seed = 0
        BY <3>2 DEF BaseInv, DrawnInv
      <4>. QED
        BY <2>1, <3>1, <4>1, <4>2 DEF WordOnce
    <3>. QED
      BY <2>4, <3>3, <3>4
  <2>5. CASE Pop(c)
    <3>1. /\ again' \subseteq again \union (handed \intersect {<<stream[c].pool, stream[c].left>>})
          /\ c \in born => again' = again
      BY <2>5 DEF Pop, HandOut
    <3>2. /\ stream[c].left > 0
          /\ c \notin born /\ stream[c].key.seed # 0 => Active(c)
      BY <2>1, <2>5, PopStep
    <3>3. stream[c].pool.key.seed = stream[c].key.seed
      BY <3>2 DEF BaseInv, DrawnInv
    <3>4. c \notin born /\ <<stream[c].pool, stream[c].left>> \in handed => stream[c].key.seed = 0
      BY <2>1, <3>2, Fields DEF WordsBehind
    <3>. QED
      BY <2>1, <3>1, <3>3, <3>4 DEF WordOnce
  <2>. QED
    BY <1>2, <2>2, <2>3, <2>4, <2>5 DEF Step, Quiet
<1>. QED
  BY <1>1, <1>2 DEF Next

(* The invariant holds before the first call.                              *)
LEMMA InitRandom == Init => RandomInv
<1> SUFFICES ASSUME Init
             PROVE  RandomInv
  OBVIOUS
<1> USE Empty, BoundsAssumption DEF Init
<1>0. PICK t \in Thread : pc = [c \in Context |-> IF c = <<"parent", t>> THEN "idle" ELSE "unborn"]
  OBVIOUS
<1>1. /\ \A c \in Context : stream[c] = Closed /\ (pc[c] = "unborn" \/ (pc[c] = "idle" /\ c[1] = "parent"))
      /\ seeds = 0 /\ drawn = {} /\ handed = {} /\ born = {} /\ repeated = {} /\ again = {}
  <2>1. \A c \in Context : pc[c] = "unborn" \/ (pc[c] = "idle" /\ c[1] = "parent")
    <3> TAKE c \in Context
    <3>1. c = <<"parent", t>> => c[1] = "parent"
      OBVIOUS
    <3>. QED
      BY <1>0, <3>1
  <2>. QED
    BY <2>1
<1>2. /\ ~Closed.on /\ Closed.left = 0 /\ Closed.nonce = 0 /\ Closed.key = ZeroKey
      /\ ZeroKey.seed = 0 /\ Closed.pool.key.seed = 0 /\ Len(ZeroKey.draws) = 0
  BY DEF Closed, ZeroKey, Block
<1>3. StreamType /\ StirInv /\ OutputType
  BY <1>1, <1>2 DEF StreamType, StirInv, OutputType, Stirring, Initializing
<1>4. ControlType
  <2>1. pc \in [Context -> {"unborn", "idle", "seed"} \union Initializing]
    BY <1>0
  <2>2. global \in [Process -> Flags] /\ process \in [Process -> {"unborn", "running", "misuse"}]
    BY DEF Flags, Process
  <2>3. kernel \in Kernels /\ seeds \in 0 .. MaxStirs /\ draws \in 0 .. MaxDraws
    OBVIOUS
  <2>. QED
    BY <2>1, <2>2, <2>3 DEF ControlType
<1>5. UnbornInv /\ OffInv /\ BornInv /\ FlagsInv /\ SeededInv /\ DeviceInv
  BY <1>1, <1>2 DEF UnbornInv, OffInv, BornInv, FlagsInv, SeededInv, DeviceInv,
      Initializing, Process, Mine
<1>6. DrawnInv /\ OneActive /\ BlocksBehind /\ WordsBehind /\ BlockOnce /\ WordOnce
  BY <1>1, <1>2 DEF DrawnInv, OneActive, BlocksBehind, WordsBehind, BlockOnce,
      WordOnce, Active
<1>. QED
  BY <1>3, <1>4, <1>5, <1>6 DEF RandomInv, BaseInv, TypeInv

(* RandomInv is inductive.                                                 *)
LEMMA StepRandom == RandomInv /\ [Next]_vars => RandomInv'
<1> SUFFICES ASSUME RandomInv, [Next]_vars
             PROVE  RandomInv'
  OBVIOUS
<1> USE DEF RandomInv
<1>1. BaseInv'
  BY StreamStep, StirStep, ControlStep, OutputStep, UnbornStep, OffStep, BornStep,
      FlagsStep,
     SeededStep, DeviceStep, DrawnStep DEF BaseInv, TypeInv
<1>. QED
  BY <1>1, OneActiveStep, BlocksBehindStep, WordsBehindStep, BlockOnceStep, WordOnceStep

(* The invariant holds of every behaviour.                                 *)
LEMMA Generator == Spec => []RandomInv
BY InitRandom, StepRandom, PTL DEF Spec

(* The type invariant of the model follows from the one used here.         *)
LEMMA TypesHold == TypeInv => TypeOK
<1> SUFFICES ASSUME TypeInv
             PROVE  TypeOK
  OBVIOUS
<1> USE DEF TypeInv, ControlType
<1>1. \A c \in Context : /\ KeyOK(stream[c].key) /\ KeyOK(stream[c].pool.key)
                         /\ stream[c].nonce <= Len(stream[c].key.draws)
                         /\ stream[c].left \in 0 .. Words
                         /\ stream[c].left > 0 => stream[c].on
  BY Fields DEF StreamType, BlockSet, Key, KeyOK
<1>2. \A p \in Process : /\ global[p].initialized \in BOOLEAN
                         /\ global[p].available \in BOOLEAN
                         /\ global[p].pid \in Process \union {"none"}
  BY DEF Flags
<1>. QED
  BY <1>1, <1>2 DEF TypeOK

(* randombytes_internal_random_stir leaves no stream on without a key from *)
(* the entropy source, where getentropy works and first uses do not        *)
(* overlap.                                                                *)
THEOREM Seeded == Spec => []SeededWhenOn
<1>1. RandomInv => SeededWhenOn
  BY TypesHold DEF RandomInv, BaseInv, SeededInv, SeededWhenOn
<1>. QED
  BY <1>1, Generator, PTL

(* No block of a seeded stream is generated twice, by any thread of the    *)
(* parent or of a forked child, unless first uses overlapped or another    *)
(* thread of the child has stirred.                                        *)
THEOREM BlocksOnce == Spec => []BlockOnce
<1>1. RandomInv => BlockOnce
  BY DEF RandomInv
<1>. QED
  BY <1>1, Generator, PTL

(* Under the same conditions no word of the pool is handed out twice, but  *)
(* for those that a child pops off the pool it was born with.              *)
THEOREM WordsOnce == Spec => []WordOnce
<1>1. RandomInv => WordOnce
  BY DEF RandomInv
<1>. QED
  BY <1>1, Generator, PTL
=============================================================================
