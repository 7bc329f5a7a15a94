---------------------------- MODULE BlockBuffer ----------------------------
(***************************************************************************)
(* The block buffers of the multi-part functions: crypto_hash_sha256,      *)
(* crypto_hash_sha512, BLAKE2b (crypto_generichash) and the donna          *)
(* implementation of Poly1305.  Each keeps the bytes that do not fill a    *)
(* block yet, in its own way: SHA-2 has no fill level but the length of    *)
(* the message, BLAKE2b keeps two blocks and compresses one only when more *)
(* follows, Poly1305 marks a short block by a flag.                        *)
(*                                                                         *)
(* The compression functions are abstract: "fed" and "marks" are the bytes *)
(* they have been given, and a mark with every block.  The functions of    *)
(* SHA-256 and SHA-512 are alike but for the words that count the length,  *)
(* each of which is one byte of the last block here.  Applications begin   *)
(* anew after a final, as no function but BLAKE2b's final makes sure of.   *)
(***************************************************************************)
EXTENDS Integers, Sequences

CONSTANTS
    Block,       \* the bytes in a block: 64, 128, or 16
    Limb,        \* the length of a message is counted in words modulo this
    Byte,        \* the bytes of messages
    Key,         \* BLAKE2b's key, padded to a block
    MaxMessage   \* bound: bytes in a message

ASSUME BlockAssumption == Block \in Nat /\ Block > 2
ASSUME LimbAssumption  == Limb \in Nat /\ \E k \in 1..Limb : Limb = k * Block
ASSUME ByteAssumption  == Byte \subseteq 0..255 /\ Key \in Seq(Byte) /\ Len(Key) = Block
ASSUME BoundAssumption == MaxMessage \in Nat

VARIABLES
    kind,     \* the function
    buf,      \* buf[i]: the i-th byte of the buffer, of two blocks for BLAKE2b
    fill,     \* buflen (BLAKE2b) or leftover (Poly1305)
    count,    \* the length that SHA-2 counts: count[1] the higher word
    t,        \* BLAKE2b's counter of compressed bytes
    input,    \* the bytes that BLAKE2b's update has still to take in
    fed,      \* the bytes given to the compression function
    marks,    \* marks[i]: what it was given with the i-th block
    phase,    \* "open" or "final"
    result    \* what the last call returned

vars == <<kind, buf, fill, count, t, input, fed, marks, phase, result>>
-----------------------------------------------------------------------------
Sha   == {"sha256", "sha512"}
Kind  == Sha \union {"blake2b", "poly1305"}
Space == 1..(2 * Block)
Mark  == [t : Nat, last : BOOLEAN]
Plain == [t |-> 0, last |-> FALSE]

Zeros(n) == [i \in 1..n |-> 0]
First(n) == [i \in 1..n |-> buf[i]]

Put(b, at, s) == [i \in Space |-> IF i \in (at + 1)..(at + Len(s)) THEN s[i - at] ELSE b[i]]
Repeat(n, mark) == [i \in 1..n |-> mark]

Drop(s, n) == SubSeq(s, n + 1, Len(s))
Whole(n)   == n - (n % Block)

(* The bytes of the message that are in the buffer.                        *)
Buffered == IF kind \in Sha THEN count[2] % Block ELSE fill

Length == Len(fed) + Buffered

Empty    == [i \in Space |-> 0]
Opens(k) == {<<>>} \union (IF k = "blake2b" THEN {Key} ELSE {})

(* The init functions; init_key of BLAKE2b begins with an update.          *)
Init ==
    /\ kind \in Kind /\ input \in Opens(kind)
    /\ buf = Empty /\ fill = 0 /\ count = <<0, 0>> /\ t = 0
    /\ fed = <<>> /\ marks = <<>>
    /\ phase = "open" /\ result = 0

Begin ==
    /\ input = <<>>
    /\ kind' \in Kind /\ input' \in Opens(kind')
    /\ buf' = Empty /\ fill' = 0 /\ count' = <<0, 0>> /\ t' = 0
    /\ fed' = <<>> /\ marks' = <<>>
    /\ phase' = "open" /\ result' = 0
-----------------------------------------------------------------------------
(* crypto_hash_sha256_update, crypto_hash_sha512_update                    *)

(* Mutant: no carry from the lower word to the higher.                     *)
CountedNoCarry(k, n) ==
    LET low == (count[2] + (n % Limb)) % Limb IN
    IF k = "sha256" THEN <<0, low>> ELSE <<count[1] + n \div Limb, low>>

Counted(k, n) ==
    LET low == (count[2] + (n % Limb)) % Limb IN
    IF k = "sha256" THEN <<0, low>>
    ELSE <<count[1] + (IF low < n % Limb THEN 1 ELSE 0) + n \div Limb, low>>

ShaUpdate(in) ==
    LET r    == count[2] % Block
        room == Block - r
        rest == Drop(in, room)
    IN
    /\ phase = "open" /\ kind \in Sha /\ in # <<>>
    /\ Length + Len(in) <= MaxMessage
    /\ count' = Counted(kind, Len(in))
    /\ IF Len(in) < room
         THEN buf' = Put(buf, r, in) /\ UNCHANGED <<fed, marks>>
         ELSE /\ buf' = Put(Put(buf, r, SubSeq(in, 1, room)), 0, Drop(rest, Whole(Len(rest))))
              /\ fed' = fed \o First(r) \o SubSeq(in, 1, room + Whole(Len(rest)))
              /\ marks' = marks \o Repeat(1 + Len(rest) \div Block, Plain)
    /\ result' = 0
    /\ UNCHANGED <<kind, fill, t, input, phase>>

(* SHA256_Pad, SHA512_Pad: 0x80, zeros and the length, in one or two       *)
(* blocks; then the state is wiped.                                        *)
Counter == IF kind = "sha256" THEN <<count[2]>> ELSE count

LengthFitsTight(r) == r <= Block - Len(Counter)  \* Mutant: 0x80 is forgotten.

LengthFits(r) == r < Block - Len(Counter)

Padded(r) ==
    LET bare == Block - Len(Counter) IN
    IF LengthFits(r)
      THEN First(r) \o <<128>> \o Zeros(bare - r - 1) \o Counter
      ELSE First(r) \o <<128>> \o Zeros(Block - r - 1) \o Zeros(bare) \o Counter

ShaFinal ==
    LET last == Padded(count[2] % Block) IN
    /\ phase = "open" /\ kind \in Sha
    /\ fed' = fed \o last
    /\ marks' = marks \o Repeat(Len(last) \div Block, Plain)
    /\ phase' = "final"
    /\ buf' = Empty /\ count' = <<0, 0>>
    /\ result' = 0
    /\ UNCHANGED <<kind, fill, t, input>>
-----------------------------------------------------------------------------
(* poly1305_update, poly1305_finish                                        *)

Smaller(m, n) == IF m < n THEN m ELSE n


Keeps(n) == n < Block

PolyUpdate(in) ==
    LET want == IF fill = 0 THEN 0 ELSE Smaller(Block - fill, Len(in))
        held == Put(buf, fill, SubSeq(in, 1, want))
        rest == Drop(in, want)
        tail == Drop(rest, Whole(Len(rest)))
    IN
    /\ phase = "open" /\ kind = "poly1305"
    /\ Length + Len(in) <= MaxMessage
    /\ IF fill # 0 /\ Keeps(fill + want)
         THEN buf' = held /\ fill' = fill + want /\ UNCHANGED <<fed, marks>>
         ELSE /\ buf' = Put(held, 0, tail)
              /\ fill' = Len(tail)
              /\ fed' = fed \o First(fill) \o SubSeq(in, 1, want + Whole(Len(rest)))
              /\ marks' = marks \o Repeat((fill + want) \div Block + Len(rest) \div Block, Plain)
    /\ result' = 0
    /\ UNCHANGED <<kind, count, t, input, phase>>

PolyFinal ==
    /\ phase = "open" /\ kind = "poly1305"
    /\ IF fill = 0 THEN UNCHANGED <<fed, marks>>
       ELSE /\ fed' = fed \o First(fill) \o <<1>> \o Zeros(Block - fill - 1)
            /\ marks' = Append(marks, [t |-> 0, last |-> TRUE])
    /\ phase' = "final"
    /\ buf' = Empty /\ fill' = 0
    /\ result' = 0
    /\ UNCHANGED <<kind, count, t, input>>
-----------------------------------------------------------------------------
(* blake2b_update, an iteration of its loop a step, and blake2b_final      *)

BlakeUpdate(in) ==
    /\ phase = "open" /\ kind = "blake2b" /\ input = <<>>
    /\ in # <<>> /\ Length + Len(in) <= MaxMessage
    /\ input' = in
    /\ UNCHANGED <<kind, buf, fill, count, t, fed, marks, phase, result>>

OverflowsEager(room) == Len(input) >= room  \* Mutant: a full buffer is compressed.

Overflows(room) == Len(input) > room

BlakeLoop ==
    LET room == 2 * Block - fill IN
    /\ phase = "open" /\ input # <<>>
    /\ IF Overflows(room)
         THEN LET full == Put(buf, fill, SubSeq(input, 1, room)) IN
              /\ t' = t + Block
              /\ fed' = fed \o [i \in 1..Block |-> full[i]]
              /\ marks' = Append(marks, [t |-> t', last |-> FALSE])
              /\ buf' = Put(full, 0, [i \in 1..Block |-> full[Block + i]])
              /\ fill' = fill + room - Block
              /\ input' = Drop(input, room)
         ELSE /\ buf' = Put(buf, fill, input)
              /\ fill' = fill + Len(input)
              /\ input' = <<>>
              /\ UNCHANGED <<t, fed, marks>>
    /\ UNCHANGED <<kind, count, phase, result>>

BlakeFinal ==
    LET two   == fill > Block
        ahead == IF two THEN Block ELSE 0
        left  == fill - ahead
    IN
    /\ phase = "open" /\ kind = "blake2b" /\ input = <<>>
    /\ fed' = fed \o First(fill) \o Zeros(Block - left)
    /\ marks' = marks \o (IF two THEN <<[t |-> t + Block, last |-> FALSE]>> ELSE <<>>)
                      \o <<[t |-> t + fill, last |-> TRUE]>>
    /\ t' = t + fill
    /\ fill' = left
    /\ phase' = "final"
    /\ buf' = Empty
    /\ result' = 0
    /\ UNCHANGED <<kind, count, input>>

(* A second final finds the flag of the last block set.                    *)
BlakeRefuse ==
    /\ phase = "final" /\ kind = "blake2b"
    /\ result' = -1
    /\ UNCHANGED <<kind, buf, fill, count, t, input, fed, marks, phase>>
-----------------------------------------------------------------------------
Chunk == UNION {[1..n -> Byte] : n \in 0..MaxMessage}

Next ==
    \/ Begin
    \/ \E in \in Chunk : ShaUpdate(in) \/ PolyUpdate(in) \/ BlakeUpdate(in)
    \/ ShaFinal
    \/ PolyFinal
    \/ BlakeLoop
    \/ BlakeFinal
    \/ BlakeRefuse

Spec == Init /\ [][Next]_vars
-----------------------------------------------------------------------------
(* Every variable has its type, and only BLAKE2b uses the second block of  *)
(* its buffer and is ever in the middle of an update.                      *)
TypeOK ==
    /\ kind \in Kind
    /\ buf \in [Space -> 0..255]
    /\ fill \in 0..(IF kind = "blake2b" THEN 2 * Block ELSE Block - 1)
    /\ count \in Nat \X (0..(Limb - 1))
    /\ t \in Nat
    /\ input \in Seq(Byte) /\ (input # <<>> => kind = "blake2b")
    /\ fed \in Seq(Nat)
    /\ marks \in Seq(Mark)
    /\ phase \in {"open", "final"}
    /\ result \in {0, -1}

(* What the words for the length say is the length of the message, through *)
(* the carry of SHA-512's two and the wrap of SHA-256's one; and BLAKE2b's *)
(* counter is behind it by what is in the buffer.  Every variable keeps    *)
(* its type (sha256, sha512 and blake2b update).                           *)
CountTells ==
    /\ TypeOK
    /\ phase = "open" =>
        /\ kind = "sha256" => count = <<0, Length % Limb>>
        /\ kind = "sha512" => count[1] * Limb + count[2] = Length
        /\ kind = "blake2b" => t = Len(fed)

(* BLAKE2b holds back what may be the last block: once it has compressed   *)
(* one, more than a block is left for its final.                           *)
LastBlockHeld ==
    kind = "blake2b" /\ phase = "open" /\ fed # <<>> => fill + Len(input) > Block

(* The functions implement digests of messages: the bytes compressed and   *)
(* those in the buffer are the message so far, and the blocks and marks of *)
(* a finished digest are those of the message as a whole.                  *)
Message == IF phase = "final" THEN <<>> ELSE fed \o First(Buffered) \o input

Of == INSTANCE Digest WITH
          message <- Message,
          digest  <- IF phase = "final" THEN [fed |-> fed, marks |-> marks, given |-> TRUE]
                                        ELSE [fed |-> <<>>, marks |-> <<>>, given |-> FALSE]

DigestSpec == Of!DigestSpec
=============================================================================
