------------------------------- MODULE Digest -------------------------------
(***************************************************************************)
(* What the multi-part hash and MAC functions promise: a digest depends on *)
(* the message, however it is divided into updates.                        *)
(*                                                                         *)
(* The compression functions stay abstract.  A digest is known by what     *)
(* they are given: the bytes, in blocks, and a mark for each block.  The   *)
(* padding of SHA-2, the last, short block of Poly1305 and the counter and *)
(* the last-block flag of BLAKE2b are defined here from the whole message. *)
(***************************************************************************)
EXTENDS Integers, Sequences

CONSTANTS
    Block,  \* the bytes in a block: 64, 128, or 16
    Limb,   \* the length of a message is counted in words modulo this
    Byte,   \* the bytes of messages
    Key     \* BLAKE2b's key, padded to a block

VARIABLES kind, message, digest

digestVars == <<kind, message, digest>>

Sha  == {"sha256", "sha512"}
Kind == Sha \union {"blake2b", "poly1305"}
None == [fed |-> <<>>, marks |-> <<>>, given |-> FALSE]

Zeros(n) == [i \in 1..n |-> 0]
Blocks(n) == (n + Block - 1) \div Block

(* The number of bytes of a message, most significant word first.          *)
LengthField(k, n) ==
    IF k = "sha256" THEN <<n % Limb>> ELSE <<n \div Limb, n % Limb>>

ShaFed(k, m) ==
    LET end  == <<128>>
        len  == LengthField(k, Len(m))
        size == Blocks(Len(m) + 1 + Len(len)) * Block
    IN  m \o end \o Zeros(size - Len(m) - 1 - Len(len)) \o len

ShaMarks(k, m) == [i \in 1..(Len(ShaFed(k, m)) \div Block) |-> [t |-> 0, last |-> FALSE]]

PolyFed(m) ==
    IF Len(m) % Block = 0 THEN m
    ELSE m \o <<1>> \o Zeros(Blocks(Len(m)) * Block - Len(m) - 1)

PolyMarks(m) ==
    [i \in 1..Blocks(Len(m)) |-> [t |-> 0, last |-> i * Block > Len(m)]]

BlakeBlocks(m) == IF m = <<>> THEN 1 ELSE Blocks(Len(m))
BlakeFed(m)    == m \o Zeros(BlakeBlocks(m) * Block - Len(m))
BlakeMarks(m)  ==
    [i \in 1..BlakeBlocks(m) |-> [t    |-> IF i = BlakeBlocks(m) THEN Len(m) ELSE i * Block,
                                  last |-> i = BlakeBlocks(m)]]

DigestOf(k, m) ==
    CASE k \in Sha       -> [fed |-> ShaFed(k, m), marks |-> ShaMarks(k, m), given |-> TRUE]
      [] k = "poly1305"  -> [fed |-> PolyFed(m), marks |-> PolyMarks(m), given |-> TRUE]
      [] k = "blake2b"   -> [fed |-> BlakeFed(m), marks |-> BlakeMarks(m), given |-> TRUE]
-----------------------------------------------------------------------------
Starts(k, m) == k \in Kind /\ m \in {<<>>} \union (IF k = "blake2b" THEN {Key} ELSE {})

DigestInit == Starts(kind, message) /\ digest = None

(* The application begins anew, with a key (BLAKE2b) or without.           *)
Restart ==
    /\ Starts(kind', message')
    /\ digest' = None

(* Part of the message arrives.                                            *)
Absorb ==
    /\ ~digest.given
    /\ Len(message') >= Len(message)
    /\ SubSeq(message', 1, Len(message)) = message
    /\ UNCHANGED <<kind, digest>>

Finish ==
    /\ ~digest.given
    /\ digest' = DigestOf(kind, message)
    /\ message' = <<>>
    /\ UNCHANGED kind

DigestNext == Restart \/ Absorb \/ Finish

DigestSpec == DigestInit /\ [][DigestNext]_digestVars
=============================================================================
