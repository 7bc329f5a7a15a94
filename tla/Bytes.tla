------------------------------- MODULE Bytes -------------------------------
(***************************************************************************)
(* The functions on byte strings that run without a branch on the data:    *)
(* arithmetic on little-endian numbers, comparison and padding (utils.c,   *)
(* verify.c), and the Swift DataSize.  A byte has Radix values; Barrier is *)
(* the byte 0x80 that ends a padded message.  A machine word has Word      *)
(* bytes (8 in the library, where the number of bytes selects the assembly *)
(* path: 12, 24, 8 and 64).                                                *)
(***************************************************************************)
EXTENDS Calls, SequencesExt

CONSTANTS Radix, Barrier, Word,
          SizeMax,       \* the largest size_t
          Strings,       \* byte strings, least significant byte first
          Texts,         \* messages to pad
          Blocks,        \* block sizes
          Counts         \* numbers of bytes for a DataSize

ASSUME BytesAssumption ==
    /\ Radix \in Nat \ {0} /\ Radix % 2 = 0 /\ Barrier \in 1 .. Radix - 1
    /\ Word \in Nat \ {0} /\ Word % 2 = 0
    /\ SizeMax \in Nat /\ Blocks \subseteq Nat /\ Counts \subseteq Nat
    /\ Strings \subseteq Seq(0 .. Radix - 1) /\ Texts \subseteq Seq(0 .. Radix - 1)

Value(b) == FoldRight(LAMBDA d, v : v * Radix + d, b, 0)

(* A subtraction in unsigned arithmetic, shifted right by the bits of a    *)
(* byte and cut to a byte: all ones when it went below zero.               *)
Borrow(x) == (x \div Radix) % Radix

(* The bits of a mask are all ones or all zeros. *)
Masked(x, mask) == IF mask = 0 THEN 0 ELSE x
Either(x, y) == IF x = 0 THEN y ELSE x

-----------------------------------------------------------------------------
(* Mutant: the carry between words forgotten. *)
ChainedNoCarry(a, b, carry, sizes) ==
    LET step(out, size) ==
            LET sum == Value(SubSeq(a, Len(out) + 1, Len(out) + size)) + Value(SubSeq(b, Len(out) + 1, Len(out) + size))
                       + (IF out = <<>> THEN carry ELSE 0)
            IN out \o [i \in 1 .. size |-> (sum \div Radix ^ (i - 1)) % Radix]
    IN FoldLeft(step, <<>>, sizes)

(* One byte after the other, or words of the sizes the assembly uses: the  *)
(* carry goes from each to the next, and out of the last one is lost.      *)
Chained(a, b, carry, sizes) ==
    LET step(t, size) ==
            LET at  == Len(t.out)
                sum == Value(SubSeq(a, at + 1, at + size)) + Value(SubSeq(b, at + 1, at + size)) + t.c
            IN [out |-> t.out \o [i \in 1 .. size |-> (sum \div Radix ^ (i - 1)) % Radix],
                c |-> sum \div Radix ^ size]
    IN FoldLeft(step, [out |-> <<>>, c |-> carry], sizes).out

Sizes(n) ==
    IF n = Word + Word \div 2 THEN <<Word, Word \div 2>>
    ELSE IF n = 3 * Word THEN <<Word, Word, Word>>
    ELSE IF n = Word THEN <<Word>>
    ELSE [i \in 1 .. n |-> 1]

Null(n) == [i \in 1 .. n |-> 0]

sodium_increment(n) == Chained(n, Null(Len(n)), 1, Sizes(Len(n)))

sodium_add(a, b) == Chained(a, b, 0, Sizes(Len(a)))

(* The borrow of a word is 1 when the difference went below zero. *)
sodium_sub(a, b) ==
    LET sizes == IF Len(a) = 8 * Word THEN [i \in 1 .. 8 |-> Word] ELSE [i \in 1 .. Len(a) |-> 1]
        step(t, size) ==
            LET at   == Len(t.out)
                diff == (Value(SubSeq(a, at + 1, at + size)) - Value(SubSeq(b, at + 1, at + size))) - t.c
            IN [out |-> t.out \o [i \in 1 .. size |-> (diff \div Radix ^ (i - 1)) % Radix],
                c |-> (diff \div Radix ^ size) % 2]
    IN FoldLeft(step, [out |-> <<>>, c |-> 0], sizes).out

-----------------------------------------------------------------------------
(* From the most significant byte down: gt is set where the first byte     *)
(* that differs is larger, eq cleared there.                               *)
sodium_compare(a, b) ==
    LET step(x, y, t) == [gt |-> Either(t.gt, Masked(Borrow(y - x) % 2, t.eq)),
                          eq |-> IF x = y THEN t.eq ELSE 0]
        r == FoldRight(LAMBDA xy, t : step(xy[1], xy[2], t), [i \in 1 .. Len(a) |-> <<a[i], b[i]>>], [gt |-> 0, eq |-> 1])
    IN (r.gt + r.gt + r.eq) - 1

(* d gathers the bits that differ (or are set). *)
sodium_memcmp(a, b) ==
    LET d == FoldLeft(LAMBDA t, i : Either(t, IF a[i] = b[i] THEN 0 ELSE 1), 0, [i \in 1 .. Len(a) |-> i])
    IN (Borrow(d - 1) % 2) - 1

sodium_is_zero(n) == Borrow(FoldLeft(Either, 0, n) - 1) % 2

(* Words of four bytes compared at once, the result gathered in m, one bit *)
(* for each byte.                                                          *)
crypto_verify_n(x, y) ==
    LET z(i) == \E k \in 1 .. Len(x) : (k - 1) % 16 = i /\ x[k] # y[k]
        m    == {i \in 0 .. 15 : ~\E j \in 0 .. 3 : z(4 * (i \div 4) + j)}
    IN IF m = 0 .. 15 THEN 0 ELSE -1

-----------------------------------------------------------------------------
(* The padding goes up to the next multiple of the block size and starts   *)
(* with the barrier.  The loop runs over one whole block whatever the      *)
(* length, zeroing up to the barrier and keeping what is before it.        *)
Misuse == -2   \* the program stops

sodium_pad(buf, unpadded, block) ==
    LET xpadlen == (block - 1) - (unpadded % block)
        xlen    == unpadded + xpadlen
        step(t, i) ==
            LET barrier == IF i = xpadlen THEN Radix - 1 ELSE 0
            IN [buf  |-> [t.buf EXCEPT ![xlen - i + 1] = Either(Masked(@, t.mask), Masked(Barrier, barrier))],
                mask |-> Either(t.mask, barrier)]
    IN IF block = 0 THEN [ret |-> -1]
       ELSE IF SizeMax - unpadded <= xpadlen THEN [ret |-> Misuse]
       ELSE IF xlen >= Len(buf) THEN [ret |-> -1]
       ELSE [ret |-> 0, len |-> xlen + 1,
             buf |-> FoldLeft(step, [buf |-> buf, mask |-> 0], [i \in 1 .. block |-> i - 1]).buf]

(* Mutant: the first barrier that is seen, whatever follows it. *)
sodium_unpad_any(buf, padded, block) ==
    LET ats == {i \in 0 .. block - 1 : i < padded /\ buf[padded - i] = Barrier}
    IN IF padded < block \/ block = 0 \/ ats = {} THEN [ret |-> -1]
       ELSE [ret |-> 0, len |-> (padded - 1) - (CHOOSE i \in ats : \A j \in ats : i <= j)]

sodium_unpad(buf, padded, block) ==
    LET step(t, i) ==
            LET c == buf[padded - i]
                barrier == IF t.acc = 0 /\ t.len = 0 /\ c = Barrier THEN 1 ELSE 0
            IN [acc |-> Either(t.acc, c), len |-> Either(t.len, Masked(i, barrier)),
                valid |-> Either(t.valid, barrier)]
        r == FoldLeft(step, [acc |-> 0, len |-> 0, valid |-> 0], [i \in 1 .. block |-> i - 1])
    IN IF padded < block \/ block = 0 THEN [ret |-> -1]
       ELSE [ret |-> r.valid - 1, len |-> (padded - 1) - r.len]

-----------------------------------------------------------------------------
(* A size is kept in bits, in 16 bits; Swift traps on overflow. *)
Trap == -1     \* the program stops
UInt16(x) == IF x \in 0 .. 2 ^ 16 - 1 THEN x ELSE Trap
DataSize(bytes) == IF UInt16(bytes) = Trap THEN Trap ELSE UInt16(bytes * 8)
byteCount(size) == IF size = Trap THEN Trap ELSE size \div 8
SizeMinus(a, b) == IF Trap \in {a, b} THEN Trap ELSE UInt16(a - b)

-----------------------------------------------------------------------------
AskBytes ==
    \/ \E a \in Strings, fn \in {"increment", "is_zero"} : Len(a) <= 3 * Word /\ Ask([fn |-> fn, a |-> a])
    \/ \E a, b \in Strings, fn \in {"add", "sub", "compare", "memcmp", "verify"} :
            /\ Len(a) = Len(b) /\ (Len(a) <= 3 * Word \/ fn = "sub")
            /\ Ask([fn |-> fn, a |-> a, b |-> b])
    \/ \E t \in Texts, block \in Blocks, spare \in 0 .. 4 :
            Len(t) + spare <= SizeMax /\ Ask([fn |-> "pad", text |-> t, block |-> block, spare |-> spare])
    \/ \E t \in Texts, block \in Blocks : Ask([fn |-> "unpad", text |-> t, block |-> block])
    \/ \E m, n \in Counts : Ask([fn |-> "DataSize", m |-> m, n |-> n])

(* The buffer to pad has room for spare bytes after the text, not zeroed. *)
Padding == sodium_pad(call.text \o [i \in 1 .. call.spare |-> Radix - 1], Len(call.text), call.block)

AnswerBytes ==
    \/ Called("increment") /\ Answer(sodium_increment(call.a))
    \/ Called("is_zero") /\ Answer(sodium_is_zero(call.a))
    \/ Called("add") /\ Answer(sodium_add(call.a, call.b))
    \/ Called("sub") /\ Answer(sodium_sub(call.a, call.b))
    \/ Called("compare") /\ Answer(sodium_compare(call.a, call.b))
    \/ Called("memcmp") /\ Answer(sodium_memcmp(call.a, call.b))
    \/ Called("verify") /\ Answer(crypto_verify_n(call.a, call.b))
    \/ Called("pad") /\ Answer(Padding)
    \/ Called("unpad") /\ Answer(sodium_unpad(call.text, Len(call.text), call.block))
    \/ Called("DataSize") /\ Answer(SizeMinus(DataSize(call.m), DataSize(call.n)))

-----------------------------------------------------------------------------
(* What a SecretBox or a stream computes with sizes comes out in bytes as  *)
(* long as the sizes are below 8192 bytes and their difference is not      *)
(* negative; otherwise the program stops (DataSize).                       *)
SizesHold ==
    Answered({"DataSize"}) =>
        byteCount(answer) = IF call.m < 8192 /\ call.n < 8192 /\ call.n <= call.m THEN call.m - call.n ELSE Trap

(* Little-endian arithmetic wraps at the length of the string and carries  *)
(* through every byte and word on the way, and the comparisons without a   *)
(* branch order numbers by their most significant difference and find any  *)
(* difference at all (sodium_increment ... sodium_is_zero, crypto_verify,  *)
(* and the sizes of Swift).                                                *)
NumbersHold ==
    /\ SizesHold
    /\ Answered({"increment"}) => Value(answer) = (Value(call.a) + 1) % Radix ^ Len(call.a)
    /\ Answered({"add"}) => Value(answer) = (Value(call.a) + Value(call.b)) % Radix ^ Len(call.a)
    /\ Answered({"sub"}) => Chained(answer, call.b, 0, [i \in 1 .. Len(answer) |-> 1]) = call.a
    /\ Answered({"compare"}) =>
          answer = IF Value(call.a) < Value(call.b) THEN -1 ELSE IF call.a = call.b THEN 0 ELSE 1
    /\ Answered({"memcmp", "verify"}) => answer = IF call.a = call.b THEN 0 ELSE -1
    /\ Answered({"is_zero"}) => answer = IF Value(call.a) = 0 THEN 1 ELSE 0

Padded(text, block) ==
    text \o <<Barrier>> \o Null((block - 1) - (Len(text) % block))

(* Padding is taken off again whatever the message ends with, a barrier    *)
(* or zeros included, and whatever was in the buffer; it is refused when   *)
(* it does not fit, and nothing that padding cannot have made is taken for *)
(* a padded message (sodium_pad, sodium_unpad).                            *)
PaddingComesOff ==
    /\ Answered({"pad"}) =>
          IF call.block # 0 /\ Len(Padded(call.text, call.block)) <= Len(call.text) + call.spare
          THEN /\ answer.ret = 0
               /\ SubSeq(answer.buf, 1, answer.len) = Padded(call.text, call.block)
               /\ \A i \in answer.len + 1 .. Len(answer.buf) : answer.buf[i] = Radix - 1
               /\ sodium_unpad(answer.buf, answer.len, call.block) = [ret |-> 0, len |-> Len(call.text)]
          ELSE answer.ret # 0
    /\ Answered({"unpad"}) =>
          /\ answer.ret = 0 <=> \E n \in 0 .. Len(call.text) - 1 :
                /\ call.block \in 1 .. Len(call.text) /\ Len(call.text) - n <= call.block
                /\ call.text = SubSeq(call.text, 1, n) \o <<Barrier>> \o Null(Len(call.text) - n - 1)
          /\ answer.ret = 0 => answer.len < Len(call.text) /\ call.text[answer.len + 1] = Barrier
=============================================================================
