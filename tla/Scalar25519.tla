---------------------------- MODULE Scalar25519 ----------------------------
(***************************************************************************)
(* Arithmetic modulo the order L of the main subgroup, as in the sc25519   *)
(* functions of ed25519_ref10.c and the scalar functions of                *)
(* core_ed25519.c: a scalar of 32 bytes is twelve limbs of B bits (the     *)
(* last one with the four bits left over), a number of 64 bytes is         *)
(* twenty-four.  L = 2^(12 B) - (M[0] + M[1] 2^B + ... + M[5] 2^(5 B)); in *)
(* the library B = 21 and M = 666643, 470296, 654183, -997805, 136657,     *)
(* -683901.                                                                *)
(***************************************************************************)
EXTENDS Calls, Limbs

CONSTANTS B, M,
          FactorsL,       \* coprime numbers whose product is L
          Scalars,        \* scalars of 32 bytes, as they are loaded
          ScalarsB,       \*   and those they are multiplied by
          Wides           \* numbers of 64 bytes, as they are loaded

WB(i) == B

ASSUME ScalarAssumption ==
    /\ B \in Nat \ {0} /\ M \in [0 .. 5 -> Int]
    /\ \A i \in 0 .. 5 : M[i] \in -(2 ^ (B - 1)) .. 2 ^ (B - 1)
    /\ \A q \in FactorsL :
          Residue([i \in 0 .. 12 |-> IF i = 12 THEN 1 ELSE 0], WB, q) = Residue(M, WB, q)

-----------------------------------------------------------------------------
(* Each limb but the last is 21 bits of 3 or 4 bytes loaded at a byte and  *)
(* shifted right; twelve for a scalar, twenty-four for a wide number.      *)
Loads21 == << <<0, 3, 0>>, <<2, 4, 5>>, <<5, 3, 2>>, <<7, 4, 7>>, <<10, 4, 4>>, <<13, 3, 1>>,
              <<15, 4, 6>>, <<18, 3, 3>>, <<21, 3, 0>>, <<23, 4, 5>>, <<26, 3, 2>>, <<28, 4, 7>>,
              <<31, 4, 4>>, <<34, 3, 1>>, <<36, 4, 6>>, <<39, 3, 3>>, <<42, 3, 0>>, <<44, 4, 5>>,
              <<47, 3, 2>>, <<49, 4, 7>>, <<52, 4, 4>>, <<55, 3, 1>>, <<57, 4, 6>>, <<60, 4, 3>> >>

(* The weights with which bit p of the bytes enters the n limbs. *)
load21(n, p) ==
    LET place(i) == p - 8 * Loads21[i][1] - Loads21[i][3]
    IN {21 * (i - 1) + place(i) : i \in {i \in 1 .. n :
           /\ place(i) >= 0 /\ (i < n => place(i) <= 20)
           /\ Loads21[i][3] + place(i) < 8 * Loads21[i][2]}}

(* Byte k of the answer is a limb shifted right, and where the limb ends   *)
(* inside it, the next one shifted left.                                   *)
Bytes21 == << <<0, 0>>, <<0, 8>>, <<0, 16, 5>>, <<1, 3>>, <<1, 11>>, <<1, 19, 2>>, <<2, 6>>,
              <<2, 14, 7>>, <<3, 1>>, <<3, 9>>, <<3, 17, 4>>, <<4, 4>>, <<4, 12>>, <<4, 20, 1>>,
              <<5, 7>>, <<5, 15, 6>>, <<6, 2>>, <<6, 10>>, <<6, 18, 3>>, <<7, 5>>, <<7, 13>>,
              <<8, 0>>, <<8, 8>>, <<8, 16, 5>>, <<9, 3>>, <<9, 11>>, <<9, 19, 2>>, <<10, 6>>,
              <<10, 14, 7>>, <<11, 1>>, <<11, 9>>, <<11, 17>> >>
store21(i, b) ==
    {8 * (k - 1) + b - Bytes21[k][2] : k \in {k \in 1 .. 32 :
        Bytes21[k][1] = i /\ b - Bytes21[k][2] \in 0 .. 7}} \union
    {8 * (k - 1) + b + Bytes21[k][3] : k \in {k \in 1 .. 32 :
        Bytes21[k][1] = i - 1 /\ Len(Bytes21[k]) = 3 /\ b + Bytes21[k][3] \in 0 .. 7}}

-----------------------------------------------------------------------------
NearestAll(s, is) == FoldLeft(LAMBDA t, i : Nearest(t, i, B, 0), s, is)
FlooredAll(s, is) == FoldLeft(LAMBDA t, i : Floored(t, i, B, 0), s, is)

(* Mutant: the third digit of L folded in with the wrong sign. *)
FoldedKept(s, j) == [k \in DOMAIN s |-> IF k = j THEN 0 ELSE
                    s[k] + (IF k \in j - 12 .. j - 7 THEN s[j] * (IF k = j - 10 THEN -1 ELSE 1) * M[k - (j - 12)] ELSE 0)]

(* Limb j >= 12 is worth M at limb j - 12. *)
Folded(s, j) == [k \in DOMAIN s |-> IF k = j THEN 0 ELSE
                    s[k] + (IF k \in j - 12 .. j - 7 THEN s[j] * M[k - (j - 12)] ELSE 0)]
FoldedAll(s, js) == FoldLeft(Folded, s, js)

UpTo(n) == [i \in 1 .. n + 1 |-> i - 1]

Limbs24 == [0 .. 23 -> Int]

(* From twenty-four limbs to twelve, between 0 and L - 1. *)
Reduced(s) ==
    LET high[x \in Limbs24] == NearestAll(FoldedAll(x, <<23, 22, 21, 20, 19, 18>>),
                                          <<6, 8, 10, 12, 14, 16, 7, 9, 11, 13, 15>>)
        middle[x \in Limbs24] == NearestAll(FoldedAll(x, <<17, 16, 15, 14, 13, 12>>),
                                            <<0, 2, 4, 6, 8, 10, 1, 3, 5, 7, 9, 11>>)
        low[x \in Limbs24] == FlooredAll(Folded(x, 12), UpTo(11))
        last[x \in Limbs24] == FlooredAll(Folded(x, 12), UpTo(10))
        r == last[low[middle[high[s]]]]
    IN [i \in 0 .. 11 |-> r[i]]

(* The schoolbook product, with limbs 22 and 23 left for the carries. *)
Schoolbook(a, b, c) ==
    [k \in 0 .. 23 |-> (IF k < 12 THEN c[k] ELSE 0) +
        Total([i \in 0 .. 11 |-> IF k - i \in 0 .. 11 THEN a[i] * b[k - i] ELSE 0], 12)]

EvenThenOdd == <<0, 2, 4, 6, 8, 10, 12, 14, 16, 18, 20, 22, 1, 3, 5, 7, 9, 11, 13, 15, 17, 19, 21>>

sc25519_muladd(a, b, c) == Reduced(NearestAll(Schoolbook(a, b, c), EvenThenOdd))

sc25519_mul(a, b) ==
    Reduced(NearestAll(Schoolbook(a, b, [k \in 0 .. 11 |-> 0]), EvenThenOdd))

sc25519_reduce(s) == Reduced(s)

-----------------------------------------------------------------------------
(* The functions of core_ed25519.c *)

(* L itself, in digits. *)
LDigits == FlooredAll([i \in 0 .. 12 |-> IF i = 12 THEN 1 ELSE IF i < 6 THEN -M[i] ELSE 0], UpTo(11))

(* sodium_sub of a scalar from e + L * 2^256, over 64 bytes. *)
LessThanShiftedL(e, s) ==
    FlooredAll([i \in 0 .. 23 |->
                   (IF i = 0 THEN e ELSE 0) + (IF i >= 12 THEN LDigits[i - 12] * 16 ELSE 0)
                   + (IF i = 23 THEN LDigits[12] * 16 * 2 ^ B ELSE 0)
                   - (IF i < 12 THEN s[i] ELSE 0)], UpTo(22))

scalar_negate(s) == sc25519_reduce(LessThanShiftedL(0, s))
scalar_complement(s) == sc25519_reduce(LessThanShiftedL(1, s))

(* sodium_add over 32 bytes: what does not fit them is lost. *)
scalar_add(x, y) ==
    LET sum == FlooredAll([i \in 0 .. 11 |-> x[i] + y[i]], UpTo(10))
        kept == [sum EXCEPT ![11] = @ % 2 ^ (B + 4)]
    IN sc25519_reduce([i \in 0 .. 23 |-> IF i < 12 THEN kept[i] ELSE 0])

scalar_sub(x, y) == scalar_add(x, scalar_negate(y))

(* Digit by digit from the top, without a branch: c is set at the first    *)
(* digit that differs when it is the smaller one, n cleared there.         *)
sc25519_is_canonical(s) ==
    LET digit == FlooredAll([i \in 0 .. 12 |-> IF i < 12 THEN s[i] ELSE 0], UpTo(11))
        step(cn, i) == << IF digit[i] < LDigits[i] THEN cn[1] \union (IF cn[2] THEN {i} ELSE {}) ELSE cn[1],
                          cn[2] /\ digit[i] = LDigits[i] >>
    IN FoldLeft(step, <<{}, TRUE>>, <<12, 11, 10, 9, 8, 7, 6, 5, 4, 3, 2, 1, 0>>)[1] # {}

-----------------------------------------------------------------------------
AskScalar ==
    \/ \E a \in Scalars, b \in ScalarsB, fn \in {"sc25519_mul", "sc25519_muladd", "scalar_add", "scalar_sub"} :
            Ask([fn |-> fn, a |-> a, b |-> b])
    \/ \E a \in Scalars, fn \in {"scalar_negate", "scalar_complement", "sc25519_is_canonical"} :
            Ask([fn |-> fn, a |-> a])
    \/ \E s \in Wides : Ask([fn |-> "sc25519_reduce", a |-> s])
    \/ \E n \in {12, 24}, p \in 0 .. 511 : p < 256 * (n \div 12) /\ Ask([fn |-> "load21", n |-> n, bit |-> p])
    \/ \E i \in 0 .. 11, b \in 0 .. 21 : (b < 21 \/ i = 11) /\ Ask([fn |-> "store21", limb |-> i, bit |-> b])

AnswerScalar ==
    \/ Called("sc25519_mul") /\ Answer(sc25519_mul(call.a, call.b))
    \/ Called("sc25519_muladd") /\ Answer(sc25519_muladd(call.a, call.b, call.a))
    \/ Called("sc25519_reduce") /\ Answer(sc25519_reduce(call.a))
    \/ Called("scalar_add") /\ Answer(scalar_add(call.a, call.b))
    \/ Called("scalar_sub") /\ Answer(scalar_sub(call.a, call.b))
    \/ Called("scalar_negate") /\ Answer(scalar_negate(call.a))
    \/ Called("scalar_complement") /\ Answer(scalar_complement(call.a))
    \/ Called("sc25519_is_canonical") /\ Answer(sc25519_is_canonical(call.a))
    \/ Called("load21") /\ Answer(load21(call.n, call.bit))
    \/ Called("store21") /\ Answer(store21(call.limb, call.bit))

-----------------------------------------------------------------------------
(* x * y modulo q, for x and y too large to be multiplied: x limb by limb. *)
ProductL(a, y, q) ==
    LET from[k \in 0 .. 12] ==
            IF k = 12 THEN 0 ELSE (((from[k + 1] * 2 ^ B) % q) + ((y * a[k]) % q)) % q
    IN from[0]

Below(digits, bound) ==
    \E i \in DOMAIN bound : digits[i] < bound[i] /\ \A j \in DOMAIN bound : j > i => digits[j] = bound[j]

Padded13(s) == [i \in 0 .. 12 |-> IF i < 12 THEN s[i] ELSE 0]

NoTopBit(s) == s[11] < 2 ^ (B + 3)

(* The scalar functions return the number they promise modulo L, and the   *)
(* one between 0 and L - 1: the signed digits of L fold the high limbs     *)
(* without losing a carry or leaving the last limb out of range.  Addition *)
(* promises it only to scalars below 2^255, as clamped and reduced ones    *)
(* are: the sum has 32 bytes.                                              *)
ScalarRing ==
    /\ Answered({"sc25519_mul", "sc25519_muladd", "sc25519_reduce", "scalar_add", "scalar_sub",
                 "scalar_negate", "scalar_complement"}) =>
          /\ (call.fn = "scalar_add" => NoTopBit(call.a) /\ NoTopBit(call.b)) /\
             (call.fn = "scalar_sub" => NoTopBit(call.a)) =>
                \A q \in FactorsL :
                    LET a == Residue(call.a, WB, q)
                        b == Residue(call.b, WB, q)
                    IN Residue(answer, WB, q) =
                         CASE call.fn = "sc25519_mul"       -> ProductL(call.a, b, q)
                           [] call.fn = "sc25519_muladd"    -> (ProductL(call.a, b, q) + a) % q
                           [] call.fn = "sc25519_reduce"    -> a
                           [] call.fn = "scalar_add"        -> (a + b) % q
                           [] call.fn = "scalar_sub"        -> (a - b) % q
                           [] call.fn = "scalar_negate"     -> (-a) % q
                           [] call.fn = "scalar_complement" -> (1 - a) % q
          /\ \A i \in 0 .. 10 : answer[i] \in 0 .. 2 ^ B - 1
          /\ answer[11] >= 0
          /\ Below(FlooredAll(Padded13(answer), UpTo(11)), LDigits)
    /\ Answered({"sc25519_is_canonical"}) =>
          (answer <=> Below(FlooredAll(Padded13(call.a), UpTo(11)), LDigits))
    /\ Answered({"load21"}) => answer = {call.bit}
    /\ Answered({"store21"}) => answer = {21 * call.limb + call.bit}
=============================================================================
