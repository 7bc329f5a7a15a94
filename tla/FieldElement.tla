---------------------------- MODULE FieldElement ----------------------------
(***************************************************************************)
(* Arithmetic modulo p = 2^255 - 19 in the two representations of the      *)
(* source: five unsigned limbs of 51 bits (fe_51, where the compiler has   *)
(* 128-bit integers) and ten signed limbs of 26 and 25 bits in turn        *)
(* (fe_25_5, everywhere else).  Both are written here for limbs of W bits  *)
(* and of H + 1 and H bits, W = 2 H + 1, so that p = 2^(5 W) - C; the      *)
(* library has W = 51, H = 25 and C = 19.  How bytes become limbs and      *)
(* limbs bytes is written for the library's own widths.                    *)
(***************************************************************************)
EXTENDS Calls, Limbs

CONSTANTS H, C,      \* the width of the narrow limbs, and 2^(5 W) - p
          Factors,   \* coprime numbers whose product is p: equality modulo
                     \* each of them is equality modulo p
          Loose,     \* five-limb elements as additions leave them, and
          LooseB,    \*   the second operands paired with them
          Signed,    \* ten-limb elements within the bounds of the comments,
          SignedB,   \*   their second operands, and
          Unreduced, \*   ten-limb elements to be reduced, p at most either side of 0,
          Multipliers, \* small integers, in the place of 121666
          Spare      \* the bits a 32-bit integer has above a narrow limb, 7

W == 2 * H + 1

ASSUME FieldAssumption ==
    /\ H \in Nat \ {0} /\ C \in Nat \ {0}
    /\ 4 * C < 2 ^ (H - 1) /\ 2 * C < 2 ^ Spare
    /\ \A q \in Factors : Residue([i \in 0 .. 5 |-> IF i = 5 THEN 1 ELSE 0], LAMBDA i : W, q) = C

-----------------------------------------------------------------------------
(* Five limbs of W bits *)

W51(i) == W

Chain51(h, is) == FoldLeft(LAMBDA t, i : Floored(t, i, W, C), h, is)

add51(f, g) == [i \in 0 .. 4 |-> f[i] + g[i]]

(* g is carried once, then taken from 2 p + f so that no limb goes below 0. *)
sub51(f, g) ==
    LET h == Chain51(g, <<0, 1, 2, 3, 4>>)
    IN [i \in 0 .. 4 |-> (f[i] + (IF i = 0 THEN 2 ^ (W + 1) - 2 * C ELSE 2 ^ (W + 1) - 2)) - h[i]]

neg51(f) == sub51([i \in 0 .. 4 |-> 0], f)

Wrapped51(i, j) == IF i + j >= 5 THEN C ELSE 1

mul51(f, g) == Chain51(Convolved(f, g, 5, Wrapped51), <<0, 1, 2, 3, 4, 0, 1>>)

(* A square computes each product of two different limbs once and doubles *)
(* it: the pairs i <= j.                                                   *)
Twice51(i, j) == (IF i < j THEN 2 ELSE IF i = j THEN 1 ELSE 0) * Wrapped51(i, j)
Squared51(f) == Convolved(f, f, 5, Twice51)

sq51(f) == Chain51(Squared51(f), <<0, 1, 2, 3, 4, 0, 1>>)

sq2_51(f) == Chain51([k \in 0 .. 4 |-> 2 * Squared51(f)[k]], <<0, 1, 2, 3, 4, 0, 1>>)

mul32_51(f, n) == Chain51([i \in 0 .. 4 |-> f[i] * n], <<0, 1, 2, 3, 4>>)

(* Two full carries bring the number below 2^(5 W); adding C carries out   *)
(* of the last limb exactly when it is p or more; 2^(5 W) - C is added     *)
(* again and the last carry dropped.                                       *)
reduce51(f) ==
    LET t == Chain51(f, <<0, 1, 2, 3, 4, 0, 1, 2, 3, 4>>)
        u == Chain51([t EXCEPT ![0] = @ + C], <<0, 1, 2, 3, 4>>)
        v == [i \in 0 .. 4 |-> u[i] + 2 ^ W - (IF i = 0 THEN C ELSE 1)]
        x == Chain51(v, <<0, 1, 2, 3>>)
    IN [x EXCEPT ![4] = @ % 2 ^ W]

(* Where bit p of the 32 bytes counts: each limb is 51 bits of a 64-bit    *)
(* word loaded at byte at and shifted right.                               *)
Loads51 == << <<0, 0>>, <<6, 3>>, <<12, 6>>, <<19, 1>>, <<24, 12>> >>
frombytes51(p) ==
    LET place(i) == p - 8 * Loads51[i][1] - Loads51[i][2]
    IN {51 * (i - 1) + place(i) : i \in {i \in 1 .. 5 : place(i) \in 0 .. 50 /\ Loads51[i][2] + place(i) < 64}}

(* Where bit b of limb i is written: word j holds limb j shifted right and *)
(* limb j + 1 shifted left.                                                *)
Right51 == <<0, 13, 26, 39>>
Left51 == <<51, 38, 25, 12>>
tobytes51(i, b) ==
    {64 * (j - 1) + b - Right51[j] : j \in {j \in 1 .. 4 : j - 1 = i /\ b >= Right51[j]}} \union
    {64 * (j - 1) + b + Left51[j] : j \in {j \in 1 .. 4 : j = i /\ b + Left51[j] < 64}}

-----------------------------------------------------------------------------
(* Ten signed limbs of H + 1 and H bits in turn *)

W25(i) == IF i % 2 = 0 THEN H + 1 ELSE H

Chain25(h, is) == FoldLeft(LAMBDA t, i : Nearest(t, i, W25(i), C), h, is)

add25(f, g) == [i \in 0 .. 9 |-> f[i] + g[i]]
sub25(f, g) == [i \in 0 .. 9 |-> f[i] - g[i]]
neg25(f) == [i \in 0 .. 9 |-> -f[i]]

(* Two odd limbs have half a bit more each than their product's limb. *)
Wrapped25(i, j) == (IF i + j >= 10 THEN C ELSE 1) * (IF i % 2 = 1 /\ j % 2 = 1 THEN 2 ELSE 1)

TwoChains == <<0, 4, 1, 5, 2, 6, 3, 7, 4, 8, 9, 0>>

mul25(f, g) == Chain25(Convolved(f, g, 10, Wrapped25), TwoChains)

Twice25(i, j) == (IF i < j THEN 2 ELSE IF i = j THEN 1 ELSE 0) * Wrapped25(i, j)
Squared25(f) == Convolved(f, f, 10, Twice25)

sq25(f) == Chain25(Squared25(f), TwoChains)

sq2_25(f) == Chain25([k \in 0 .. 9 |-> 2 * Squared25(f)[k]], TwoChains)

OddThenEven == <<9, 1, 3, 5, 7, 0, 2, 4, 6, 8>>

mul32_25(f, n) == Chain25([i \in 0 .. 9 |-> f[i] * n], OddThenEven)

(* What frombytes does to the limbs it has loaded. *)
carried25(f) == Chain25(f, OddThenEven)

(* The quotient of the number by p, estimated from the last limb, in       *)
(* unsigned arithmetic: an estimate below zero comes out 2^Spare too large.*)
Estimate(h) == ((C * h[9] + 2 ^ (H - 1)) % 2 ^ (H + Spare)) \div 2 ^ H

(* Mutant: the estimate taken for the quotient. *)
QuotientEstimated(h) == (h[9] + Estimate(h)) \div 2 ^ H

(* It is corrected through all the limbs. *)
Quotient(h) ==
    FoldLeft(LAMBDA q, i : (h[i] + q) \div 2 ^ W25(i), Estimate(h), <<0, 1, 2, 3, 4, 5, 6, 7, 8, 9>>)

reduce25(f) ==
    LET h == [f EXCEPT ![0] = @ + C * Quotient(f)]
        t == FoldLeft(LAMBDA u, i : Floored(u, i, W25(i), 0), h, <<0, 1, 2, 3, 4, 5, 6, 7, 8, 9>>)
    IN t

(* Where bit p of the 32 bytes counts: limb i takes bytes at .. at + n - 1 *)
(* shifted left, the last one without its top bit.  The weights of the     *)
(* limbs are 0, 26, 51, 77, 102, ...                                       *)
Weight25(i) == 51 * (i \div 2) + 26 * (i % 2)
Loads25 == << <<0, 4, 0>>, <<4, 3, 6>>, <<7, 3, 5>>, <<10, 3, 3>>, <<13, 3, 2>>,
              <<16, 4, 0>>, <<20, 3, 7>>, <<23, 3, 5>>, <<26, 3, 4>>, <<29, 3, 2>> >>
frombytes25(p) ==
    {Weight25(i - 1) + Loads25[i][3] + (p - 8 * Loads25[i][1]) : i \in {i \in 1 .. 10 :
        p - 8 * Loads25[i][1] \in 0 .. (IF i = 10 THEN 22 ELSE 8 * Loads25[i][2] - 1)}}

(* Byte k is a limb shifted right, and where a limb ends inside it, the    *)
(* next one shifted left.                                                  *)
Bytes25 == << <<0, 0>>, <<0, 8>>, <<0, 16>>, <<0, 24, 2>>, <<1, 6>>, <<1, 14>>, <<1, 22, 3>>,
              <<2, 5>>, <<2, 13>>, <<2, 21, 5>>, <<3, 3>>, <<3, 11>>, <<3, 19, 6>>,
              <<4, 2>>, <<4, 10>>, <<4, 18>>, <<5, 0>>, <<5, 8>>, <<5, 16>>, <<5, 24, 1>>,
              <<6, 7>>, <<6, 15>>, <<6, 23, 3>>, <<7, 5>>, <<7, 13>>, <<7, 21, 4>>,
              <<8, 4>>, <<8, 12>>, <<8, 20, 6>>, <<9, 2>>, <<9, 10>>, <<9, 18>> >>
tobytes25(i, b) ==
    {8 * (k - 1) + b - Bytes25[k][2] : k \in {k \in 1 .. 32 :
        Bytes25[k][1] = i /\ b - Bytes25[k][2] \in 0 .. 7}} \union
    {8 * (k - 1) + b + Bytes25[k][3] : k \in {k \in 1 .. 32 :
        Bytes25[k][1] = i - 1 /\ Len(Bytes25[k]) = 3 /\ b + Bytes25[k][3] \in 0 .. 7}}

-----------------------------------------------------------------------------
(* Calls *)

AskField ==
    \/ \E f \in Loose, g \in LooseB, fn \in {"add51", "sub51", "mul51"} : Ask([fn |-> fn, f |-> f, g |-> g])
    \/ \E f \in Loose, fn \in {"neg51", "sq51", "sq2_51", "reduce51"} : Ask([fn |-> fn, f |-> f])
    \/ \E f, g \in SignedB, fn \in {"add25", "sub25", "mul25"} : Ask([fn |-> fn, f |-> f, g |-> g])
    \/ \E f \in Signed, fn \in {"neg25", "sq25", "sq2_25", "carried25"} : Ask([fn |-> fn, f |-> f])
    \/ \E f \in Loose, n \in Multipliers : Ask([fn |-> "mul32_51", f |-> f, n |-> n])
    \/ \E f \in Signed, n \in Multipliers : Ask([fn |-> "mul32_25", f |-> f, n |-> n])
    \/ \E f \in Unreduced : Ask([fn |-> "reduce25", f |-> f])
    \/ \E p \in 0 .. 255, fn \in {"frombytes51", "frombytes25"} : Ask([fn |-> fn, bit |-> p])
    \/ \E i \in 0 .. 4, b \in 0 .. 50 : Ask([fn |-> "tobytes51", limb |-> i, bit |-> b])
    \/ \E i \in 0 .. 9, b \in 0 .. 25 :
            /\ (i % 2 = 0 \/ b < 25)
            /\ Ask([fn |-> "tobytes25", limb |-> i, bit |-> b])

Five ==
    \/ Called("add51") /\ Answer(add51(call.f, call.g))
    \/ Called("sub51") /\ Answer(sub51(call.f, call.g))
    \/ Called("neg51") /\ Answer(neg51(call.f))
    \/ Called("mul51") /\ Answer(mul51(call.f, call.g))
    \/ Called("sq51") /\ Answer(sq51(call.f))
    \/ Called("sq2_51") /\ Answer(sq2_51(call.f))
    \/ Called("mul32_51") /\ Answer(mul32_51(call.f, call.n))
    \/ Called("reduce51") /\ Answer(reduce51(call.f))

Ten ==
    \/ Called("add25") /\ Answer(add25(call.f, call.g))
    \/ Called("sub25") /\ Answer(sub25(call.f, call.g))
    \/ Called("neg25") /\ Answer(neg25(call.f))
    \/ Called("mul25") /\ Answer(mul25(call.f, call.g))
    \/ Called("sq25") /\ Answer(sq25(call.f))
    \/ Called("sq2_25") /\ Answer(sq2_25(call.f))
    \/ Called("mul32_25") /\ Answer(mul32_25(call.f, call.n))
    \/ Called("carried25") /\ Answer(carried25(call.f))
    \/ Called("reduce25") /\ Answer(reduce25(call.f))

Coded ==
    \/ Called("frombytes51") /\ Answer(frombytes51(call.bit))
    \/ Called("frombytes25") /\ Answer(frombytes25(call.bit))
    \/ Called("tobytes51") /\ Answer(tobytes51(call.limb, call.bit))
    \/ Called("tobytes25") /\ Answer(tobytes25(call.limb, call.bit))

AnswerField == Five \/ Ten \/ Coded

-----------------------------------------------------------------------------
(* What the functions promise *)

Fns51 == {"add51", "sub51", "neg51", "mul51", "sq51", "sq2_51", "mul32_51", "reduce51"}
Fns25 == {"add25", "sub25", "neg25", "mul25", "sq25", "sq2_25", "mul32_25", "carried25", "reduce25"}

(* The residue of a product: q may be too large to multiply two residues,  *)
(* so one factor is taken limb by limb, and a limb in two parts.           *)
Multiple(r, x, q) == (64 * ((r * (x \div 64)) % q) + r * (x % 64)) % q
Product(f, g, Width(_), q) ==
    LET n == Cardinality(DOMAIN f)
        r == Residue(g, Width, q)
        from[k \in 0 .. n] ==
            IF k = n THEN 0 ELSE (((from[k + 1] * 2 ^ Width(k)) % q) + Multiple(r, f[k], q)) % q
    IN from[0]

(* The residue of the answer is that of the operation on the arguments. *)
Right(Width(_), fn, q) ==
    LET f == Residue(call.f, Width, q)
        g == Residue(call.g, Width, q)
        square == Product(call.f, call.f, Width, q)
    IN Residue(answer, Width, q) =
         CASE fn \in {"add51", "add25"}       -> (f + g) % q
           [] fn \in {"sub51", "sub25"}       -> (f - g) % q
           [] fn \in {"neg51", "neg25"}       -> (-f) % q
           [] fn \in {"mul51", "mul25"}       -> Product(call.f, call.g, Width, q)
           [] fn \in {"sq51", "sq25"}         -> square
           [] fn \in {"sq2_51", "sq2_25"}     -> (2 * square) % q
           [] fn \in {"mul32_51", "mul32_25"} -> (f * call.n) % q
           [] fn \in {"reduce51", "reduce25", "carried25"} -> f

(* Whatever the limbs an element has been left with by lazy additions, an  *)
(* operation returns an element with the value it promises modulo p, and   *)
(* with five limbs none of them has gone below zero: the products that     *)
(* wrap round are counted C times and those of two odd limbs twice, and no *)
(* carry is lost (fe25519_mul and the other functions of fe_51 and fe_25_5).*)
FieldRing ==
    /\ Answered(Fns51) =>
          /\ \A q \in Factors : Right(W51, call.fn, q)
          /\ \A i \in 0 .. 4 : answer[i] >= 0
    /\ Answered(Fns25) => \A q \in Factors : Right(W25, call.fn, q)

(* Every bit of the 32 bytes but the last counts once, with its own        *)
(* weight, and every bit of a reduced element is written once, where it    *)
(* will be read (fe25519_frombytes, fe25519_tobytes).                      *)
BitsKept ==
    /\ Answered({"frombytes51", "frombytes25"}) => answer = {call.bit} \ {255}
    /\ Answered({"tobytes51"}) => answer = {51 * call.limb + call.bit}
    /\ Answered({"tobytes25"}) => answer = {Weight25(call.limb) + call.bit}

(* Two elements are equal when their bytes are: reduction must return the  *)
(* one representation between 0 and p - 1 (fe25519_reduce), and the bytes  *)
(* hold its bits.  Five limbs are reduced at 0 and just below and above p  *)
(* and 2 p, which subtracting an element from itself leaves; ten limbs     *)
(* just below and above 0 and up to p and down to -p, as the code asks for *)
(* no more than p either side of 0.                                        *)
UniqueForm ==
    /\ Answered({"reduce51"}) => Canonical(answer, W51, C)
    /\ Answered({"reduce25"}) => Canonical(answer, W25, C)
    /\ BitsKept

(* Arithmetic modulo p with one representation, in both forms of limbs. *)
FieldHolds == FieldRing /\ UniqueForm
=============================================================================
