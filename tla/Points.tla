------------------------------- MODULE Points -------------------------------
(***************************************************************************)
(* Points of a twisted Edwards curve in the representations of             *)
(* ed25519_ref10.c, and their multiples by every method the code has.  The *)
(* formulas, tables, digits and loops are the code's; the field is that of *)
(* the prime Q, 5 modulo 8 like 2^255 - 19, and the curve one with the     *)
(* structure of edwards25519: 8 * Order points, Order prime.               *)
(***************************************************************************)
EXTENDS Calls, FiniteSetsExt, SequencesExt, TLC

CONSTANTS Q, D,        \* the prime and the constant d of the curve
          Generator,   \* <<x, y>> of a point whose multiples are all points
          Order,       \* the order of the main subgroup
          OrderDigits, \* signed digits of Order, the lowest first
          Nibbles,     \* digits of a scalar in base 16, 64 in the code
          PointScalars, Denominators

Points == 8 * Order
Bits == 4 * Nibbles

f ++ g == (f + g) % Q
f -- g == (f - g) % Q
f ** g == (f * g) % Q

Power[f \in 0 .. Q - 1, n \in 0 .. Q - 1] ==
    IF n = 0 THEN 1 ELSE (IF n % 2 = 0 THEN 1 ELSE f) ** Power[f ** f, n \div 2]
Inv(f) == Power[f, Q - 2]

ASSUME PointAssumption ==
    /\ Q % 8 = 5 /\ \A n \in 2 .. Q - 1 : Q % n # 0
    /\ Power[D, (Q - 1) \div 2] = Q - 1
    /\ Nibbles % 2 = 0 /\ PointScalars \subseteq 0 .. 2 ^ (Bits - 1) - 1
    /\ Denominators \subseteq 1 .. Q - 1

(* The group as it is defined: <<x, y>> with -x^2 + y^2 = 1 + d x^2 y^2.   *)
AffineSum(u, v) ==
    LET e == D ** (u[1] ** (v[1] ** (u[2] ** v[2])))
    IN <<((u[1] ** v[2]) ++ (u[2] ** v[1])) ** Inv(1 ++ e), ((u[2] ** v[2]) ++ (u[1] ** v[1])) ** Inv(1 -- e)>>

(* The points by the multiple of the generator they are. *)
Affine ==
    LET sums == Loop(LAMBDA s, i : Append(s, AffineSum(s[i], Generator)), <<<<0, 1>>>>, [i \in 1 .. Points - 1 |-> i])
    IN [k \in 0 .. Points - 1 |-> sums[k + 1]] @@ <<>>

(* Affine is named once in each, since every naming may compute it. *)
Index(u) == Only({CHOOSE k \in 0 .. Points - 1 : points[k] = u : points \in {Affine}})
IsPoint(u) == \E points \in {Affine} : \E k \in 0 .. Points - 1 : points[k] = u

(* The base point: 8 times the generator, so of the prime order. *)
Base == 8

-----------------------------------------------------------------------------
(* Representations: p2 is x = X / Z, y = Y / Z; p3 also has T = XY / Z;    *)
(* p1p1 is x = X / Z, y = Y / T; cached and precomp are prepared for sums. *)

P3(k, z) == LET u == Affine[k] IN [X |-> u[1] ** z, Y |-> u[2] ** z, Z |-> z, T |-> z ** (u[1] ** u[2])]
OfP2(p) == <<p.X ** Inv(p.Z), p.Y ** Inv(p.Z)>>
WellFormed(p) == p.Z # 0 /\ p.T ** p.Z = p.X ** p.Y /\ IsPoint(OfP2(p))

ge25519_p2_0 == [X |-> 0, Y |-> 1, Z |-> 1]
ge25519_p3_0 == [X |-> 0, Y |-> 1, Z |-> 1, T |-> 0]
ge25519_cached_0 == [YplusX |-> 1, YminusX |-> 1, Z |-> 1, T2d |-> 0]
ge25519_precomp_0 == [yplusx |-> 1, yminusx |-> 1, xy2d |-> 0]

(* These two are of sums, which Only computes once. *)
ge25519_p1p1_to_p2(sum) == Only({[X |-> p.X ** p.T, Y |-> p.Y ** p.Z, Z |-> p.Z ** p.T] : p \in {sum}})
ge25519_p1p1_to_p3(sum) ==
    Only({[X |-> p.X ** p.T, Y |-> p.Y ** p.Z, Z |-> p.Z ** p.T, T |-> p.X ** p.Y] : p \in {sum}})

ge25519_p3_to_p2(p) == [X |-> p.X, Y |-> p.Y, Z |-> p.Z]
ge25519_p3_to_cached(p) == [YplusX |-> p.Y ++ p.X, YminusX |-> p.Y -- p.X, Z |-> p.Z, T2d |-> p.T ** (2 ** D)]
ge25519_p3_to_precomp(p) ==
    LET u == OfP2(p)
    IN [yplusx |-> u[2] ++ u[1], yminusx |-> u[2] -- u[1], xy2d |-> (u[1] ** u[2]) ** (2 ** D)]

(* a and b the products for Y - X and Y + X, c with 2d, e twice Z. *)
SumOf(a, b, c, e) == [X |-> a -- b, Y |-> a ++ b, Z |-> e ++ c, T |-> e -- c]
DifferenceOf(a, b, c, e) == [X |-> a -- b, Y |-> a ++ b, Z |-> e -- c, T |-> e ++ c]

ge25519_add(p, q) ==
    SumOf((p.Y ++ p.X) ** q.YplusX, (p.Y -- p.X) ** q.YminusX, q.T2d ** p.T, 2 ** (p.Z ** q.Z))
ge25519_sub(p, q) ==
    DifferenceOf((p.Y ++ p.X) ** q.YminusX, (p.Y -- p.X) ** q.YplusX, q.T2d ** p.T, 2 ** (p.Z ** q.Z))
ge25519_madd(p, q) == SumOf((p.Y ++ p.X) ** q.yplusx, (p.Y -- p.X) ** q.yminusx, q.xy2d ** p.T, 2 ** p.Z)
ge25519_msub(p, q) == DifferenceOf((p.Y ++ p.X) ** q.yminusx, (p.Y -- p.X) ** q.yplusx, q.xy2d ** p.T, 2 ** p.Z)

ge25519_p2_dbl(p) ==
    LET yy  == p.Y ** p.Y
        xx  == p.X ** p.X
        sum == p.X ++ p.Y
    IN [X |-> (sum ** sum) -- (yy ++ xx), Y |-> yy ++ xx, Z |-> yy -- xx, T |-> (2 ** (p.Z ** p.Z)) -- (yy -- xx)]
ge25519_p3_dbl(p) == ge25519_p2_dbl(ge25519_p3_to_p2(p))

ge25519_is_on_curve(p) ==
    LET xx == p.X ** p.X
        yy == p.Y ** p.Y
        zz == p.Z ** p.Z
    IN ((yy -- xx) ** zz) -- ((D ** (xx ** yy)) ++ (zz ** zz)) = 0

Doubled(p, n) == Loop(LAMBDA r, i : ge25519_p2_dbl(ge25519_p1p1_to_p2(r)), p, [i \in 1 .. n |-> i])

-----------------------------------------------------------------------------
(* Scalars as digits *)

Bit(a, i) == (a \div 2 ^ i) % 2

(* Adding 2^i to r from bit i on: ones become zeros up to the first zero. *)
Carried(r, i) ==
    LET k == Min({j \in i .. Bits - 1 : r[j] = 0} \union {Bits})
    IN [j \in DOMAIN r |-> IF j \in i .. k - 1 THEN 0 ELSE IF j = k THEN 1 ELSE r[j]]

(* The bit b places above digit i is taken into it, as 2^b or, with a      *)
(* carry, as -2^b, while the digit stays between -15 and 15.               *)
Absorbed(s, i, b) ==
    LET ribs == s.r[i + b] * 2 ^ b
    IN IF s.stop \/ i + b >= Bits \/ ribs = 0 THEN s
       ELSE IF s.r[i] + ribs <= 15 THEN [s EXCEPT !.r[i] = @ + ribs, !.r[i + b] = 0]
       ELSE IF s.r[i] - ribs < -15 THEN [s EXCEPT !.stop = TRUE]
       ELSE [s EXCEPT !.r = [Carried(@, i + b) EXCEPT ![i] = @ - ribs]]

slide_vartime(a) ==
    Loop(LAMBDA r, i : IF r[i] = 0 THEN r
                           ELSE FoldLeft(LAMBDA s, b : Absorbed(s, i, b), [r |-> r, stop |-> FALSE], <<1, 2, 3, 4, 5, 6>>).r,
             [i \in 0 .. Bits - 1 |-> Bit(a, i)], [i \in 1 .. Bits |-> i - 1])

(* Mutant: the last carry is not added. *)
Recoded_top_kept(a) ==
    FoldLeft(LAMBDA e, i : IF i < Nibbles - 1 /\ e[i] + 8 >= 16
                           THEN [e EXCEPT ![i] = @ - 16, ![i + 1] = IF i + 1 < Nibbles - 1 THEN @ + 1 ELSE @] ELSE e,
             [i \in 0 .. Nibbles - 1 |-> (a \div 16 ^ i) % 16], [i \in 1 .. Nibbles |-> i - 1])

(* Digits of -8 to 8 in base 16; the last one takes the carry and keeps it. *)
Recoded(a) ==
    FoldLeft(LAMBDA e, i : IF i < Nibbles - 1 /\ e[i] + 8 >= 16 THEN [e EXCEPT ![i] = @ - 16, ![i + 1] = @ + 1] ELSE e,
             [i \in 0 .. Nibbles - 1 |-> (a \div 16 ^ i) % 16], [i \in 1 .. Nibbles |-> i - 1])

-----------------------------------------------------------------------------
(* Multiples *)

(* The entry for a digit of -8 to 8 of a table of 1 to 8 times a point. *)
ge25519_cmov8(table, b) ==
    LET t == IF b = 0 THEN ge25519_precomp_0 ELSE table[IF b < 0 THEN -b ELSE b]
    IN IF b < 0 THEN [yplusx |-> t.yminusx, yminusx |-> t.yplusx, xy2d |-> 0 -- t.xy2d] ELSE t

ge25519_cmov8_cached(table, b) ==
    LET t == IF b = 0 THEN ge25519_cached_0 ELSE table[IF b < 0 THEN -b ELSE b]
    IN IF b < 0 THEN [YplusX |-> t.YminusX, YminusX |-> t.YplusX, Z |-> t.Z, T2d |-> 0 -- t.T2d] ELSE t

(* The tables the library was built with: 1 to 8 times 256^i B, and the    *)
(* odd multiples of B.                                                     *)
base(i) == [j \in 1 .. 8 |-> ge25519_p3_to_precomp(P3((j * 256 ^ i * Base) % Points, 1))]
Bi == [j \in 0 .. 7 |-> ge25519_p3_to_precomp(P3(((2 * j + 1) * Base) % Points, 1))] @@ <<>>

ge25519_cmov8_base(pos, b) == ge25519_cmov8(base(pos), b)

(* A, 3A, ... 15A, each from the one before. *)
OddMultiples(A) ==
    LET A2 == ge25519_p1p1_to_p3(ge25519_p3_dbl(A))
        next(t, i) == Append(t, ge25519_p3_to_cached(ge25519_p1p1_to_p3(ge25519_add(A2, t[i]))))
        all == Loop(next, <<ge25519_p3_to_cached(A)>>, <<1, 2, 3, 4, 5, 6, 7>>)
    IN [j \in 0 .. 7 |-> all[j + 1]]

(* One digit of a, and one of b, for the p1p1 point t. *)
AddDigit(t, Ai, a) ==
    IF a > 0 THEN ge25519_add(ge25519_p1p1_to_p3(t), Ai[a \div 2])
    ELSE IF a < 0 THEN ge25519_sub(ge25519_p1p1_to_p3(t), Ai[(-a) \div 2]) ELSE t
AddBaseDigit(t, b) ==
    IF b > 0 THEN ge25519_madd(ge25519_p1p1_to_p3(t), Bi[b \div 2])
    ELSE IF b < 0 THEN ge25519_msub(ge25519_p1p1_to_p3(t), Bi[(-b) \div 2]) ELSE t

ge25519_double_scalarmult_vartime(a, A, b) ==
    LET places(s) == 1 + Max({-1} \union {i \in 0 .. Bits - 1 : s[1][i] # 0 \/ s[2][i] # 0})
    IN Only({Loop(LAMBDA r, i : ge25519_p1p1_to_p2(AddBaseDigit(AddDigit(ge25519_p2_dbl(r), s[3], s[1][i]), s[2][i])),
                  ge25519_p2_0, [k \in 1 .. s[4] |-> s[4] - k])
             : s \in {Append(t, places(t)) : t \in {<<slide_vartime(a), slide_vartime(b), OddMultiples(A)>>}}})

(* p, 2p, ... 8p: even multiples by doubling, odd ones by adding p. *)
Multiples8(p) ==
    LET next(t, j) ==
            Append(t, ge25519_p1p1_to_p3(IF j % 2 = 0 THEN ge25519_p3_dbl(t[j \div 2])
                                         ELSE ge25519_add(p, ge25519_p3_to_cached(t[j - 1]))))
        all == Loop(next, <<p>>, <<2, 3, 4, 5, 6, 7, 8>>)
    IN [j \in 1 .. 8 |-> ge25519_p3_to_cached(all[j])]

ge25519_scalarmult(a, p) ==
    LET added(s, h, i) == ge25519_add(h, ge25519_cmov8_cached(s[2], s[1][i]))
    IN Only({ge25519_p1p1_to_p3(added(s,
                 Loop(LAMBDA h, i : ge25519_p1p1_to_p3(Doubled(added(s, h, i), 4)),
                      ge25519_p3_0, [k \in 1 .. Nibbles - 1 |-> Nibbles - k]), 0))
             : s \in {<<Recoded(a), Multiples8(p)>>}})

(* The odd digits, 16 times their sum, and the even digits. *)
AddedDigits(e, first, from) ==
    Loop(LAMBDA h, i : ge25519_p1p1_to_p3(ge25519_madd(h, ge25519_cmov8_base(i \div 2, e[i]))), first,
         [k \in 1 .. Nibbles \div 2 |-> from + 2 * (k - 1)])
ge25519_scalarmult_base(a) ==
    Only({Only({AddedDigits(e, ge25519_p1p1_to_p3(Doubled(ge25519_p3_dbl(odd), 3)), 0)
                : odd \in {AddedDigits(e, ge25519_p3_0, 1)}})
          : e \in {Recoded(a)}})

ge25519_mul_l(A) ==
    Only({Loop(LAMBDA r, i : ge25519_p1p1_to_p3(AddDigit(ge25519_p3_dbl(r), Ai, OrderDigits[i])),
               ge25519_p3_0, [k \in 1 .. Len(OrderDigits) |-> Len(OrderDigits) + 1 - k])
          : Ai \in {OddMultiples(A)}})

ge25519_clear_cofactor(p) == ge25519_p1p1_to_p3(Doubled(ge25519_p3_dbl(p), 2))

-----------------------------------------------------------------------------
Sums == {"ge25519_add", "ge25519_sub", "ge25519_madd", "ge25519_msub"}

AskSum == \E fn \in Sums, i \in 0 .. Points - 1, j \in 0 .. Points - 1, z \in Denominators :
              Ask([fn |-> fn, i |-> i, j |-> j, z |-> z])
AskMultiple ==
    \/ \E i \in 0 .. Points - 1, a \in PointScalars, z \in Denominators :
           Ask([fn |-> "scalarmult", i |-> i, a |-> a, z |-> z])
    \/ \E a \in PointScalars : Ask([fn |-> "scalarmult_base", a |-> a])
    \/ \E i \in 0 .. Points - 1, z \in Denominators, fn \in {"p3_dbl", "ge25519_mul_l", "clear_cofactor"} :
           Ask([fn |-> fn, i |-> i, z |-> z])
    \/ \E i \in 0 .. Points - 1, a \in PointScalars, b \in PointScalars :
           a % 16 = b % 16 /\ Ask([fn |-> "double_scalarmult", i |-> i, a |-> a, b |-> b])

(* The second operand has a denominator of its own. *)
Second == ge25519_p3_to_cached(P3(call.j, (call.z ** call.z) ++ 1))
SecondAffine == ge25519_p3_to_precomp(P3(call.j, (call.z ** call.z) ++ 1))
First == P3(call.i, call.z)

AnswerSum ==
    \/ Called("ge25519_add") /\ Answer(ge25519_p1p1_to_p3(ge25519_add(First, Second)))
    \/ Called("ge25519_sub") /\ Answer(ge25519_p1p1_to_p3(ge25519_sub(First, Second)))
    \/ Called("ge25519_madd") /\ Answer(ge25519_p1p1_to_p3(ge25519_madd(First, SecondAffine)))
    \/ Called("ge25519_msub") /\ Answer(ge25519_p1p1_to_p3(ge25519_msub(First, SecondAffine)))
AnswerMultiple ==
    \/ Called("scalarmult") /\ Answer(ge25519_scalarmult(call.a, First))
    \/ Called("scalarmult_base") /\ Answer(ge25519_scalarmult_base(call.a))
    \/ Called("p3_dbl") /\ Answer(ge25519_p1p1_to_p3(ge25519_p3_dbl(First)))
    \/ Called("ge25519_mul_l") /\ Answer(ge25519_mul_l(First))
    \/ Called("clear_cofactor") /\ Answer(ge25519_clear_cofactor(First))
    \/ Called("double_scalarmult") /\ Answer(ge25519_double_scalarmult_vartime(call.a, P3(call.i, 1), call.b))

AskPoint == AskSum \/ AskMultiple
AnswerPoint == AnswerSum \/ AnswerMultiple

-----------------------------------------------------------------------------
(* Which multiple of the generator the answer has to be. *)
ExpectedPoint(c) ==
    (CASE c.fn \in {"ge25519_add", "ge25519_madd"} -> c.i + c.j
       [] c.fn \in {"ge25519_sub", "ge25519_msub"} -> c.i - c.j
       [] c.fn = "p3_dbl" -> 2 * c.i
       [] c.fn = "scalarmult" -> c.a * c.i
       [] c.fn = "scalarmult_base" -> c.a * Base
       [] c.fn = "ge25519_mul_l" -> Order * c.i
       [] c.fn = "clear_cofactor" -> 8 * c.i
       [] c.fn = "double_scalarmult" -> c.a * c.i + c.b * Base) % Points

(* Sums and multiples are those of the group, whatever the operands: the   *)
(* formulas have no exception for equal, opposite or small-order points,   *)
(* signed digits and their carries add up to the scalar up to its last     *)
(* bit, and T stays XY / Z for the next sum.                               *)
MultiplesRight ==
    /\ Answered(Sums \union {"p3_dbl", "scalarmult", "scalarmult_base", "ge25519_mul_l", "clear_cofactor"}) =>
          WellFormed(answer) /\ OfP2(answer) = Affine[ExpectedPoint(call)] /\ ge25519_is_on_curve(answer)
    /\ Answered({"double_scalarmult"}) => answer.Z # 0 /\ OfP2(answer) = Affine[ExpectedPoint(call)]
=============================================================================
