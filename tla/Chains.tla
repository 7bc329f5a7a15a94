------------------------------- MODULE Chains -------------------------------
(***************************************************************************)
(* The powers that inversion and square roots are made of, and the         *)
(* multiple of a point by the order of the group, at their real size: each *)
(* is a fixed chain of a few hundred squarings and products, and what it   *)
(* computes is the exponent it ends with.  An exponent of up to 256 bits   *)
(* is kept as its residues modulo primes with a larger product.            *)
(***************************************************************************)
EXTENDS Calls, SequencesExt

CONSTANT Moduli  \* a sequence of primes below 2^30

ASSUME ChainAssumption == \A i \in 1 .. Len(Moduli) : Moduli[i] \in 2 .. 2 ^ 30

Residues(n) == [i \in 1 .. Len(Moduli) |-> n % Moduli[i]]
Added(e, f) == [i \in 1 .. Len(Moduli) |-> (e[i] + f[i]) % Moduli[i]] \o <<>>  \* computed at once

(* n squarings, in halves. *)
Squared[e \in [1 .. Len(Moduli) -> Nat], n \in 0 .. 255] ==
    IF n = 0 THEN e ELSE IF n = 1 THEN Added(e, e) ELSE Squared[Squared[e, n \div 2], n - n \div 2]

(* s squared n times, then multiplied by a. *)
sc25519_sqmul(s, n, a) == Added(Squared[s, n], a)

(* One step: to becomes from, squared n times, times another variable; ""  *)
(* is 1.                                                                   *)
Chain(steps) ==
    LET step(r, s) == (s[1] :> sc25519_sqmul(r[s[2]], s[3], r[s[4]])) @@ r
    IN FoldLeft(step, ("" :> Residues(0)) @@ ("z" :> Residues(1)), steps)["out"]

fe25519_invert ==
    Chain(<< <<"t0", "z", 1, "">>, <<"t1", "t0", 2, "z">>, <<"t0", "t0", 0, "t1">>, <<"t1", "t0", 1, "t1">>,
             <<"t1", "t1", 5, "t1">>, <<"t2", "t1", 10, "t1">>, <<"t2", "t2", 20, "t2">>, <<"t1", "t2", 10, "t1">>,
             <<"t2", "t1", 50, "t1">>, <<"t2", "t2", 100, "t2">>, <<"t1", "t2", 50, "t1">>, <<"out", "t1", 5, "t0">> >>)

(* Mutant: as many squarings as the bound of the loop. *)
pow22523_once_more ==
    Chain(<< <<"t0", "z", 1, "">>, <<"t1", "t0", 2, "z">>, <<"t0", "t0", 0, "t1">>, <<"t0", "t0", 1, "t1">>,
             <<"t0", "t0", 5, "t0">>, <<"t1", "t0", 10, "t0">>, <<"t1", "t1", 20, "t1">>, <<"t0", "t1", 11, "t0">>,
             <<"t1", "t0", 50, "t0">>, <<"t1", "t1", 100, "t1">>, <<"t0", "t1", 50, "t0">>, <<"out", "t0", 2, "z">> >>)

fe25519_pow22523 ==
    Chain(<< <<"t0", "z", 1, "">>, <<"t1", "t0", 2, "z">>, <<"t0", "t0", 0, "t1">>, <<"t0", "t0", 1, "t1">>,
             <<"t0", "t0", 5, "t0">>, <<"t1", "t0", 10, "t0">>, <<"t1", "t1", 20, "t1">>, <<"t0", "t1", 10, "t0">>,
             <<"t1", "t0", 50, "t0">>, <<"t1", "t1", 100, "t1">>, <<"t0", "t1", 50, "t0">>, <<"out", "t0", 2, "z">> >>)

fe25519_notsquare ==
    Chain(<< <<"10", "z", 0, "z">>, <<"11", "z", 0, "10">>, <<"1111", "11", 2, "11">>, <<"t", "1111", 4, "1111">>,
             <<"t", "t", 2, "11">>, <<"u", "t", 0, "">>, <<"t", "t", 10, "u">>, <<"t", "t", 10, "u">>,
             <<"v", "t", 0, "">>, <<"t", "t", 30, "v">>, <<"v", "t", 0, "">>, <<"t", "t", 60, "v">>,
             <<"v", "t", 0, "">>, <<"t", "t", 120, "v">>, <<"t", "t", 10, "u">>, <<"t", "t", 3, "11">>,
             <<"out", "t", 1, "">> >>)

sc25519_invert ==
    Chain(<< <<"10", "z", 1, "">>, <<"11", "z", 0, "10">>, <<"100", "z", 0, "11">>, <<"1000", "100", 1, "">>,
             <<"1010", "10", 0, "1000">>, <<"1011", "z", 0, "1010">>, <<"10000", "1000", 1, "">>,
             <<"10110", "1011", 1, "">>, <<"100000", "1010", 0, "10110">>, <<"100110", "10000", 0, "10110">>,
             <<"1000000", "100000", 1, "">>, <<"1010000", "10000", 0, "1000000">>, <<"1010011", "11", 0, "1010000">>,
             <<"1100011", "10000", 0, "1010011">>, <<"1100111", "100", 0, "1100011">>,
             <<"1101011", "100", 0, "1100111">>, <<"10010011", "1000000", 0, "1010011">>,
             <<"10010111", "100", 0, "10010011">>, <<"10111101", "100110", 0, "10010111">>,
             <<"11010011", "10110", 0, "10111101">>, <<"11100111", "1010000", 0, "10010111">>,
             <<"11101011", "100", 0, "11100111">>, <<"11110101", "1010", 0, "11101011">>,
             <<"r", "1011", 0, "11110101">>, <<"r", "r", 126, "1010011">>, <<"r", "r", 9, "10">>,
             <<"r", "r", 0, "11110101">>, <<"r", "r", 7, "1100111">>, <<"r", "r", 9, "11110101">>,
             <<"r", "r", 11, "10111101">>, <<"r", "r", 8, "11100111">>, <<"r", "r", 9, "1101011">>,
             <<"r", "r", 6, "1011">>, <<"r", "r", 14, "10010011">>, <<"r", "r", 10, "1100011">>,
             <<"r", "r", 9, "10010111">>, <<"r", "r", 10, "11110101">>, <<"r", "r", 8, "11010011">>,
             <<"out", "r", 8, "11101011">> >>)

(* The digits of the order by which a point is doubled and added, those    *)
(* that are not 0.                                                         *)
mul_l_digits ==
    << <<252, 1>>, <<122, 5>>, <<117, 7>>, <<112, -1>>, <<107, -1>>, <<101, 15>>, <<93, -11>>, <<88, 3>>, <<83, -1>>,
       <<77, -3>>, <<70, -13>>, <<65, 11>>, <<59, 11>>, <<50, 5>>, <<45, -13>>, <<40, 3>>, <<34, 7>>, <<29, -13>>,
       <<24, -3>>, <<17, -5>>, <<10, -11>>, <<5, -1>>, <<0, 13>> >>

mul_l ==
    LET step(s, d) == [at |-> d[1], r |-> Added(Squared[s.r, s.at - d[1]], Residues(d[2]))]
    IN FoldLeft(step, [at |-> 252, r |-> Residues(0)], mul_l_digits).r

-----------------------------------------------------------------------------
AskChain == \E fn \in {"fe25519_invert", "fe25519_pow22523", "fe25519_notsquare", "sc25519_invert", "mul_l"} :
                Ask([fn |-> fn])

AnswerChain ==
    \/ Called("fe25519_invert") /\ Answer(fe25519_invert)
    \/ Called("fe25519_pow22523") /\ Answer(fe25519_pow22523)
    \/ Called("fe25519_notsquare") /\ Answer(fe25519_notsquare)
    \/ Called("sc25519_invert") /\ Answer(sc25519_invert)
    \/ Called("mul_l") /\ Answer(mul_l)

-----------------------------------------------------------------------------
TwoTo(n) == Squared[Residues(1), n]

(* The order of the group, from the lowest byte. *)
L == <<237, 211, 245, 92, 26, 99, 18, 88, 214, 156, 247, 162, 222, 249, 222, 20>>
OrderL == Added(TwoTo(252), FoldRight(LAMBDA b, e : Added(Squared[e, 8], Residues(b)), L, Residues(0)))

(* Each chain ends with the exponent it is named for: p - 2 inverts,       *)
(* (p - 5) / 8 is what a square root is made from, (p - 1) / 2 decides     *)
(* whether there is one; L - 2 inverts modulo the order L, and the digits  *)
(* that multiply a point by L add up to it.                                *)
ChainsRight ==
    /\ Answered({"fe25519_invert"}) => answer = Added(TwoTo(255), Residues(-21))
    /\ Answered({"fe25519_pow22523"}) => answer = Added(TwoTo(252), Residues(-3))
    /\ Answered({"fe25519_notsquare"}) => answer = Added(TwoTo(254), Residues(-10))
    /\ Answered({"sc25519_invert"}) => answer = Added(OrderL, Residues(-2))
    /\ Answered({"mul_l"}) => answer = OrderL
=============================================================================
