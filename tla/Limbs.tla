------------------------------- MODULE Limbs -------------------------------
(***************************************************************************)
(* Large numbers as the arithmetic of the library keeps them: a function   *)
(* from 0 .. n - 1 to integers, limb i having the weight of all the widths *)
(* before it.  Limbs are carried lazily, so one number has many            *)
(* representations.                                                        *)
(***************************************************************************)
EXTENDS Integers, FiniteSetsExt, SequencesExt

(* The sum of the first n values of a function on 0 .. n - 1. *)
Total(f, n) == LET upTo[k \in 0 .. n] == IF k = 0 THEN 0 ELSE upTo[k - 1] + f[k - 1] IN upTo[n]

(* The coefficients of a product of two numbers of n limbs, before any     *)
(* reduction: Weight(i, j) is the factor the code gives to f[i] * g[j].    *)
Convolved(f, g, n, Weight(_, _)) ==
    [k \in 0 .. n - 1 |->
        Total([i \in 0 .. n - 1 |-> f[i] * g[((k - i) % n)] * Weight(i, (k - i) % n)], n)]

(* One carry out of limb i of width w into limb i + 1, by floor (a shift   *)
(* and a mask) or to the nearest (a shift after half is added), which      *)
(* leaves a signed limb.  The last limb carries into the first, times c.   *)
Moved(h, i, w, carry, c) ==
    LET n    == Cardinality(DOMAIN h)
        next == (i + 1) % n
    IN [h EXCEPT ![i] = @ - carry * 2 ^ w, ![next] = @ + carry * (IF next = 0 THEN c ELSE 1)]

Floored(h, i, w, c) == Moved(h, i, w, h[i] \div 2 ^ w, c)
Nearest(h, i, w, c) == Moved(h, i, w, (h[i] + 2 ^ (w - 1)) \div 2 ^ w, c)

(* The residue of a number modulo a small q, by Horner's rule. *)
Residue(h, Width(_), q) ==
    LET n == Cardinality(DOMAIN h)
        from[k \in 0 .. n] == IF k = n THEN 0 ELSE (((from[k + 1] * 2 ^ Width(k)) % q) + h[k]) % q
    IN from[0]

(* The limbs are those of one number between 0 and 2^w - c - 1, w the sum  *)
(* of the widths: each fits its width, and not all of them are full with a *)
(* first limb of 2^width - c or more.                                      *)
Canonical(h, Width(_), c) ==
    /\ \A i \in DOMAIN h : h[i] \in 0 .. 2 ^ Width(i) - 1
    /\ \/ h[0] < 2 ^ Width(0) - c
       \/ \E i \in DOMAIN h \ {0} : h[i] # 2 ^ Width(i) - 1
=============================================================================
