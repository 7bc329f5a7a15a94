----------------------------- MODULE Encodings -----------------------------
(***************************************************************************)
(* Strings that stand for points: the encodings of ed25519 and of          *)
(* ristretto255, the maps from uniform strings and hashes to points, and   *)
(* the functions of crypto_core_ed25519, crypto_core_ristretto255 and the  *)
(* two crypto_scalarmult over them.  A string is a number: Width bits for  *)
(* a field element, and one above them for a sign.                         *)
(***************************************************************************)
EXTENDS Points

CONSTANTS Width, LowBits,   \* bits of a field element, and of its first byte
          Montgomery,       \* the coefficient A of the Montgomery curve
          EighthY,          \* y of the points of order 8
          SqrtM1, SqrtADM1, InvSqrtAMD,
          CoreScalars,
          SecondStrings     \* the second operands

PointStrings == 0 .. 2 ^ (Width + 1) - 1
Lift == 2 ^ Width - Q  \* 19 in the code

ASSUME EncodingAssumption ==
    /\ Lift \in 1 .. 2 ^ LowBits - 1
    /\ SqrtM1 ** SqrtM1 = Q - 1 /\ SqrtADM1 ** SqrtADM1 = (0 -- D) -- 1
    /\ (InvSqrtAMD ** InvSqrtAMD) ** ((0 -- 1) -- D) = 1
    /\ D ** (Montgomery ++ 2) = 2 -- Montgomery
    /\ CoreScalars \subseteq 0 .. 2 ^ Bits - 1 /\ SecondStrings \subseteq 0 .. 2 ^ (Width + 1) - 1

fe25519_frombytes(s) == (s % 2 ^ Width) % Q
Sign(s) == s \div 2 ^ Width
Minus(f) == 0 -- f
IsNegative(f) == f % 2
Abs(f) == IF IsNegative(f) = 1 THEN Minus(f) ELSE f
Square(f) == f ** f
Cube(f) == f ** (f ** f)

(* The exponents that the chains end with. *)
Pow22523(f) == Power[f, (Q - 5) \div 8]
NotSquare(f) == Power[f, (Q - 1) \div 2] = Q - 1

Made(ret, p) == [ret |-> ret, p |-> p]
Refusal == [ret |-> -1]
OnAxis(x, y) == [X |-> x, Y |-> y, Z |-> 1, T |-> x ** y]

-----------------------------------------------------------------------------
(* ed25519 *)

(* All bits above the first byte are set, and that is not below Q's. *)
ge25519_is_canonical(s) ==
    ~ ((s % 2 ^ Width) \div 2 ^ LowBits = 2 ^ (Width - LowBits) - 1 /\ s % 2 ^ LowBits >= Q % 2 ^ LowBits)

ge25519_has_small_order(s) == s % 2 ^ Width \in {0, 1, Q - 1, Q, Q + 1} \union EighthY

Numerator(y) == Square(y) -- 1
Denominator(y) == (Square(y) ** D) ++ 1

ge25519_frombytes ==
    [s \in PointStrings |->
        LET y    == fe25519_frombytes(s)
            u    == Numerator(y)
            v    == Denominator(y)
            x    == u ** Pow22523(u ** v)
            vxx  == Square(x) ** v
            root == IF vxx = u THEN x ELSE x ** SqrtM1
        IN Made(IF vxx = u \/ vxx ++ u = 0 THEN 0 ELSE -1,
                OnAxis(IF IsNegative(root) # Sign(s) THEN Minus(root) ELSE root, y))]

ge25519_frombytes_negate_vartime ==
    [s \in PointStrings |->
        LET y    == fe25519_frombytes(s)
            u    == Numerator(y)
            v    == Denominator(y)
            x    == (Pow22523(((Square(Cube(v))) ** v) ** u) ** Cube(v)) ** u
            vxx  == Square(x) ** v
            root == IF vxx = u THEN x ELSE x ** SqrtM1
        IN IF vxx # u /\ vxx ++ u # 0 THEN Refusal
           ELSE Made(0, OnAxis(IF IsNegative(root) = Sign(s) THEN Minus(root) ELSE root, y))]

EncodingOf(u) == u[2] + (2 ^ Width) * IsNegative(u[1])
ge25519_p3_tobytes(p) == EncodingOf(OfP2(p))
ge25519_tobytes(p) == EncodingOf(OfP2(p))

ge25519_is_on_main_subgroup(p) == ge25519_mul_l(p).X = 0

crypto_core_ed25519_is_valid_point ==
    [s \in PointStrings |->
        /\ ge25519_is_canonical(s) /\ ~ge25519_has_small_order(s)
        /\ LET h == ge25519_frombytes[s]
           IN h.ret = 0 /\ ge25519_is_on_curve(h.p) /\ ge25519_is_on_main_subgroup(h.p)]

(* The point of a string, if it is on the curve. *)
Decoded(s) ==
    LET point(h) == IF h.ret = 0 /\ ge25519_is_on_curve(h.p) THEN {h.p} ELSE {}
    IN point(ge25519_frombytes[s])

crypto_core_ed25519_add(p, q) ==
    IF Decoded(p) = {} \/ Decoded(q) = {} THEN Refusal
    ELSE Made(0, ge25519_p3_tobytes(ge25519_p1p1_to_p3(
                     ge25519_add(ge25519_frombytes[p].p, ge25519_p3_to_cached(ge25519_frombytes[q].p)))))

crypto_core_ed25519_sub(p, q) ==
    IF Decoded(p) = {} \/ Decoded(q) = {} THEN Refusal
    ELSE Made(0, ge25519_p3_tobytes(ge25519_p1p1_to_p3(
                     ge25519_sub(ge25519_frombytes[p].p, ge25519_p3_to_cached(ge25519_frombytes[q].p)))))

(* The fractions are cleared by one inversion each; x sign is put over the *)
(* sign that was not there yet.                                            *)
ge25519_elligator2 ==
    [r \in 0 .. Q - 1, sign \in 0 .. 1 |->
        LET x0  == Minus(Inv((2 ** Square(r)) ++ 1) ** Montgomery)
            gx  == (Cube(x0) ++ x0) ++ (Square(x0) ** Montgomery)
            x   == IF NotSquare(gx) THEN Minus(x0) -- Montgomery ELSE x0
            yed == (x -- 1) ** Inv(x ++ 1)
            h   == ge25519_frombytes[yed + 2 ^ Width * sign]
        IN IF h.ret # 0 THEN "abort" ELSE ge25519_p3_tobytes(ge25519_clear_cofactor(h.p))]

ge25519_from_uniform(r) == ge25519_elligator2[fe25519_frombytes(r), Sign(r)]

(* The hash is one number of two strings, reversed; the high string weighs *)
(* 2^(Width + 1) and the top bit of the low one 2^Width.                   *)
ge25519_from_hash(high, low) ==
    ge25519_elligator2[((low % 2 ^ Width) + (Sign(low) * Lift) + (2 * Lift * (high % 2 ^ Width))) % Q, Sign(high)]

Clamped(n) == ((n - (n % 8)) % 2 ^ (Bits - 1)) + (IF Bit(n, Bits - 2) = 0 THEN 2 ^ (Bits - 2) ELSE 0)
ScalarOf(n, clamp) == IF clamp THEN Clamped(n) ELSE n % 2 ^ (Bits - 1)
IsInf(s) == s % 2 ^ Width = 1

crypto_scalarmult_ed25519(n, s, clamp) ==
    LET h == ge25519_frombytes[s]
    IN IF \/ ~ge25519_is_canonical(s) \/ ge25519_has_small_order(s)
          \/ h.ret # 0 \/ ~ge25519_is_on_main_subgroup(h.p) THEN Refusal
       ELSE Only({Made(IF IsInf(q) \/ n = 0 THEN -1 ELSE 0, q)
                      : q \in {ge25519_p3_tobytes(ge25519_scalarmult(ScalarOf(n, clamp), h.p))}})

crypto_scalarmult_ed25519_base(n, clamp) ==
    Only({Made(IF IsInf(q) \/ n = 0 THEN -1 ELSE 0, q)
              : q \in {ge25519_p3_tobytes(ge25519_scalarmult_base(ScalarOf(n, clamp)))}})

-----------------------------------------------------------------------------
(* ristretto255: a point stands for itself and the three others that       *)
(* differ from it by a point of order 4 or less.                           *)

(* The candidate x is right, off by a root of -1, or by one of a non-square. *)
Corrected(x, vxx, u) ==
    LET p == vxx ++ u = 0
    IN [square |-> vxx = u \/ p, x |-> Abs(IF p \/ vxx ++ (u ** SqrtM1) = 0 THEN x ** SqrtM1 ELSE x)]
WithSquare(x, u, v) == Corrected(x, Square(x) ** v, u)
ristretto255_sqrt_ratio_m1 ==
    [u \in 0 .. Q - 1, v \in 0 .. Q - 1 |->
        WithSquare((Pow22523((Square(Cube(v)) ** v) ** u) ** Cube(v)) ** u, u, v)]

ristretto255_is_canonical(s) == ge25519_is_canonical(s) /\ Sign(s) = 0 /\ s % 2 = 0

ristretto255_frombytes ==
    [s \in PointStrings |->
        LET s0   == fe25519_frombytes(s)
            u1   == 1 -- Square(s0)
            u2   == 1 ++ Square(s0)
            v    == Minus(D ** Square(u1)) -- Square(u2)
            root == ristretto255_sqrt_ratio_m1[1, v ** Square(u2)]
            x0   == root.x ** u2
            x    == Abs(2 ** (x0 ** s0))
            y    == u1 ** ((root.x ** x0) ** v)
        IN IF ~ristretto255_is_canonical(s) THEN Refusal
           ELSE Made(IF root.square /\ IsNegative(x ** y) = 0 /\ y # 0 THEN 0 ELSE -1, OnAxis(x, y))]

Extended == [X : 0 .. Q - 1, Y : 0 .. Q - 1, Z : 0 .. Q - 1, T : 0 .. Q - 1]

(* Mutant: y is not negated with x. *)
ristretto_sign_kept(x, y, z, den, zinv) == Abs(den ** (z -- y))

SignTaken(x, y, z, den, zinv) == Abs(den ** (z -- (IF IsNegative(x ** zinv) = 1 THEN Minus(y) ELSE y)))

(* A point with x * y negative gives way to the one turned by order 4. *)
Turned(p, den1, den2, zinv) ==
    IF IsNegative(p.T ** zinv) = 1 THEN SignTaken(p.Y ** SqrtM1, p.X ** SqrtM1, p.Z, den1 ** InvSqrtAMD, zinv)
    ELSE SignTaken(p.X, p.Y, p.Z, den2, zinv)

ristretto255_p3_tobytes[p \in Extended] ==
    LET u1   == (p.Z ++ p.Y) ** (p.Z -- p.Y)
        u2   == p.X ** p.Y
        root == ristretto255_sqrt_ratio_m1[1, u1 ** Square(u2)].x
    IN Turned(p, root ** u1, root ** u2, ((root ** u1) ** (root ** u2)) ** p.T)

ristretto255_elligator ==
    [t \in 0 .. Q - 1 |->
        LET r    == SqrtM1 ** Square(t)
            u    == (r ++ 1) ** (1 -- Square(D))
            v    == (Minus(1) -- (r ** D)) ** (r ++ D)
            root == ristretto255_sqrt_ratio_m1[u, v]
            s    == IF root.square THEN root.x ELSE Minus(Abs(root.x ** t))
            c    == IF root.square THEN Minus(1) ELSE r
            n    == (((r -- 1) ** c) ** Square(D -- 1)) -- v
            w0   == (2 ** s) ** v
            w1   == n ** SqrtADM1
            w2   == 1 -- Square(s)
            w3   == 1 ++ Square(s)
        IN [X |-> w0 ** w3, Y |-> w2 ** w1, Z |-> w1 ** w3, T |-> w0 ** w2]]

RistrettoSum(p, q) == ristretto255_p3_tobytes[ge25519_p1p1_to_p3(ge25519_add(p, ge25519_p3_to_cached(q)))]
RistrettoDifference(p, q) == ristretto255_p3_tobytes[ge25519_p1p1_to_p3(ge25519_sub(p, ge25519_p3_to_cached(q)))]

ristretto255_from_hash(first, second) ==
    RistrettoSum(ristretto255_elligator[fe25519_frombytes(first)], ristretto255_elligator[fe25519_frombytes(second)])

crypto_core_ristretto255_add(p, q) ==
    LET of(h, k) == IF h.ret # 0 \/ k.ret # 0 THEN Refusal ELSE Made(0, RistrettoSum(h.p, k.p))
    IN of(ristretto255_frombytes[p], ristretto255_frombytes[q])

crypto_core_ristretto255_sub(p, q) ==
    LET of(h, k) == IF h.ret # 0 \/ k.ret # 0 THEN Refusal ELSE Made(0, RistrettoDifference(h.p, k.p))
    IN of(ristretto255_frombytes[p], ristretto255_frombytes[q])

ProductOf(q) == Made(IF q = 0 THEN -1 ELSE 0, q)

crypto_scalarmult_ristretto255(n, s) ==
    IF ristretto255_frombytes[s].ret # 0 THEN Refusal
    ELSE Only({ProductOf(ristretto255_p3_tobytes[p])
                   : p \in {ge25519_scalarmult(n % 2 ^ (Bits - 1), ristretto255_frombytes[s].p)}})

crypto_scalarmult_ristretto255_base(n) ==
    Only({ProductOf(ristretto255_p3_tobytes[p]) : p \in {ge25519_scalarmult_base(n % 2 ^ (Bits - 1))}})

-----------------------------------------------------------------------------
AskEd25519 ==
    \/ \E fn \in {"frombytes", "frombytes_negate_vartime", "is_valid_point", "from_uniform"}, s \in PointStrings :
           Ask([fn |-> fn, s |-> s])
    \/ \E k \in 0 .. Points - 1, z \in Denominators : Ask([fn |-> "p3_tobytes", k |-> k, z |-> z])
    \/ \E fn \in {"from_hash", "ed25519_add", "ed25519_sub"}, s \in PointStrings, r \in SecondStrings :
           Ask([fn |-> fn, s |-> s, r |-> r])
    \/ \E n \in CoreScalars, clamp \in BOOLEAN :
           \/ Ask([fn |-> "scalarmult_ed25519_base", n |-> n, clamp |-> clamp])
           \/ \E s \in PointStrings : Ask([fn |-> "scalarmult_ed25519", n |-> n, s |-> s, clamp |-> clamp])
AskRistretto ==
    \/ \E s \in PointStrings : Ask([fn |-> "ristretto_frombytes", s |-> s])
    \/ \E k \in 0 .. Points - 1, z \in Denominators : Ask([fn |-> "ristretto_p3_tobytes", k |-> k, z |-> z])
    \/ \E t \in 0 .. Q - 1 : Ask([fn |-> "ristretto_elligator", t |-> t])
    \/ \E fn \in {"ristretto_from_hash", "ristretto_add", "ristretto_sub"}, s \in PointStrings, r \in SecondStrings :
           Ask([fn |-> fn, s |-> s, r |-> r])
    \/ \E n \in CoreScalars :
           \/ Ask([fn |-> "scalarmult_ristretto_base", n |-> n])
           \/ \E s \in PointStrings : Ask([fn |-> "scalarmult_ristretto", n |-> n, s |-> s])

AnswerEd25519 ==
    \/ Called("frombytes") /\ Answer(ge25519_frombytes[call.s])
    \/ Called("frombytes_negate_vartime") /\ Answer(ge25519_frombytes_negate_vartime[call.s])
    \/ Called("is_valid_point") /\ Answer(crypto_core_ed25519_is_valid_point[call.s])
    \/ Called("from_uniform") /\ Answer(ge25519_from_uniform(call.s))
    \/ Called("from_hash") /\ Answer(ge25519_from_hash(call.s, call.r))
    \/ Called("p3_tobytes") /\ Answer(ge25519_p3_tobytes(P3(call.k, call.z)))
    \/ Called("ed25519_add") /\ Answer(crypto_core_ed25519_add(call.s, call.r))
    \/ Called("ed25519_sub") /\ Answer(crypto_core_ed25519_sub(call.s, call.r))
    \/ Called("scalarmult_ed25519") /\ Answer(crypto_scalarmult_ed25519(call.n, call.s, call.clamp))
    \/ Called("scalarmult_ed25519_base") /\ Answer(crypto_scalarmult_ed25519_base(call.n, call.clamp))
AnswerRistretto ==
    \/ Called("ristretto_frombytes") /\ Answer(ristretto255_frombytes[call.s])
    \/ Called("ristretto_p3_tobytes") /\ Answer(ristretto255_p3_tobytes[P3(call.k, call.z)])
    \/ Called("ristretto_elligator") /\ Answer(ristretto255_elligator[call.t])
    \/ Called("ristretto_from_hash") /\ Answer(ristretto255_from_hash(call.s, call.r))
    \/ Called("ristretto_add") /\ Answer(crypto_core_ristretto255_add(call.s, call.r))
    \/ Called("ristretto_sub") /\ Answer(crypto_core_ristretto255_sub(call.s, call.r))
    \/ Called("scalarmult_ristretto") /\ Answer(crypto_scalarmult_ristretto255(call.n, call.s))
    \/ Called("scalarmult_ristretto_base") /\ Answer(crypto_scalarmult_ristretto255_base(call.n))

AskEncoding == AskEd25519 \/ AskRistretto
AnswerEncoding == AnswerEd25519 \/ AnswerRistretto

-----------------------------------------------------------------------------
(* The multiples of the generator that a string stands for, at most one;   *)
(* the sign of 0 may be either, and y may be written with Q added.         *)
Standing == 
    Only({[s \in PointStrings |->
              {k \in 0 .. Points - 1 : /\ points[k][2] = fe25519_frombytes(s)
                                       /\ points[k][1] # 0 => IsNegative(points[k][1]) = Sign(s)}] @@ <<>>
          : points \in {Affine}})
IsOf(k, s) == Standing[s] = {k % Points}
Encoded(k) == EncodingOf(Affine[k % Points])

(* The multiples, up to points of order 4, that a string of ristretto255   *)
(* stands for; there are Order of them.                                    *)
Cosets == [s \in PointStrings |->
              LET h == ristretto255_frombytes[s]
              IN IF h.ret = 0 THEN {Index(OfP2(h.p)) % (2 * Order)} ELSE {}] @@ <<>>
ElligatorIndex == [t \in 0 .. Q - 1 |-> Index(OfP2(ristretto255_elligator[t]))] @@ <<>>

(* ed25519: a string is decoded exactly when its y is that of a point, to  *)
(* the point with its sign, and the encoding of a point does not depend on *)
(* its representation and leads back to it.  is_valid_point and scalarmult *)
(* accept one string per point, none of small order, and of the others     *)
(* those whose double is in the main subgroup.  What is made from uniform  *)
(* strings and hashes is always in the main subgroup, and so is every      *)
(* multiple by a clamped scalar; the identity is reported.                 *)
Ed25519Encodings ==
    /\ Answered({"frombytes"}) =>
          IF Standing[call.s] = {} THEN answer.ret = -1
          ELSE answer.ret = 0 /\ WellFormed(answer.p) /\ IsOf(Index(OfP2(answer.p)), call.s)
    /\ Answered({"frombytes_negate_vartime"}) =>
          IF Standing[call.s] = {} THEN answer.ret = -1
          ELSE answer.ret = 0 /\ WellFormed(answer.p) /\ IsOf(Points - Index(OfP2(answer.p)), call.s)
    /\ Answered({"p3_tobytes"}) => ge25519_is_canonical(answer) /\ IsOf(call.k, answer) /\ answer = Encoded(call.k)
    /\ Answered({"is_valid_point", "scalarmult_ed25519"}) =>
          LET valid == \E k \in Standing[call.s] :
                          Encoded(k) = call.s /\ (2 * Order * k) % Points = 0 /\ (8 * k) % Points # 0
          IN IF call.fn = "is_valid_point" THEN answer = valid
             ELSE IF ~valid THEN answer = Refusal
             ELSE LET k == ScalarOf(call.n, call.clamp) * Only(Standing[call.s])
                  IN /\ answer = Made(IF k % Points = 0 \/ call.n = 0 THEN -1 ELSE 0, Encoded(k))
                     /\ call.clamp => k % 8 = 0
    /\ Answered({"scalarmult_ed25519_base"}) =>
          LET k == ScalarOf(call.n, call.clamp) * Base
          IN answer = Made(IF k % Points = 0 \/ call.n = 0 THEN -1 ELSE 0, Encoded(k))
    /\ Answered({"from_uniform", "from_hash"}) => \E k \in 1 .. Order : answer = Encoded(8 * k)
    /\ Answered({"from_hash"}) =>
          answer = ge25519_elligator2[(call.r + 2 ^ (Width + 1) * (call.s % 2 ^ Width)) % Q, Sign(call.s)]
    /\ Answered({"ed25519_add", "ed25519_sub"}) =>
          IF Standing[call.s] = {} \/ Standing[call.r] = {} THEN answer = Refusal
          ELSE LET i == Only(Standing[call.s])
                   j == Only(Standing[call.r])
               IN answer = Made(0, Encoded(IF call.fn = "ed25519_add" THEN i + j ELSE Points + i - j))

(* ristretto255: every class of points that differ by order 4 has one      *)
(* string and no other string is accepted; decoding it and encoding again  *)
(* gives it back, whatever member and denominator; sums, multiples and     *)
(* what is made from hashes are those of the classes.                      *)
RistrettoEncodings ==
    \A cosets \in {Cosets}, index \in {ElligatorIndex} :
    LET IsCosetOf(k, s) == s \in PointStrings /\ cosets[s] = {k % (2 * Order)} IN
    /\ Answered({"ristretto_frombytes"}) /\ answer.ret = 0 =>
          /\ WellFormed(answer.p) /\ Index(OfP2(answer.p)) % 2 = 0
          /\ ristretto255_p3_tobytes[answer.p] = call.s
    /\ Answered({"ristretto_p3_tobytes"}) =>
          /\ answer = ristretto255_p3_tobytes[P3((call.k + 2 * Order) % Points, 1)]
          /\ call.k % 2 = 0 => IsCosetOf(call.k, answer)
    /\ Answered({"ristretto_elligator"}) => WellFormed(answer) /\ Index(OfP2(answer)) % 2 = 0
    /\ Answered({"ristretto_from_hash"}) =>
          IsCosetOf(index[fe25519_frombytes(call.s)] + index[fe25519_frombytes(call.r)], answer)
    /\ Answered({"ristretto_add", "ristretto_sub"}) =>
          IF cosets[call.s] = {} \/ cosets[call.r] = {} THEN answer = Refusal
          ELSE LET i == Only(cosets[call.s])
                   j == Only(cosets[call.r])
               IN answer.ret = 0 /\ IsCosetOf(IF call.fn = "ristretto_add" THEN i + j ELSE Points + i - j, answer.p)
    /\ Answered({"scalarmult_ristretto"}) =>
          IF cosets[call.s] = {} THEN answer = Refusal
          ELSE LET k == (call.n % 2 ^ (Bits - 1)) * Only(cosets[call.s])
               IN IsCosetOf(k, answer.p) /\ answer.ret = IF k % (2 * Order) = 0 THEN -1 ELSE 0
    /\ Answered({"scalarmult_ristretto_base"}) =>
          LET k == (call.n % 2 ^ (Bits - 1)) * Base
          IN IsCosetOf(k, answer.p) /\ answer.ret = IF k % (2 * Order) = 0 THEN -1 ELSE 0

(* Strings and points determine each other, in both encodings. *)
EncodingsUnique == Ed25519Encodings /\ RistrettoEncodings
=============================================================================
