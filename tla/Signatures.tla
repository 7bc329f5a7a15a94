---------------------------- MODULE Signatures ----------------------------
(***************************************************************************)
(* Ed25519 signatures, plain, prehashed and of the batch construction that *)
(* came before them, and the exchange of keys over the Montgomery form of  *)
(* the same curve.  The hash is any function from sequences of strings to  *)
(* two halves of Bits bits; messages are numbers.                          *)
(***************************************************************************)
EXTENDS Encodings

CONSTANTS Hash(_),            \* of a sequence, the high half times 2^Bits plus the low one
          Seeds, Messages,
          SignatureStrings,   \* for keys and the first half of a batch signature
          SValues,            \* for the other half
          EighthU,            \* u of the points of order 8
          SignedLengths, MessageMax

Lower(h) == h % 2 ^ Bits
Upper(h) == h \div 2 ^ Bits
Dom2 == 2 ^ 12  \* "SigEd25519 no Ed25519 collisions", 1, 0
hinit(prehashed) == IF prehashed THEN <<Dom2>> ELSE <<>>
sc25519_reduced(h) == h % Order

-----------------------------------------------------------------------------
seed_keypair ==
    [seed \in Seeds |->
        LET a == Clamped(Lower(Hash(<<seed>>)))
        IN [seed |-> seed, pk |-> ge25519_p3_tobytes(ge25519_scalarmult_base(a))]] @@ <<>>

Hram(R, pk, m, prehashed) == sc25519_reduced(Hash(hinit(prehashed) \o <<R, pk, m>>))

NonceOf(seed, m, prehashed) == sc25519_reduced(Hash(hinit(prehashed) \o <<Upper(Hash(<<seed>>)), m>>))

sign_detached(m, sk, prehashed) ==
    LET nonce == NonceOf(sk.seed, m, prehashed)
        a     == Clamped(Lower(Hash(<<sk.seed>>)))
    IN Only({[R |-> R, S |-> (Hram(R, sk.pk, m, prehashed) * a + nonce) % Order]
             : R \in {ge25519_p3_tobytes(ge25519_scalarmult_base(nonce))}})

(* Mutant: the scalar of a signature may be any of the strings that stand for it. *)
verify_any_scalar(sig, m, pk, prehashed) ==
    /\ ~ge25519_has_small_order(sig.R) /\ ge25519_is_canonical(pk) /\ ~ge25519_has_small_order(pk)
    /\ LET A == ge25519_frombytes_negate_vartime[pk]
       IN /\ A.ret = 0
          /\ sig.R = ge25519_tobytes(ge25519_double_scalarmult_vartime(Hram(sig.R, pk, m, prehashed), A.p, sig.S))

verify_detached(sig, m, pk, prehashed) ==
    /\ sig.S < Order /\ ~ge25519_has_small_order(sig.R)
    /\ ge25519_is_canonical(pk) /\ ~ge25519_has_small_order(pk)
    /\ LET A == ge25519_frombytes_negate_vartime[pk]
       IN /\ A.ret = 0
          /\ sig.R = ge25519_tobytes(ge25519_double_scalarmult_vartime(Hram(sig.R, pk, m, prehashed), A.p, sig.S))

ph_create(m, sk) == sign_detached(Hash(<<m>>), sk, TRUE)
ph_verify(sig, m, pk) == verify_detached(sig, Hash(<<m>>), pk, TRUE)

(* sm is a signature before its message, smlen bytes of it; 64 of them are *)
(* the signature.  m may be NULL; what is in it is what happens to it.     *)
sign_open(sm, smlen, pk, null) ==
    IF smlen < 64 \/ smlen - 64 > MessageMax THEN [ret |-> -1, mlen |-> 0, m |-> "kept"]
    ELSE IF ~verify_detached(sm.sig, sm.m, pk, FALSE) THEN [ret |-> -1, mlen |-> 0, m |-> IF null THEN "kept" ELSE "cleared"]
    ELSE [ret |-> 0, mlen |-> smlen - 64, m |-> IF null THEN "kept" ELSE "message"]

-----------------------------------------------------------------------------
(* The batch construction: S multiplies B to h R + A. *)
batch_keypair ==
    [seed \in Seeds |->
        LET a == Clamped(Lower(Hash(<<seed>>)))
        IN [a |-> a, prefix |-> Upper(Hash(<<seed>>)), pk |-> ge25519_p3_tobytes(ge25519_scalarmult_base(a))]] @@ <<>>

batch_sign(m, sk) ==
    LET nonce == sc25519_reduced(Hash(<<sk.prefix, m>>))
    IN Only({[R |-> R, S |-> (sc25519_reduced(Hash(<<R, m>>)) * nonce + sk.a) % Order]
             : R \in {ge25519_p3_tobytes(ge25519_scalarmult_base(nonce))}})

OtherSign(s) == IF Sign(s) = 0 THEN s + 2 ^ Width ELSE s - 2 ^ Width

batch_open(sig, m, pk) ==
    LET A == ge25519_frombytes_negate_vartime[pk]
        R == ge25519_frombytes_negate_vartime[sig.R]
        h == sc25519_reduced(Hash(<<sig.R, m>>))
    IN /\ sig.S < 2 ^ (Bits - 3)
       /\ ~ge25519_has_small_order(pk) /\ A.ret = 0 /\ ~ge25519_has_small_order(sig.R) /\ R.ret = 0
       /\ LET sum == ge25519_add(ge25519_scalarmult(h, R.p), ge25519_p3_to_cached(A.p))
          IN OtherSign(ge25519_tobytes(ge25519_p1p1_to_p2(sum))) = ge25519_p3_tobytes(ge25519_scalarmult_base(sig.S))

-----------------------------------------------------------------------------
(* Curve25519: u = (1 + y) / (1 - y).  The point of y = 1 has u = 0.       *)
edwards_to_montgomery(y, z) == (z ++ y) ** Inv(z -- y)

pk_to_curve25519 ==
    [pk \in PointStrings |->
        LET A == ge25519_frombytes_negate_vartime[pk]
        IN IF ge25519_has_small_order(pk) \/ A.ret # 0 \/ ~ge25519_is_on_main_subgroup(A.p) THEN Refusal
           ELSE Made(0, (1 ++ A.p.Y) ** Inv(1 -- A.p.Y))]

sk_to_curve25519(sk) == Clamped(Lower(Hash(<<sk.seed>>)))

has_small_order(s) == s % 2 ^ Width \in {0, 1, Q - 1, Q, Q + 1} \union EighthU

Swapped(w, bit) ==
    IF w.swap = bit THEN [w EXCEPT !.swap = bit]
    ELSE [x2 |-> w.x3, z2 |-> w.z3, x3 |-> w.x2, z3 |-> w.z2, swap |-> bit]

(* From x2 / z2 = u of k P and x3 / z3 = u of (k + 1) P to 2 k and 2 k + 1. *)
LadderStep(x1, w) ==
    LET diff == Square(w.x2 -- w.z2)
        sum  == Square(w.x2 ++ w.z2)
        a    == (w.x3 -- w.z3) ** (w.x2 ++ w.z2)
        b    == (w.x3 ++ w.z3) ** (w.x2 -- w.z2)
    IN [x2 |-> sum ** diff, z2 |-> (sum -- diff) ** (diff ++ (((Montgomery + 2) \div 4) ** (sum -- diff))),
        x3 |-> Square(a ++ b), z3 |-> x1 ** Square(a -- b), swap |-> w.swap]

curve25519_ref10 ==
    [n \in CoreScalars, s \in PointStrings |->
        LET x1 == fe25519_frombytes(s)
            w  == Loop(LAMBDA r, pos : LadderStep(x1, Swapped(r, Bit(Clamped(n), pos))),
                           [x2 |-> 1, z2 |-> 0, x3 |-> x1, z3 |-> 1, swap |-> 0], [i \in 1 .. Bits - 1 |-> Bits - 1 - i])
            e  == Swapped(w, 0)
        IN IF has_small_order(s) THEN Refusal ELSE Made(0, e.x2 ** Inv(e.z2))]

curve25519_ref10_base(n) ==
    Only({edwards_to_montgomery(A.Y, A.Z) : A \in {ge25519_scalarmult_base(Clamped(n))}})

crypto_scalarmult_curve25519(n, s) ==
    LET q == curve25519_ref10[n, s]
    IN IF q.ret # 0 THEN Refusal ELSE Made(IF q.p = 0 THEN -1 ELSE 0, q.p)

-----------------------------------------------------------------------------
AskSignature ==
    \/ \E sk \in {seed_keypair[seed] : seed \in Seeds}, m \in Messages :
           \/ \E prehashed \in BOOLEAN :
                  Ask([fn |-> "sign_detached", sk |-> sk, m |-> m, prehashed |-> prehashed])
           \/ \E other \in Messages, smlen \in SignedLengths, null \in BOOLEAN :
                  Ask([fn |-> "sign_open", sk |-> sk, m |-> m, other |-> other, smlen |-> smlen, null |-> null])
    \/ \E R \in PointStrings, S \in SValues, m \in Messages, pk \in SignatureStrings :
           Ask([fn |-> "verify_detached", sig |-> [R |-> R, S |-> S], m |-> m, pk |-> pk])
    \/ \E sk \in {batch_keypair[seed] : seed \in Seeds}, m \in Messages : Ask([fn |-> "batch_sign", sk |-> sk, m |-> m])
    \/ \E R \in SignatureStrings, S \in SValues, m \in Messages, pk \in SignatureStrings :
           Ask([fn |-> "batch_open", sig |-> [R |-> R, S |-> S], m |-> m, pk |-> pk])
AskExchange ==
    \/ \E pk \in PointStrings : Ask([fn |-> "pk_to_curve25519", pk |-> pk])
    \/ \E sk \in {seed_keypair[seed] : seed \in Seeds} : Ask([fn |-> "sk_to_curve25519", sk |-> sk])
    \/ \E n \in CoreScalars :
           \/ Ask([fn |-> "scalarmult_curve25519_base", n |-> n])
           \/ \E s \in PointStrings : Ask([fn |-> "scalarmult_curve25519", n |-> n, s |-> s])

(* What was signed is verified; the signed message is opened with another  *)
(* message in its place.                                                   *)
AnswerSignature ==
    \/ /\ Called("sign_detached") /\ ~call.prehashed
       /\ \E sig \in {sign_detached(call.m, call.sk, FALSE)} :
              Answer([sig |-> sig, accepted |-> verify_detached(sig, call.m, call.sk.pk, FALSE)])
    \/ /\ Called("sign_detached") /\ call.prehashed
       /\ \E sig \in {ph_create(call.m, call.sk)} :
              Answer([sig |-> sig, accepted |-> ph_verify(sig, call.m, call.sk.pk)])
    \/ Called("verify_detached") /\ Answer(verify_detached(call.sig, call.m, call.pk, FALSE))
    \/ /\ Called("sign_open")
       /\ \E sig \in {sign_detached(call.m, call.sk, FALSE)} :
              Answer(sign_open([sig |-> sig, m |-> call.other], call.smlen, call.sk.pk, call.null))
    \/ /\ Called("batch_sign")
       /\ \E sig \in {batch_sign(call.m, call.sk)} :
              Answer([sig |-> sig, accepted |-> batch_open(sig, call.m, call.sk.pk)])
    \/ Called("batch_open") /\ Answer(batch_open(call.sig, call.m, call.pk))
AnswerExchange ==
    \/ Called("pk_to_curve25519") /\ Answer(pk_to_curve25519[call.pk])
    \/ Called("sk_to_curve25519") /\ Answer(sk_to_curve25519(call.sk))
    \/ Called("scalarmult_curve25519_base") /\ Answer(curve25519_ref10_base(call.n))
    \/ Called("scalarmult_curve25519") /\ Answer(crypto_scalarmult_curve25519(call.n, call.s))

AskKey == AskSignature \/ AskExchange
AnswerKey == AnswerSignature \/ AnswerExchange

-----------------------------------------------------------------------------
(* Keys and nonces that are multiples of the order occur here, where the   *)
(* order is small; the clamped scalars of the code are none.               *)
Degenerate(a, nonce) == a % Order = 0 \/ nonce = 0
Challenge(R, pk, m) == Hash(<<R, pk, m>>) % Order
SecretOf(seed) == Clamped(Lower(Hash(<<seed>>)))
OfSmallOrder(k) == (8 * k) % Points = 0

(* A detached signature is accepted exactly when S is below the order, the *)
(* key is the one encoding of a point, and S B - h A is the point of which *)
(* R is the one encoding; neither point is of small order.                 *)
ShouldVerify(sig, m, pk) ==
    \E i \in Standing[pk] :
        LET k == sig.S * Base + (Points - Challenge(sig.R, pk, m)) * i
        IN /\ sig.S < Order /\ Encoded(i) = pk /\ Encoded(k) = sig.R
           /\ ~OfSmallOrder(i) /\ ~OfSmallOrder(k)

(* One of the batch construction is accepted for every S of 253 bits, and  *)
(* every string, that stand for the same: S B = h R + A, but not for 0.    *)
ShouldOpen(sig, m, pk) ==
    \E i \in Standing[pk], j \in Standing[sig.R] :
        /\ sig.S < 2 ^ (Bits - 3) /\ ~OfSmallOrder(i) /\ ~OfSmallOrder(j)
        /\ (sig.S * Base) % Points = (sc25519_reduced(Hash(<<sig.R, m>>)) * j + i) % Points
        /\ sig.S % Order # 0

(* The answer to a signed message that verifies, or does not. *)
SignedOpened(verifies) ==
    IF call.smlen \notin 64 .. 64 + MessageMax THEN [ret |-> -1, mlen |-> 0, m |-> "kept"]
    ELSE [ret |-> IF verifies THEN 0 ELSE -1, mlen |-> IF verifies THEN call.smlen - 64 ELSE 0,
          m |-> IF call.null THEN "kept" ELSE IF verifies THEN "message" ELSE "cleared"]

(* What is signed is accepted, for the message and the key it was signed   *)
(* for and no other, and what is opened is the whole message or nothing.   *)
SignaturesBind ==
    /\ Answered({"sign_detached"}) =>
          LET m == IF call.prehashed THEN Hash(<<call.m>>) ELSE call.m
          IN answer.accepted = ~Degenerate(SecretOf(call.sk.seed), NonceOf(call.sk.seed, m, call.prehashed))
    /\ Answered({"verify_detached"}) => answer = ShouldVerify(call.sig, call.m, call.pk)
    /\ Answered({"sign_open"}) =>
          \E nonce \in {NonceOf(call.sk.seed, call.m, FALSE)} : \E R \in {Encoded(nonce * Base)} :
              answer = SignedOpened(/\ ~Degenerate(SecretOf(call.sk.seed), nonce)
                                    /\ Challenge(R, call.sk.pk, call.other) = Challenge(R, call.sk.pk, call.m))
    /\ Answered({"batch_sign"}) =>
          LET nonce == sc25519_reduced(Hash(<<call.sk.prefix, call.m>>))
          IN answer.accepted = (~Degenerate(call.sk.a, nonce) /\ answer.sig.S # 0)
    /\ Answered({"batch_open"}) => answer = ShouldOpen(call.sig, call.m, call.pk)

U(k) == edwards_to_montgomery(Affine[k % Points][2], 1)
OnCurve(s) == {k \in 0 .. Points - 1 : U(k) = fe25519_frombytes(s) /\ k # 0}
Exchanged == [n \in CoreScalars, s \in PointStrings |-> crypto_scalarmult_curve25519(n, s)] @@ <<>>
Shared(exchanged, n, m, s) ==
    {exchanged[n, half.p] : half \in {r \in {exchanged[m, s]} : r.ret = 0}} \ {Refusal, Made(-1, 0)}

(* The ladder multiplies: by the clamped scalar, on the curve and in step  *)
(* with the multiples of the base that ed25519 makes, whatever the string  *)
(* of u; and two keys agree also where u is of no point of the curve.  A   *)
(* result of 0 and the strings of small order are refused.                 *)
ExchangeAgrees ==
    /\ Answered({"pk_to_curve25519"}) =>
          LET valid == {k \in Standing[call.pk] : ~OfSmallOrder(k) /\ (2 * Order * k) % Points = 0}
          IN answer = IF valid = {} THEN Refusal ELSE Made(0, U(Only(valid)))
    /\ Answered({"sk_to_curve25519"}) /\ answer % Order # 0 =>
          pk_to_curve25519[call.sk.pk] = Made(0, curve25519_ref10_base(answer))
    /\ Answered({"scalarmult_curve25519_base"}) =>
          answer = U(Clamped(call.n) * Base) /\ curve25519_ref10[call.n, U(Base)] = Made(0, answer)
    /\ Answered({"scalarmult_curve25519"}) =>
          /\ \A k \in OnCurve(call.s) :
                IF OfSmallOrder(k) THEN answer = Refusal
                ELSE LET u == U(Clamped(call.n) * k) IN answer = Made(IF u = 0 THEN -1 ELSE 0, u)
          /\ \A e \in {Exchanged} :
                /\ \A n \in CoreScalars : Shared(e, n, call.n, call.s) = Shared(e, call.n, n, call.s)
                /\ answer.ret = 0 => Shared(e, call.n, call.n, answer.p) # {}

(* Signatures and shared secrets are bound to the keys of both sides. *)
KeysBind == SignaturesBind /\ ExchangeAgrees
=============================================================================
