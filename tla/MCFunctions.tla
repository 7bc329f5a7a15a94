----------------------------- MODULE MCFunctions -----------------------------
(* The functions that keep no state, one call at a time: boxes and AEAD,   *)
(* byte arithmetic and padding, codecs, key streams, the arithmetic under  *)
(* the curves, their points and encodings, signatures, AES-GCM, passwords. *)
EXTENDS Boxes, Bytes, Codecs, Streams, FieldElement, Scalar25519, Chains, Signatures, Gcm, Passwords, TLC

(* Byte strings of one to sixteen digits: every mixture of smallest, small *)
(* and largest for the short, two digits in turn for the long.             *)
MCStrings == UNION {[1 .. n -> {0, 1, Radix - 1}] : n \in {1, 3}} \union
             UNION {{[i \in 1 .. n |-> s[i % 2]] : s \in [0 .. 1 -> {0, 1, Radix - 1}]} : n \in {6, 16}}
MCTexts == UNION {[1 .. n -> {0, Barrier, Barrier + 1}] : n \in 0 .. 3}

(* Every byte alone, and extremes for the places in a group. *)
MCData == {<<>>} \union {<<a>> : a \in 0 .. 255} \union UNION {[1 .. n -> {0, 255}] : n \in 2 .. 5}
MCHexTexts == UNION {[1 .. n -> {48, 97, 65, 71, 58}] : n \in 0 .. 4}
MCB64Texts == UNION {[1 .. n -> {65, 81, 61, 32}] : n \in 0 .. 3} \union
              {<<81, a, b, c>> : a \in {65, 81}, b \in {65, 61}, c \in {65, 61, 32}} \union
              {<<81, 81, 61, 32, 61, 32>>, <<32, 81, 81, 65, 65, 81, 81>>} \union
              [1 .. 4 -> {128, 255, 81}] \union {<<195, 169>>, <<195, 32, 81, 61, 61>>, <<81, 81, 61, 61, 195>>}
HighTexts == {<<195, 169>>, <<195, 169, 195, 169>>}

(* Operations that mix their operands and are unlike each other. *)
MCPlus(a, b) == (a + b) % 8191
MCMix(a, b) == (a + b + 5 * a * b) % 8191
MCRotl(a, r) == (a * (2 * r + 1) + r) % 8191
MCSigma == <<11, 222, 3333, 4444>>
MCKey == <<537, 648, 833, 1092, 1425, 1832, 2313, 2868>>
MCNonce == <<219, 188, 157, 126, 95, 64>>

(* Prime factors of 2 ^ (10 * H / 2) - C, to compare products modulo it. *)
MCFactors == {5, 1871, 2207, 2621, 665789}

(* Limbs all small, full, or over their width; values about the modulus,   *)
(* and about twice it as subtraction of equal elements leaves them.        *)
MCLoose == [0 .. 4 -> {0, 2 ^ W - 1, 2 ^ W + 2 ^ (W - 1)}] \union
           {[i \in 0 .. 4 |-> m * (IF i = 0 THEN 2 ^ W - C ELSE 2 ^ W - 1) + (IF i = 0 THEN d ELSE 0)]
               : m \in {1, 2}, d \in {-1, 0, 1}}
MCLooseB == {[i \in 0 .. 4 |-> IF i = k THEN 2 ^ W + 5 ELSE b] : k \in 0 .. 4, b \in {0, 2 ^ W - 1}}
Pattern(S) == {[i \in 0 .. 9 |-> s[i % 4] * 2 ^ W25(i)] : s \in [0 .. 3 -> S]}
Alone(S) == {[i \in 0 .. 9 |-> IF i = k THEN x ELSE 0] : k \in 0 .. 9, x \in S}
MCSigned == Pattern({-1, 0, 1}) \union Alone({-33, 33})
MCSignedB == Pattern({-1, 1}) \union Alone({33})
Edge(m, d) == [i \in 0 .. 9 |-> IF i = 0 THEN m * (2 ^ W25(0) - C) + d ELSE m * (2 ^ W25(i) - 1)]
(* No more than p either side of 0, as the comment of reduce requires. *)
MCUnreduced == {[i \in 0 .. 9 |-> f[i] \div 2] : f \in Pattern({-1, 0, 1})} \union
               {Edge(0, d) : d \in -2 .. 2} \union {Edge(1, d) : d \in -2 .. 0} \union {Edge(-1, d) : d \in 0 .. 2}

(* The order in limbs of B bits, and its factors. *)
MCM == [i \in 0 .. 5 |-> <<21, 14, 21, -30, 4, -21>>[i + 1]]
MCFactorsL == {107, 317, 733, 4211, 31039, 1453181}
Top(i) == IF i = 11 THEN 2 ^ (B + 4) - 1 ELSE 2 ^ B - 1
MCScalars == {[i \in 0 .. 11 |-> s[i % 4] * Top(i)] : s \in [0 .. 3 -> {0, 1}]} \union
             {[i \in 0 .. 11 |-> IF i = 11 THEN t ELSE Top(i)] : t \in {0, 1, 63, 64, 500}} \union
             {[i \in 0 .. 11 |-> IF i = 0 THEN LDigits[0] + d
                                 ELSE IF i = 11 THEN LDigits[11] + 64 * LDigits[12]
                                 ELSE LDigits[i]] : d \in {-1, 0, 1}} \union
             {[i \in 0 .. 11 |-> IF i = k THEN Top(k) ELSE 0] : k \in 0 .. 11}
MCWides == {[i \in 0 .. 23 |-> s[i % 8] * (IF i = 23 THEN 2 ^ (B + 8) - 1 ELSE 2 ^ B - 1)] : s \in [0 .. 7 -> {0, 1}]}
           \union {[i \in 0 .. 23 |-> IF i = k THEN 2 ^ B - 1 ELSE 0] : k \in 0 .. 23}

(* Nine primes, with a product of more than 256 bits. *)
MCModuli == <<1073741789, 1073741783, 1073741741, 1073741723, 1073741719, 1073741717, 1073741689, 1073741671, 1073741663>>

(* On -x^2 + y^2 = 1 + 40 x^2 y^2 over the field of 61: a point of order   *)
(* 56; 7 is -1 + 8.                                                        *)
MCGenerator == <<3, 17>>
MCOrderDigits == <<-1, 0, 0, 1>>
Modulo(s, a, b, n) == FoldLeft(LAMBDA h, x : (a * h + b * (x % 8191) + 1) % n, 5, s)
MCHash(s) == Modulo(s, 31, 17, 16381) * 65536 + Modulo(s, 29, 13, 65521)

(* GHASH's field scaled to x^24 + x^4 + x^3 + x + 1; a block cipher that   *)
(* mixes all bits, a message whose blocks differ.                          *)
MCAes(x) == LET v == FoldSet(LAMBDA d, n : n + 2 ^ d, 7, x)
            IN {d \in 0 .. 23 : ((v * 101 + d * d * 7 + 3) \div 2 ^ (d % 13)) % 2 = 1}
MCGcmText(k) == {d \in 0 .. 23 : (k * k * 5 + d * d * 3 + k * d) % 7 < 3}
MCGcmNonce == {0, 3, 7, 12, 16}
MCHashKeys == {{0}, {23}, {18}, {5, 11, 12, 20}, {2, 3, 17, 18, 23}}
MCSubByte(a) == (a * a + 3) % 8191
MCKeyBytes == {[i \in 1 .. 32 |-> i * k] : k \in {1, 7}}

(* Passwords: hashes of what is hashed, words of a block of them, the tag  *)
(* of a block in its first two bytes, a salt with '/' in its Base64.       *)
MCFirstBlock(s, lane, k) == Modulo(s \o <<lane, k>>, 31, 17, 8191)
MCAddress(s) == Modulo(s, 29, 13, 8191)
MCWordOf(b, i) == <<((b + 7 * i) \div 3) % 16, ((b * (i + 3)) \div 5) % 4>>
MCSpread(n, b) == [i \in 1 .. n |-> IF i = 1 THEN b % 256 ELSE IF i = 2 THEN b \div 256 ELSE (i * i + b) % 256]
MCSalt == [i \in 1 .. 16 |-> IF i \in 4 .. 6 THEN 255 ELSE 11 * i]
MCMixWords == {[w \in 0 .. 127 |-> (k * w * w + 17 * w + k) % 8191] : k \in {1, 5}}
MCNumerals == {[i \in DOMAIN s |-> Digit(s[i])] :
                  s \in UNION {[1 .. n -> {0, 1, 9}] : n \in 0 .. 3} \union [1 .. 4 -> 0 .. 5]}

Init == CallInit
Next == \/ /\ stage = "idle"
           /\ \/ AskBox \/ AskBytes \/ AskCodec \/ AskStream \/ AskField \/ AskScalar
              \/ AskChain \/ AskPoint \/ AskEncoding \/ AskKey \/ AskGcm \/ AskArgon2
              \/ AskPassword
        \/ AnswerKey \/ AnswerEncoding \/ AnswerPoint \/ AnswerScalar \/ AnswerChain \/ AnswerBox
        \/ AnswerBytes \/ AnswerCodec \/ AnswerStream \/ AnswerField \/ AnswerGcm \/ AnswerArgon2 \/ AnswerPassword
        \/ Return
Spec == Init /\ [][Next]_callVars
=============================================================================
