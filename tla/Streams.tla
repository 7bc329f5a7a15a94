------------------------------ MODULE Streams ------------------------------
(***************************************************************************)
(* The key streams of ChaCha20 and Salsa20 as each implementation makes    *)
(* them: the portable loops over one block, the row vectors of u0.h and    *)
(* u1.h, the four and eight lanes of u4.h and u8.h, and the assembly of    *)
(* salsa20_xmm6; with their block counters and the functions that derive a *)
(* subkey.  What is done to two words is left open (Plus, Mix, Rotl): the  *)
(* implementations must agree whatever it is.  Lengths are in words, of    *)
(* which a block has 16; a word has WordSize values, a byte of it          *)
(* ByteSize.                                                               *)
(***************************************************************************)
EXTENDS Calls, FiniteSetsExt, SequencesExt

CONSTANTS Plus(_, _), Mix(_, _), Rotl(_, _),  \* addition, xor, rotation
          WordSize, ByteSize,
          Rounds20, Rounds12, Rounds8,        \* in the place of 20, 12 and 8
          Sigma, Key, Nonce,                  \* words: 4, 8 and 6 of them
          StreamLengths, Counters

ASSUME StreamAssumption ==
    /\ WordSize = ByteSize ^ 4 /\ Counters \subseteq 0 .. WordSize ^ 2 - 1
    /\ \A i \in 1 .. 6 : Nonce[i] \in 0 .. WordSize - 1
    /\ Rounds20 % 4 = 0 /\ Rounds12 % 2 = 0 /\ Rounds8 % 2 = 0

Words(s) == [i \in 0 .. Len(s) - 1 |-> s[i + 1]]

Times(n, Op(_), x) == Loop(LAMBDA y, i : Op(y), x, [i \in 1 .. n |-> i])

(* A function given by its values, which TLC then computes once. *)
Kept(f) == f @@ <<>>

(* A vector is a function from lanes to words; one word is one lane. *)
Summed(u, v) == Kept([l \in DOMAIN u |-> Plus(u[l], v[l])])
Mixed(u, v) == Kept([l \in DOMAIN u |-> Mix(u[l], v[l])])
Rotated(u, r) == Kept([l \in DOMAIN u |-> Rotl(u[l], r)])
Single(x) == Kept([i \in DOMAIN x |-> [l \in {0} |-> x[i]]])

(* _mm_shuffle_epi32: two bits of the immediate for each lane. *)
Shuffle(v, imm) == Kept([l \in 0 .. 3 |-> v[(imm \div 4 ^ l) % 4]])

(* The unpack instructions, which work on each half of eight lanes. *)
Lo32(u, v) == Kept([l \in DOMAIN u |-> LET i == 4 * (l \div 4) + (l % 4) \div 2 IN IF l % 2 = 0 THEN u[i] ELSE v[i]])
Hi32(u, v) == Kept([l \in DOMAIN u |-> LET i == 4 * (l \div 4) + 2 + (l % 4) \div 2 IN IF l % 2 = 0 THEN u[i] ELSE v[i]])
Lo64(u, v) == Kept([l \in DOMAIN u |-> IF l % 4 < 2 THEN u[l] ELSE v[l - 2]])
Hi64(u, v) == Kept([l \in DOMAIN u |-> IF l % 4 < 2 THEN u[l + 2] ELSE v[l]])

-----------------------------------------------------------------------------
(* Rounds of ChaCha20, over vectors of any number of lanes *)

Line(x, a, b, d, r) ==
    LET s == Summed(x[a], x[b]) IN [x EXCEPT ![a] = s, ![d] = Rotated(Mixed(x[d], s), r)]

QuarterRound(x, q) ==
    Line(Line(Line(Line(x, q[1], q[2], q[4], 16), q[3], q[4], q[2], 12), q[1], q[2], q[4], 8), q[3], q[4], q[2], 7)

Columns == << <<0, 4, 8, 12>>, <<1, 5, 9, 13>>, <<2, 6, 10, 14>>, <<3, 7, 11, 15>> >>
Diagonals == << <<0, 5, 10, 15>>, <<1, 6, 11, 12>>, <<2, 7, 8, 13>>, <<3, 4, 9, 14>> >>

DoubleRound(x) == Loop(QuarterRound, x, Columns \o Diagonals)

(* Each line of all four quarter rounds before the next (VEC8_ROUND_SEQ). *)
RoundSeq(x, qs) ==
    LET all(y, i, j, k, r) == FoldLeft(LAMBDA z, q : Line(z, q[i], q[j], q[k], r), y, qs)
    IN all(all(all(all(x, 1, 2, 4, 16), 3, 4, 2, 12), 1, 2, 4, 8), 3, 4, 2, 7)

DoubleRound8(x) == RoundSeq(RoundSeq(x, Columns), Diagonals)

(* Four columns at once in rows; shuffled, the rows have the diagonals for *)
(* columns.                                                                *)
RowRound(x, s0, s3, s2) ==
    LET y == QuarterRound(x, <<0, 1, 2, 3>>)
    IN [y EXCEPT ![0] = Shuffle(@, s0), ![3] = Shuffle(@, s3), ![2] = Shuffle(@, s2)]

RowDoubleRound(x) == RowRound(RowRound(x, \h93, \h4e, \h39), \h39, \h4e, \h93)

-----------------------------------------------------------------------------
(* Rounds of Salsa20.  A step is target, two sources and rotation. *)

Step(x, s) == [x EXCEPT ![s[1]] = Mixed(@, Rotated(Summed(x[s[2]], x[s[3]]), s[4]))]

Quarter(a, b, c, d) == << <<b, a, d, 7>>, <<c, b, a, 9>>, <<d, c, b, 13>>, <<a, d, c, 18>> >>

CoreSteps ==
    ((Quarter(0, 4, 8, 12) \o Quarter(5, 9, 13, 1)) \o (Quarter(10, 14, 2, 6) \o Quarter(15, 3, 7, 11))) \o
    ((Quarter(0, 1, 2, 3) \o Quarter(5, 6, 7, 4)) \o (Quarter(10, 11, 8, 9) \o Quarter(15, 12, 13, 14)))

SalsaDoubleRound(x) == FoldLeft(Step, x, CoreSteps)

HashDoubleRound(x) == FoldLeft(Step, x, CoreSteps)

(* In diagonals; the second half of a double round goes the other way. *)
DiagonalHalf(x, a, b) ==
    LET y == FoldLeft(Step, x, << <<b, a, 0, 7>>, <<2, 0, b, 9>>, <<a, b, 2, 13>>, <<0, 2, a, 18>> >>)
    IN [y EXCEPT ![b] = Shuffle(@, \h93), ![2] = Shuffle(@, \h4e), ![a] = Shuffle(@, \h39)]

DiagonalDoubleRound(x) == DiagonalHalf(DiagonalHalf(x, 1, 3), 3, 1)

(* The order in which the lanes go through the steps, two quarters at a    *)
(* time and the rows begun before the columns are done, as the assembly    *)
(* was scheduled.                                                          *)
StepsToRows ==
    << <<4, 12, 0, 7>>, <<9, 1, 5, 7>>, <<8, 0, 4, 9>>, <<13, 5, 9, 9>>, <<12, 4, 8, 13>>, <<1, 9, 13, 13>>,
       <<0, 8, 12, 18>>, <<5, 13, 1, 18>>, <<14, 6, 10, 7>>, <<3, 11, 15, 7>>, <<2, 10, 14, 9>>,
       <<7, 15, 3, 9>>, <<6, 14, 2, 13>>, <<11, 3, 7, 13>>, <<10, 2, 6, 18>>, <<1, 3, 0, 7>> >>
StepsInRows ==
    << <<15, 7, 11, 18>>, <<6, 4, 5, 7>>, <<2, 0, 1, 9>>, <<7, 5, 6, 9>>, <<3, 1, 2, 13>>, <<4, 6, 7, 13>>,
       <<0, 2, 3, 18>>, <<5, 7, 4, 18>>, <<11, 9, 10, 7>>, <<12, 14, 15, 7>>, <<8, 10, 11, 9>>,
       <<13, 15, 12, 9>>, <<9, 11, 8, 13>>, <<14, 12, 13, 13>>, <<10, 8, 9, 18>>, <<15, 13, 14, 18>> >>

Scheduled4(x) == FoldLeft(Step, x, StepsToRows \o StepsInRows)
Scheduled8(x) == FoldLeft(Step, x, StepsToRows \o StepsInRows)
ScheduledAsm(x) == FoldLeft(Step, x, StepsToRows \o StepsInRows)

-----------------------------------------------------------------------------
(* Counters: two words of the block, at lo and hi *)

PlusOne(x, lo, hi) ==
    LET low == (x[lo] + 1) % WordSize
    IN [x EXCEPT ![lo] = low, ![hi] = IF low = 0 THEN (@ + 1) % WordSize ELSE @]

Counter(x, lo, hi) == x[lo] + WordSize * x[hi]

PlusMany(x, lo, hi, n) ==
    LET c == (Counter(x, lo, hi) + n) % WordSize ^ 2
    IN [x EXCEPT ![lo] = c % WordSize, ![hi] = c \div WordSize]

(* _mm_add_epi64: lanes hold the low and the high words in turn. *)
Numbered(x, lo, hi, first, lanes) ==
    Kept([l \in 0 .. lanes - 1 |->
        LET c == (Counter(x, lo, hi) + first + l \div 2) % WordSize ^ 2
        IN IF l % 2 = 0 THEN c % WordSize ELSE c \div WordSize])

(* The vector of low words and that of high words. *)
Parted(u, v) ==
    LET a == Lo32(u, v)
        b == Hi32(u, v)
    IN <<Lo32(a, b), Hi32(a, b)>>

CounterLanes4(x, lo, hi) == Parted(Numbered(x, lo, hi, 0, 4), Numbered(x, lo, hi, 2, 4))

NotPermuted(v) == v  \* mutant
Permuted(v) == [l \in 0 .. 7 |-> v[<<0, 1, 4, 5, 2, 3, 6, 7>>[l + 1]]]

CounterLanes8(x, lo, hi) ==
    LET p == Parted(Numbered(x, lo, hi, 0, 8), Numbered(x, lo, hi, 4, 8))
    IN <<Permuted(p[1]), Permuted(p[2])>>

-----------------------------------------------------------------------------
(* From vectors to blocks of words *)

(* Four vectors of words to vectors of four words of a block each. *)
Transposed(a, b, c, d) ==
    LET ab == Lo32(a, b)  cd == Lo32(c, d)  ba == Hi32(a, b)  dc == Hi32(c, d)
    IN <<Lo64(ab, cd), Hi64(ab, cd), Lo64(ba, dc), Hi64(ba, dc)>>

Listed(v, h) == [i \in 1 .. 4 |-> v[4 * h + i - 1]]

QuadsOf(z) == Kept([q \in 1 .. 4 |-> Transposed(z[4 * q - 4], z[4 * q - 3], z[4 * q - 2], z[4 * q - 1])])

Stored4(z) ==
    LET t == QuadsOf(z)
    IN FlattenSeq([b \in 1 .. 4 |-> FlattenSeq([q \in 1 .. 4 |-> Listed(t[q][b], 0)])])

(* The lower halves are four blocks, the upper halves the next four. *)
Stored8(z) ==
    LET t == QuadsOf(z)
    IN FlattenSeq([b \in 1 .. 8 |->
          FlattenSeq([q \in 1 .. 4 |-> Listed(t[q][1 + ((b - 1) % 4)], (b - 1) \div 4)])])

(* A word of each vector to each block, then every vector turned a lane. *)
StoredAsm(z) ==
    LET turn(v) == Shuffle(v, \h39)
        f == [b \in 0 .. 3 |-> [i \in 0 .. 15 |-> Times(b, turn, z[i])[0]]]
    IN FlattenSeq([b \in 1 .. 4 |-> [i \in 1 .. 16 |-> f[b - 1][i - 1]]])

(* Where the words of the diagonals belong in a block, lane by lane. *)
Quads == << <<0, 12, 8, 4>>, <<5, 1, 13, 9>>, <<10, 6, 2, 14>>, <<15, 11, 7, 3>> >>

StoredDiagonals(d) ==
    [i \in 1 .. 16 |->
        LET at == CHOOSE p \in (0 .. 3) \X (1 .. 4) : Quads[p[1] + 1][p[2]] = i - 1
        IN d[at[2] - 1][at[1]]]

StoredRows(d) == FlattenSeq([k \in 1 .. 4 |-> Listed(d[k - 1], 0)])

-----------------------------------------------------------------------------
(* What a call loads, and blocks from it *)

chacha_keysetup(k) == [i \in 0 .. 11 |-> IF i < 4 THEN Sigma[i + 1] ELSE k[i - 3]]
chacha_ivsetup(x, n, ic) ==
    x @@ (12 :> ic % WordSize) @@ (13 :> ic \div WordSize) @@ (14 :> n[1]) @@ (15 :> n[2])
chacha_ietf_ivsetup(x, n, ic) == x @@ (12 :> ic) @@ (13 :> n[1]) @@ (14 :> n[2]) @@ (15 :> n[3])

(* The words a block is made from are added to what the rounds make. *)
FedForward(v, n, Double(_)) ==
    LET y == Times(n, Double, v) IN Kept([i \in DOMAIN v |-> Summed(y[i], v[i])])

Broadcast(x, lanes, lo, hi, counters) ==
    Kept([i \in 0 .. 15 |-> CASE i = lo -> counters[1]
                              [] i = hi -> counters[2]
                              [] OTHER -> Kept([l \in 0 .. lanes - 1 |-> x[i]])])

InRows(x) == Kept([k \in 0 .. 3 |-> Kept([l \in 0 .. 3 |-> x[4 * k + l]])])
OneBlock(v) == Kept([i \in 1 .. 16 |-> v[i - 1][0]])

ChachaBlock(x) == OneBlock(FedForward(Single(x), Rounds20 \div 2, DoubleRound))
ChachaRowBlock(x) == StoredRows(FedForward(InRows(x), Rounds20 \div 2, RowDoubleRound))
ChachaPartialBlock(x) == StoredRows(FedForward(InRows(x), Rounds20 \div 2, RowDoubleRound))
ChachaFour(x) == Stored4(FedForward(Broadcast(x, 4, 12, 13, CounterLanes4(x, 12, 13)), Rounds20 \div 2, DoubleRound))
ChachaEight(x) == Stored8(FedForward(Broadcast(x, 8, 12, 13, CounterLanes8(x, 12, 13)), Rounds20 \div 2, DoubleRound8))

(* crypto_core_salsa: in is four words, c the constants. *)
CoreInput(in, k, c) ==
    Kept([i \in 0 .. 15 |-> CASE i \in {0, 5, 10, 15} -> c[1 + i \div 5]
                              [] i \in 1 .. 4 -> k[i]
                              [] i \in 6 .. 9 -> in[i - 5]
                              [] i \in 11 .. 14 -> k[i - 6]])

crypto_core_salsa(in, k, c, rounds) ==
    OneBlock(FedForward(Single(CoreInput(in, k, c)), rounds \div 2, SalsaDoubleRound))

(* The same words by diagonals; TR is its own inverse. *)
TR == <<0, 5, 10, 15, 12, 1, 6, 11, 8, 13, 2, 7, 4, 9, 14, 3>>

salsa_keysetup(k) ==
    [i \in {TR[j + 1] : j \in {0, 1, 2, 3, 4, 5, 10, 11, 12, 13, 14, 15}} |->
        LET j == CHOOSE j \in 0 .. 15 : TR[j + 1] = i
        IN CASE j \in 1 .. 4 -> k[j] [] j \in 11 .. 14 -> k[j - 6] [] OTHER -> Sigma[1 + j \div 5]]
salsa_ivsetup(x, n, ic) ==
    x @@ (TR[7] :> n[1]) @@ (TR[8] :> n[2]) @@ (TR[9] :> ic % WordSize) @@ (TR[10] :> ic \div WordSize)

Straight(x) == Kept([i \in 0 .. 15 |-> x[TR[i + 1]]])

DiagonalFour(d) == DiagonalDoubleRound(DiagonalDoubleRound(d))
SalsaOne(x) == StoredDiagonals(FedForward(InRows(x), Rounds20 \div 4, DiagonalFour))
SalsaPartialBlock(x) == StoredDiagonals(FedForward(InRows(x), Rounds20 \div 4, DiagonalFour))
SalsaFour(x) == Stored4(FedForward(Broadcast(Straight(x), 4, 8, 9, CounterLanes4(x, 8, 13)), Rounds20 \div 2, Scheduled4))
SalsaEight(x) == Stored8(FedForward(Broadcast(Straight(x), 8, 8, 9, CounterLanes8(x, 8, 13)), Rounds20 \div 2, Scheduled8))

(* The assembly counts in one register and stores its halves. *)
CountedAsm(x) ==
    LET c(l) == (Counter(x, 8, 13) + l) % WordSize ^ 2
    IN <<[l \in 0 .. 3 |-> c(l) % WordSize], [l \in 0 .. 3 |-> c(l) \div WordSize]>>
SalsaFourAsm(x) == StoredAsm(FedForward(Broadcast(Straight(x), 4, 8, 9, CountedAsm(x)), Rounds20 \div 2, ScheduledAsm))
SalsaOneAsm(x) == StoredDiagonals(FedForward(InRows(x), Rounds20 \div 4, DiagonalFour))

-----------------------------------------------------------------------------
(* The loops over a message: x the words of the next block *)

Begun(x, n) == [x |-> x, out |-> <<>>, left |-> n]

Bulk(s, blocks, Made(_), Moved(_)) ==
    Times(s.left \div (16 * blocks),
          LAMBDA t : [x |-> Moved(t.x), out |-> t.out \o Made(t.x), left |-> t.left - 16 * blocks],
          s)

Rest(s, Made(_)) ==
    IF s.left = 0 THEN s ELSE [s EXCEPT !.out = @ \o SubSeq(Made(s.x), 1, s.left), !.left = 0]

chacha_ref(x, n) ==
    Rest(Bulk(Begun(x, n), 1, ChachaBlock, LAMBDA y : PlusOne(y, 12, 13)), ChachaBlock)

dolbeau_after4(s) ==
    Rest(Bulk(Bulk(s, 4, ChachaFour, LAMBDA y : PlusMany(y, 12, 13, 4)),
              1, ChachaRowBlock, LAMBDA y : PlusOne(y, 12, 13)),
         ChachaPartialBlock)

dolbeau_ssse3(x, n) == dolbeau_after4(Begun(x, n))
dolbeau_avx2(x, n) == dolbeau_after4(Bulk(Begun(x, n), 8, ChachaEight, LAMBDA y : PlusMany(y, 12, 13, 8)))

xmm6int_after4(s) ==
    Rest(Bulk(Bulk(s, 4, SalsaFour, LAMBDA y : PlusMany(y, 8, 13, 4)),
              1, SalsaOne, LAMBDA y : PlusOne(y, 8, 13)),
         SalsaPartialBlock)

xmm6int_sse2(x, n) == xmm6int_after4(Begun(x, n))
xmm6int_avx2(x, n) == xmm6int_after4(Bulk(Begun(x, n), 8, SalsaEight, LAMBDA y : PlusMany(y, 8, 13, 8)))

xmm6_asm(x, n) ==
    Rest(Bulk(Bulk(Begun(x, n), 4, SalsaFourAsm, LAMBDA y : PlusMany(y, 8, 13, 4)),
              1, SalsaOneAsm, LAMBDA y : PlusMany(y, 8, 13, 1)),
         SalsaOneAsm)

(* The portable Salsa20 counts byte by byte with a carry. *)
Digits(c) == [i \in 1 .. 8 |-> (c \div ByteSize ^ (i - 1)) % ByteSize]

CountedBytes(in) ==
    LET step(s, i) == LET u == s.u + in[i] IN [in |-> Append(s.in, u % ByteSize), u |-> u \div ByteSize]
    IN FoldLeft(step, [in |-> <<>>, u |-> 1], [i \in 1 .. 8 |-> i]).in

Load32(in, i) == FoldRight(LAMBDA d, acc : d + ByteSize * acc, SubSeq(in, i, i + 3), 0)

salsa_ref(k, n, ic, len, rounds) ==
    LET block(in) == crypto_core_salsa(n \o <<Load32(in, 1), Load32(in, 5)>>, k, Sigma, rounds)
    IN Rest(Bulk(Begun(Digits(ic), len), 1, block, CountedBytes), block)

-----------------------------------------------------------------------------
(* Subkeys, and the functions that are called *)

crypto_core_hchacha20(in, k) ==
    LET y == Times(Rounds20 \div 2, DoubleRound, Single(chacha_keysetup(k) @@ [i \in 12 .. 15 |-> in[i - 11]]))
    IN Kept([j \in 1 .. 8 |-> y[IF j <= 4 THEN j - 1 ELSE j + 7][0]])

crypto_core_hsalsa20(in, k) ==
    LET y == Times(Rounds20 \div 2, HashDoubleRound, Single(CoreInput(in, k, Sigma)))
    IN Kept([j \in 1 .. 8 |-> y[<<0, 5, 10, 15, 6, 7, 8, 9>>[j]][0]])

chacha20_encrypt_bytes(impl, x, n) ==
    CASE impl = "ref" -> chacha_ref(x, n)
      [] impl = "ssse3" -> dolbeau_ssse3(x, n)
      [] impl = "avx2" -> dolbeau_avx2(x, n)

stream_chacha20_xor_ic(impl, n, ic, k, len) ==
    chacha20_encrypt_bytes(impl, chacha_ivsetup(chacha_keysetup(k), n, ic), len).out

crypto_stream_chacha20_ietf_ext_xor_ic(impl, n, ic, k, len) ==
    chacha20_encrypt_bytes(impl, chacha_ietf_ivsetup(chacha_keysetup(k), n, ic), len).out

Blocks16(len) == (len + 15) \div 16

(* The comparison is made in 64 bits. *)
crypto_stream_chacha20_ietf_xor_ic(impl, n, ic, k, len) ==
    IF ic > (WordSize - Blocks16(len)) % WordSize ^ 2
    THEN "misuse"
    ELSE crypto_stream_chacha20_ietf_ext_xor_ic(impl, n, ic, k, len)

stream_salsa20_xor_ic(impl, n, ic, k, len) ==
    LET x == salsa_ivsetup(salsa_keysetup(k), n, ic)
    IN (CASE impl = "ref" -> salsa_ref(k, n, ic, len, Rounds20)
          [] impl = "asm" -> xmm6_asm(x, len)
          [] impl = "sse2" -> xmm6int_sse2(x, len)
          [] impl = "avx2" -> xmm6int_avx2(x, len)).out

crypto_stream_xchacha20_xor_ic(impl, n, ic, k, len) ==
    stream_chacha20_xor_ic(impl, SubSeq(n, 5, 6), ic, crypto_core_hchacha20(SubSeq(n, 1, 4), k), len)

crypto_stream_xsalsa20_xor_ic(impl, n, ic, k, len) ==
    stream_salsa20_xor_ic(impl, SubSeq(n, 5, 6), ic, crypto_core_hsalsa20(SubSeq(n, 1, 4), k), len)

crypto_stream_salsa2012_xor(n, k, len) == salsa_ref(k, n, 0, len, Rounds12).out
crypto_stream_salsa208_xor(n, k, len) == salsa_ref(k, n, 0, len, Rounds8).out

ChachaImpls == {"ref", "ssse3", "avx2"}
SalsaImpls == {"ref", "asm", "sse2", "avx2"}

AskChacha ==
    \E fn \in {"chacha20", "xchacha20", "chacha20_ietf"}, impl \in ChachaImpls, ic \in Counters, len \in StreamLengths :
        /\ fn = "chacha20_ietf" => ic < WordSize
        /\ Ask([fn |-> fn, impl |-> impl, ic |-> ic, len |-> len])

AskSalsa ==
    \E fn \in {"salsa20", "xsalsa20"}, impl \in SalsaImpls, ic \in Counters, len \in StreamLengths :
        Ask([fn |-> fn, impl |-> impl, ic |-> ic, len |-> len])

AskReduced ==
    \E fn \in {"salsa2012", "salsa208"}, len \in StreamLengths :
        Ask([fn |-> fn, impl |-> "ref", ic |-> 0, len |-> len])

AskSubkey == \E fn \in {"hchacha20", "hsalsa20"} : Ask([fn |-> fn])

AnswerChacha ==
    \/ Called("chacha20") /\ Answer(stream_chacha20_xor_ic(call.impl, Nonce, call.ic, Key, call.len))
    \/ Called("xchacha20") /\ Answer(crypto_stream_xchacha20_xor_ic(call.impl, Nonce, call.ic, Key, call.len))
    \/ Called("chacha20_ietf")
       /\ Answer(crypto_stream_chacha20_ietf_xor_ic(call.impl, Nonce, call.ic, Key, call.len))
AnswerSalsa ==
    \/ Called("salsa20") /\ Answer(stream_salsa20_xor_ic(call.impl, SubSeq(Nonce, 1, 2), call.ic, Key, call.len))
    \/ Called("xsalsa20") /\ Answer(crypto_stream_xsalsa20_xor_ic(call.impl, Nonce, call.ic, Key, call.len))
AnswerReduced ==
    \/ Called("salsa2012") /\ Answer(crypto_stream_salsa2012_xor(SubSeq(Nonce, 1, 2), Key, call.len))
    \/ Called("salsa208") /\ Answer(crypto_stream_salsa208_xor(SubSeq(Nonce, 1, 2), Key, call.len))
AnswerSubkey ==
    \/ Called("hchacha20") /\ Answer(crypto_core_hchacha20(Nonce, Key))
    \/ Called("hsalsa20") /\ Answer(crypto_core_hsalsa20(Nonce, Key))

AskStream == AskChacha \/ AskSalsa \/ AskReduced \/ AskSubkey
AnswerStream == AnswerChacha \/ AnswerSalsa \/ AnswerReduced \/ AnswerSubkey

-----------------------------------------------------------------------------
(* What a stream is: the blocks of ic, ic + 1, ... each made on its own *)

BlocksFrom(block(_), ic, len) ==
    SubSeq(FlattenSeq([i \in 1 .. Blocks16(len) |-> block((ic + i - 1) % WordSize ^ 2)]), 1, len)

ChachaStream(n, k, ic, len) ==
    BlocksFrom(LAMBDA c : ChachaBlock(chacha_ivsetup(chacha_keysetup(k), n, c)), ic, len)
IetfStream(n, k, ic, len) ==
    BlocksFrom(LAMBDA c : ChachaBlock(chacha_ietf_ivsetup(chacha_keysetup(k), n, c)), ic, len)
SalsaStream(n, k, ic, len, rounds) ==
    BlocksFrom(LAMBDA c : crypto_core_salsa(n \o <<c % WordSize, c \div WordSize>>, k, Sigma, rounds), ic, len)

ShortNonce == SubSeq(Nonce, 1, 2)
LongNonce == SubSeq(Nonce, 5, 6)

ExpectedStream(c) ==
    CASE c.fn = "chacha20" -> ChachaStream(Nonce, Key, c.ic, c.len)
      [] c.fn = "xchacha20" -> ChachaStream(LongNonce, crypto_core_hchacha20(SubSeq(Nonce, 1, 4), Key), c.ic, c.len)
      [] c.fn = "chacha20_ietf" ->
            IF c.ic + Blocks16(c.len) > WordSize THEN "misuse" ELSE IetfStream(Nonce, Key, c.ic, c.len)
      [] c.fn = "salsa20" -> SalsaStream(ShortNonce, Key, c.ic, c.len, Rounds20)
      [] c.fn = "xsalsa20" -> SalsaStream(LongNonce, crypto_core_hsalsa20(SubSeq(Nonce, 1, 4), Key), c.ic, c.len, Rounds20)
      [] c.fn = "salsa2012" -> SalsaStream(ShortNonce, Key, 0, c.len, Rounds12)
      [] c.fn = "salsa208" -> SalsaStream(ShortNonce, Key, 0, c.len, Rounds8)

(* A subkey and the words it was made from make a block of the cipher. *)
SubkeyOf(block, x, places) ==
    \A j \in 1 .. 8 : Plus(answer[j], x[places[j]]) = block[places[j] + 1]

(* Whichever implementation the processor gets, and however the message    *)
(* falls into its stages of eight, four, one and part of a block, the key  *)
(* stream is the blocks of consecutive counters from the initial one, the  *)
(* carry between the counter words included, each once and in order; the   *)
(* IETF variant refuses a message whose counter would run into the nonce.  *)
KeystreamInOrder ==
    /\ Answered({"chacha20", "xchacha20", "chacha20_ietf", "salsa20", "xsalsa20", "salsa2012", "salsa208"}) =>
          answer = ExpectedStream(call)
    /\ Answered({"hchacha20"}) =>
          LET x == chacha_keysetup(Key) @@ [i \in 12 .. 15 |-> Nonce[i - 11]]
          IN SubkeyOf(ChachaBlock(x), x, <<0, 1, 2, 3, 12, 13, 14, 15>>)
    /\ Answered({"hsalsa20"}) =>
          SubkeyOf(crypto_core_salsa(SubSeq(Nonce, 1, 4), Key, Sigma, Rounds20), CoreInput(Nonce, Key, Sigma),
                   <<0, 5, 10, 15, 6, 7, 8, 9>>)
=============================================================================
