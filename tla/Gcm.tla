-------------------------------- MODULE Gcm --------------------------------
(***************************************************************************)
(* AES-256-GCM as aesni and armcrypto compute it: the key schedule from    *)
(* the key assist instruction and the order of the rounds; multiplication  *)
(* in GHASH's field on registers read backwards, with its two-step         *)
(* reduction; powers of H, by which up to 2 PARALLEL_BLOCKS blocks are     *)
(* hashed with one reduction; and encryption, decryption and verification  *)
(* in stages of many, four, two, one and part of a block, in place or not. *)
(*                                                                         *)
(* A register is the set of its bits, so XOR128 is the symmetric           *)
(* difference.  Its two halves have HalfBits bits and not 64, a byte has       *)
(* ByteBits and not 8; there are 4 bytes in a block, the last of which is  *)
(* the counter.  A length is in bytes.                                     *)
(***************************************************************************)
EXTENDS Calls, FiniteSetsExt, SequencesExt

CONSTANTS HalfBits, ByteBits,
          P64,                   \* the constant of gcm_reduce
          Aes(_),                \* a block under the key of the call
          GcmNonce, GcmText(_),
          HashKeys,
          SubByte(_), XorByte(_, _), KeyBytes,  \* of the key schedule
          GcmSizeMax, GcmLengths, AdLengths, InPlace

ASSUME GcmAssumption ==
    /\ 2 * HalfBits = 4 * ByteBits /\ P64 \subseteq 0 .. HalfBits - 1
    /\ GcmLengths \union AdLengths \subseteq 0 .. GcmSizeMax /\ InPlace \subseteq BOOLEAN

BlockBytes == 4
NPUBBYTES == 3
Register == 0 .. 2 * HalfBits - 1
LowHalf == 0 .. HalfBits - 1
PARALLEL_BLOCKS == [aesni |-> 7, armcrypto |-> 6]
GcmImpls == DOMAIN PARALLEL_BLOCKS

HalfLo(x) == x \intersect LowHalf
HalfHi(x) == {d - HalfBits : d \in x \ LowHalf}
SHUFFLE2301(x) == {(d + HalfBits) % (2 * HalfBits) : d \in x}
BytesShl(x) == {d + HalfBits : d \in x \intersect LowHalf}
REV128(x) == {(BlockBytes - 1 - d \div ByteBits) * ByteBits + (d % ByteBits) : d \in x}

-----------------------------------------------------------------------------
(* The key schedule, on words of four bytes, and the rounds *)

ROUNDS == 14
Word4(x, i) == SubSeq(x, 4 * i + 1, 4 * i + 4)
XorBytes(a, b) == [i \in 1 .. Len(a) |-> XorByte(a[i], b[i])] \o <<>>
SubBytes(a) == [i \in 1 .. Len(a) |-> SubByte(a[i])] \o <<>>
RotWord(w) == Tail(w) \o <<w[1]>>
WithRcon(w, rc) == [w EXCEPT ![1] = XorByte(@, rc)]

(* _mm_aeskeygenassist_si128 *)
keygenassist(x, rc) ==
    SubBytes(Word4(x, 1)) \o WithRcon(RotWord(SubBytes(Word4(x, 1))), rc)
    \o SubBytes(Word4(x, 3)) \o WithRcon(RotWord(SubBytes(Word4(x, 3))), rc)

(* The instruction of armcrypto also moves the rows, which the shuffle     *)
(* undoes.                                                                 *)
ShiftRows(x) == [i \in 1 .. 16 |-> x[((i - 1) % 4) + 4 * (((i - 1) \div 4 + ((i - 1) % 4)) % 4) + 1]]
AES_KEYGEN(x, rc) ==
    LET a == ShiftRows(SubBytes(x))
        b == [i \in 1 .. 16 |-> a[<<4, 1, 14, 11, 1, 14, 11, 4, 12, 9, 6, 3, 9, 6, 3, 12>>[i] + 1]]
    IN Word4(b, 0) \o WithRcon(Word4(b, 1), rc) \o Word4(b, 2) \o WithRcon(Word4(b, 3), rc)

Keygen(impl, x, rc) == IF impl = "aesni" THEN keygenassist(x, rc) ELSE AES_KEYGEN(x, rc)

(* XOR with itself shifted up by one word and by two, and with a word in   *)
(* every place (EXPAND_KEY_1, EXPAND_KEY_2).                               *)
WordsUpTo(t, j) == FoldLeft(XorBytes, Word4(t, 0), [i \in 1 .. j |-> Word4(t, i)])
EXPAND_KEY(t, w) == FlattenSeq([j \in 1 .. 4 |-> XorBytes(WordsUpTo(t, j - 1), w)])

expand256(impl, key) ==
    Loop(LAMBDA k, i :
                 IF i % 2 = 0 THEN Append(k, EXPAND_KEY(k[i + 1], Word4(Keygen(impl, k[i + 2], 2 ^ (i \div 2)), 3)))
                 ELSE Append(k, EXPAND_KEY(k[i + 1], Word4(Keygen(impl, k[i + 2], 2 ^ (i \div 2)), 2))),
             <<SubSeq(key, 1, 16), SubSeq(key, 17, 32)>>, [i \in 1 .. ROUNDS - 1 |-> i - 1])

(* What is done to a block: "key" i, substitution and row shift, mixing.   *)
AES_ENCRYPT(t, i) == t \o <<"sub", "mix", i>>
AES_ENCRYPTLAST(t, i) == t \o <<"sub", i>>
AES_XENCRYPT(t, i) == t \o <<i, "sub", "mix">>
AES_XENCRYPTLAST(t, i) == t \o <<i, "sub">>

encrypt_aesni == AES_ENCRYPTLAST(FoldLeft(AES_ENCRYPT, <<0>>, [i \in 1 .. ROUNDS - 1 |-> i]), ROUNDS)
encrypt_armcrypto ==
    AES_XENCRYPTLAST(FoldLeft(AES_XENCRYPT, <<>>, [i \in 1 .. ROUNDS - 1 |-> i - 1]), ROUNDS - 1) \o <<ROUNDS>>

encrypt_rounds(impl) == IF impl = "aesni" THEN encrypt_aesni ELSE encrypt_armcrypto

-----------------------------------------------------------------------------
(* The field of GHASH *)

(* CLMULLO128 and its like: a product of halves without carries. *)
CLMUL(a, b) == {k \in 0 .. 2 * HalfBits - 2 : Cardinality({i \in a : k - i \in b}) % 2 = 1}

clmul128(x, y) ==
    [hi |-> CLMUL(HalfHi(x), HalfHi(y)), lo |-> CLMUL(HalfLo(x), HalfLo(y)),
     mid |-> SymDiff(CLMUL(HalfHi(x), HalfLo(y)), CLMUL(HalfLo(x), HalfHi(y)))]
clsq128(x) == [hi |-> CLMUL(HalfHi(x), HalfHi(x)), lo |-> CLMUL(HalfLo(x), HalfLo(x)), mid |-> {}]

(* One half of the low word is folded into the other, twice. *)
FoldedHalf(lo) == SymDiff(SHUFFLE2301(lo), CLMUL(HalfLo(lo), P64))
gcm_reduce(x) ==
    SymDiff(FoldedHalf(FoldedHalf(SymDiff(x.lo, BytesShl(x.mid)))), SymDiff(x.hi, HalfHi(x.mid)))

precomp(hx, from, to) ==
    Loop(LAMBDA f, i : f @@ (i :> gcm_reduce(clmul128(f[i - 1], f[0])))
                             @@ (i + 1 :> gcm_reduce(clsq128(f[i \div 2]))),
             hx, [j \in 1 .. (to - from + 1) \div 2 |-> from + 2 * j - 2])

(* H times x: shifted up, and the bit that leaves the register comes back. *)
TimesX(h0) ==
    LET up == {d + 1 : d \in h0} \intersect Register
    IN IF 2 * HalfBits - 1 \in h0 THEN SymDiff(up, {d + HalfBits : d \in P64} \union {0}) ELSE up

precomp_for_block_count(gh_key, PC_COUNT, block_count) ==
    LET h == TimesX(REV128(gh_key))
    IN precomp((0 :> h) @@ (1 :> gcm_reduce(clsq128(h))), 2, IF block_count >= PC_COUNT THEN PC_COUNT ELSE block_count)

gh_update0(acc, p, hn) == clmul128(SymDiff(acc, REV128(p)), hn)
SumI256(u, t) == [hi |-> SymDiff(u.hi, t.hi), lo |-> SymDiff(u.lo, t.lo), mid |-> SymDiff(u.mid, t.mid)]
gh_update(u, p, hn) == SumI256(u, clmul128(REV128(p), hn))

(* Blocks under descending powers of H, from hx[top] on. *)
HashContinued(hx, u, blocks, top) ==
    Loop(LAMBDA v, j : gh_update(v, blocks[j], hx[top + 1 - j]), u, [j \in 1 .. Len(blocks) |-> j])
HashBegun(hx, acc, blocks, top) == HashContinued(hx, gh_update0(acc, blocks[1], hx[top]), Tail(blocks), top - 1)
Hashed(hx, acc, blocks) == gcm_reduce(HashBegun(hx, acc, blocks, Len(blocks) - 1))

Again(n, Op(_), x) == Loop(LAMBDA y, i : Op(y), x, [i \in 1 .. n |-> i])

AdStage(hx, blocks, t, n) ==
    Again((Len(blocks) - t.i) \div n,
          LAMBDA r : [i |-> r.i + n, acc |-> Hashed(hx, r.acc, SubSeq(blocks, r.i + 1, r.i + n))], t)

gh_ad_blocks(hx, acc, blocks, P) ==
    Loop(LAMBDA t, n : AdStage(hx, blocks, t, n), [i |-> 0, acc |-> acc], <<2 * P, P, 4, 2, 1>>).acc

-----------------------------------------------------------------------------
(* Counters and lengths *)

BitsOf(n) == {d \in LowHalf : (n \div 2 ^ d) % 2 = 1}
Part(x, left) == {d \in x : d < ByteBits * left}
CounterBlock(n) == Part(GcmNonce, NPUBBYTES) \union {d + NPUBBYTES * ByteBits : d \in BitsOf(n)}

(* ADD64x2 of one: the carry stays in the lower half. *)
Incremented(x) ==
    LET run == {d \in LowHalf : 0 .. d \subseteq x} IN (x \ run) \union ({Cardinality(run)} \intersect LowHalf)

incr_counters(counter, n) ==
    Again(n, LAMBDA r : [rev |-> Append(r.rev, REV128(r.next)), next |-> Incremented(r.next)],
          [rev |-> <<>>, next |-> counter])

GcmBlocks(len) == (len + BlockBytes - 1) \div BlockBytes

required_blocks(P, adlen, len) ==
    IF adlen > GcmSizeMax - 2 * P * BlockBytes \/ len > GcmSizeMax - 2 * P * BlockBytes
       \/ GcmBlocks(len) >= 2 ^ ByteBits - 2
    THEN 0 ELSE GcmBlocks(adlen) + GcmBlocks(len) + 1

final_block(adlen, len) ==
    REV128({d + HalfBits : d \in BitsOf(adlen * ByteBits)} \union BitsOf(len * ByteBits))

-----------------------------------------------------------------------------
(* Encryption and decryption: blocks are numbered in memory, those read    *)
(* from 0 on and those written from `to' on, which is 0 in place.  A call  *)
(* is given by hx, P for PARALLEL_BLOCKS, to, and the lengths; t holds the *)
(* memory, the hash, the counter and i, in blocks.                         *)

Taken(mem, at, n) == [j \in 1 .. n |-> mem[at + j - 1]] \o <<>>

encrypt_xor_wide(mem, dst, src, rev) ==
    FoldLeftDomain(LAMBDA f, j : [f EXCEPT ![dst + j - 1] = SymDiff(Aes(rev[j]), f[src + j - 1])], mem, rev)

CryptWith(c, t, n, r) ==
    [t EXCEPT !.mem = encrypt_xor_wide(@, c.to + t.i, t.i, r.rev), !.counter = r.next, !.i = @ + n]
Crypt(c, t, n) == CryptWith(c, t, n, incr_counters(t.counter, n))

(* What has been hashed is behind what has been encrypted by P blocks. *)
Delayed(c, t) == [t EXCEPT !.acc = Hashed(c.hx, @, Taken(t.mem, c.to + t.i - c.P, c.P))]

(* 2 * PARALLEL_BLOCKS: one reduction for the P blocks behind and P new. *)
encrypt_double(c, t) ==
    LET first  == Crypt(c, t, c.P)
        second == Crypt(c, first, c.P)
        behind == HashBegun(c.hx, t.acc, Taken(first.mem, c.to + t.i - c.P, c.P), 2 * c.P - 1)
    IN [second EXCEPT !.acc = gcm_reduce(HashContinued(c.hx, behind, Taken(second.mem, c.to + t.i, c.P), c.P - 1))]

encrypt_doubles(c, t) ==
    IF c.full - t.i < 2 * c.P THEN t
    ELSE Delayed(c, Again((c.full - t.i - c.P) \div (2 * c.P), LAMBDA u : encrypt_double(c, u), Crypt(c, t, c.P)))

encrypt_single(c, t) ==
    LET m == Crypt(c, t, c.P) IN [m EXCEPT !.acc = Hashed(c.hx, @, Taken(m.mem, c.to + t.i - c.P, c.P))]
encrypt_singles(c, t) ==
    IF c.full - t.i < c.P THEN t
    ELSE Delayed(c, Again((c.full - t.i - c.P) \div c.P, LAMBDA u : encrypt_single(c, u), Crypt(c, t, c.P)))

EncryptThenHash(c, t, u, n) == [u EXCEPT !.acc = Hashed(c.hx, @, Taken(u.mem, c.to + t.i, n))]
encrypt_few(c, t, n, times) == Again(times, LAMBDA u : EncryptThenHash(c, u, Crypt(c, u, n), n), t)

(* The last block, whole or not, goes with the block of the lengths. *)
Left(c, t) == c.len - t.i * BlockBytes
LastBlocks(c, x) == IF x = <<>> THEN <<final_block(c.adlen, c.len)>> ELSE <<x[1], final_block(c.adlen, c.len)>>
Closed(c, t, x) ==
    [mem |-> t.mem,
     mac |-> SymDiff(Aes(CounterBlock(1)), REV128(gh_ad_blocks(c.hx, t.acc, LastBlocks(c, x), c.P)))]

(* Mutant: the key stream is not cut off after the message. *)
encrypt_last_uncut(c, t) ==
    IF Left(c, t) = 0 THEN Closed(c, t, <<>>)
    ELSE LET x == SymDiff(Aes(REV128(t.counter)), Part(t.mem[t.i], Left(c, t)))
         IN Closed(c, [t EXCEPT !.mem[c.to + t.i] = Part(x, Left(c, t))], <<x>>)

encrypt_last(c, t) ==
    IF Left(c, t) = 0 THEN Closed(c, t, <<>>)
    ELSE LET x == Part(SymDiff(Aes(REV128(t.counter)), Part(t.mem[t.i], Left(c, t))), Left(c, t))
         IN Closed(c, [t EXCEPT !.mem[c.to + t.i] = x], <<x>>)

(* Loops that stop one block before the end, if that is a whole one. *)
Before(len, i) == IF GcmBlocks(len) - 1 > i THEN GcmBlocks(len) - 1 - i ELSE 0

(* Whole blocks, then the rest of the last one padded with zeros. *)
Hashing(c, acc, blocks, len) ==
    LET whole == gh_ad_blocks(c.hx, acc, SubSeq(blocks, 1, len \div BlockBytes), c.P)
    IN IF len % BlockBytes = 0 THEN whole ELSE gh_ad_blocks(c.hx, whole, <<Last(blocks)>>, c.P)
At0(c, mem, ad) == [mem |-> mem, acc |-> Hashing(c, {}, ad, c.adlen), i |-> 0, counter |-> REV128(CounterBlock(2))]

encrypt_fours(c, t) == encrypt_few(c, t, 4, (c.full - t.i) \div 4)
encrypt_twos(c, t) == encrypt_few(c, t, 2, (c.full - t.i) \div 2)
encrypt_ones(c, t) == encrypt_few(c, t, 1, Before(c.len, t.i))
aes_gcm_encrypt_generic(c, mem, ad) ==
    encrypt_last(c, encrypt_ones(c, encrypt_twos(c, encrypt_fours(c,
        encrypt_singles(c, encrypt_doubles(c, At0(c, mem, ad)))))))

decrypt_double(c, t) ==
    LET first == Crypt(c, t, c.P)
        begun == HashBegun(c.hx, t.acc, Taken(t.mem, t.i, c.P), 2 * c.P - 1)
        done  == gcm_reduce(HashContinued(c.hx, begun, Taken(first.mem, t.i + c.P, c.P), c.P - 1))
    IN Crypt(c, [first EXCEPT !.acc = done], c.P)

HashThenDecrypt(c, t, n) == Crypt(c, [t EXCEPT !.acc = Hashed(c.hx, @, Taken(t.mem, t.i, n))], n)
decrypt_few(c, t, n, times) == Again(times, LAMBDA u : HashThenDecrypt(c, u, n), t)

decrypt_last(c, t) ==
    IF Left(c, t) = 0 THEN Closed(c, t, <<>>)
    ELSE LET x == Part(t.mem[t.i], Left(c, t))
         IN Closed(c, [t EXCEPT !.mem[c.to + t.i] = Part(SymDiff(Aes(REV128(t.counter)), x), Left(c, t))], <<x>>)

decrypt_doubles(c, t) == Again((c.full - t.i) \div (2 * c.P), LAMBDA u : decrypt_double(c, u), t)
decrypt_stage(c, t, n) == decrypt_few(c, t, n, (c.full - t.i) \div n)
aes_gcm_decrypt_generic(c, mem, ad) ==
    LET t == Loop(LAMBDA u, n : decrypt_stage(c, u, n), decrypt_doubles(c, At0(c, mem, ad)), <<c.P, 4, 2>>)
    IN decrypt_last(c, decrypt_few(c, t, 1, Before(c.len, t.i)))

-----------------------------------------------------------------------------
(* The functions.  A message and what is made of it are sequences of       *)
(* blocks; the memory is read back from `to' on.                           *)

ABYTES == BlockBytes
D0 == {d \in Register : ByteBits - (d % ByteBits) \in {1, 2, 4}}   \* every byte 0xd0
Cut(blocks, len) == [k \in 1 .. GcmBlocks(len) |-> Part(blocks[k], len - (k - 1) * BlockBytes)] \o <<>>
AllOf(x, len) == Cut([k \in 1 .. GcmBlocks(len) |-> x], len)

aes256gcm_beforenm(impl) == precomp_for_block_count(Aes({}), 2 * PARALLEL_BLOCKS[impl], 2 * PARALLEL_BLOCKS[impl])
States == [impl \in GcmImpls |-> aes256gcm_beforenm(impl)] @@ <<>>

Frame(impl, inPlace, adlen, len) ==
    [hx |-> States[impl], P |-> PARALLEL_BLOCKS[impl], to |-> IF inPlace THEN 0 ELSE GcmBlocks(len),
     full |-> len \div BlockBytes, len |-> len, adlen |-> adlen]
Loaded(c, blocks) ==
    [k \in 0 .. c.to + Len(blocks) - 1 |-> IF k < Len(blocks) THEN blocks[k + 1] ELSE {}] @@ <<>>
Stored(c, r) == Taken(r.mem, c.to, GcmBlocks(c.len))

encrypt_detached_afternm(c, m, ad) ==
    LET sealed(r) == [ret |-> 0, text |-> Stored(c, r), mac |-> r.mac]
    IN IF required_blocks(c.P, c.adlen, c.len) = 0 THEN [ret |-> -1, text |-> AllOf({}, c.len), mac |-> D0]
       ELSE sealed(aes_gcm_encrypt_generic(c, Loaded(c, m), ad))

aes256gcm_encrypt(c, m, ad) ==
    LET r == encrypt_detached_afternm(c, m, ad) IN [r EXCEPT !.ret = <<@, IF @ = 0 THEN c.len + ABYTES ELSE 0>>]
aes256gcm_encrypt_afternm(c, m, ad) ==
    LET r == encrypt_detached_afternm(c, m, ad) IN [r EXCEPT !.ret = <<@, c.len + ABYTES>>]

verify_mac(c, text, mac, ad) ==
    IF required_blocks(c.P, c.adlen, c.len) = 0 THEN -1
    ELSE IF Closed(c, [mem |-> <<>>, acc |-> Hashing(c, Hashing(c, {}, ad, c.adlen), text, c.len)], <<>>).mac = mac THEN 0 ELSE -1

decrypt_detached_afternm(c, null, text, mac, ad) ==
    LET opened(r) == IF r.mac = mac THEN [ret |-> 0, text |-> Stored(c, r)] ELSE [ret |-> -1, text |-> AllOf(D0, c.len)]
    IN IF null THEN [ret |-> verify_mac(c, text, mac, ad), text |-> <<>>]
       ELSE IF required_blocks(c.P, c.adlen, c.len) = 0 THEN [ret |-> -1, text |-> <<>>]
       ELSE opened(aes_gcm_decrypt_generic(c, Loaded(c, text), ad))

(* A sealed message shorter than a tag is not looked at. *)
aes256gcm_decrypt(c, null, text, mac, ad) ==
    LET r == IF c.len >= 0 THEN decrypt_detached_afternm(c, null, text, mac, ad) ELSE [ret |-> -1, text |-> <<>>]
    IN [r EXCEPT !.ret = <<@, IF @ = 0 THEN c.len ELSE 0>>]

-----------------------------------------------------------------------------
(* The standard: FIPS 197 for the key schedule, SP 800-38D for the rest *)

Schedule(key) ==
    Loop(LAMBDA w, i :
                 LET t == w[i]
                 IN Append(w, XorBytes(w[i - 7], IF i % 8 = 0 THEN WithRcon(SubBytes(RotWord(t)), 2 ^ (i \div 8 - 1))
                                                 ELSE IF i % 4 = 0 THEN SubBytes(t) ELSE t)),
             [i \in 1 .. 8 |-> Word4(key, i - 1)], [i \in 1 .. 52 |-> i + 7])

RoundKey(key, n) == FlattenSeq(SubSeq(Schedule(key), 4 * n + 1, 4 * n + 4))
Rounds256 == FlattenSeq([i \in 1 .. ROUNDS + 1 |-> IF i = 1 THEN <<0>> ELSE IF i = ROUNDS + 1 THEN <<"sub", ROUNDS>>
                                                  ELSE <<"sub", "mix", i - 1>>])

(* A register read backwards: bit 2 HalfBits - 1 is the coefficient of 1.  The *)
(* bit that leaves at the other end comes back as the polynomial's rest.   *)
Shifted(v) ==
    LET down == {d - 1 : d \in v \ {0}}
    IN IF 0 \in v THEN SymDiff(down, {d + HalfBits - 1 : d \in P64} \union {2 * HalfBits - 1}) ELSE down
FieldTimes(x, y) ==
    Loop(LAMBDA z, d : [z |-> IF 2 * HalfBits - d \in x THEN SymDiff(z.z, z.v) ELSE z.z, v |-> Shifted(z.v)],
             [z |-> {}, v |-> y], [d \in 1 .. 2 * HalfBits |-> d]).z

HashKey == REV128(Aes({}))
Ghash(blocks) == Loop(LAMBDA z, p : FieldTimes(SymDiff(z, REV128(p)), HashKey), {}, blocks)

MessageOf(len) == Cut([k \in 1 .. GcmBlocks(len) |-> GcmText(k)], len)
AdOf(len) == Cut([k \in 1 .. GcmBlocks(len) |-> GcmText(k + 2)], len)
CipherOf == [len \in GcmLengths |->
               Cut([k \in 1 .. GcmBlocks(len) |-> SymDiff(Aes(CounterBlock(k + 1)), GcmText(k))], len)] @@ <<>>
TagOf ==
    LET tags[text \in {CipherOf}] ==
            [c \in AdLengths \X GcmLengths |->
                SymDiff(Aes(CounterBlock(1)), REV128(Ghash(AdOf(c[1]) \o text[c[2]] \o <<final_block(c[1], c[2])>>)))] @@ <<>>
    IN tags[CipherOf]

-----------------------------------------------------------------------------
(* Calls *)

(* What may have happened to a sealed message on its way. *)
Tampered == {"no", "text", "tag", "ad"}
Flipped(x) == SymDiff(x, {0})
Sent(c) == IF c.how = "text" /\ c.len > 0 THEN [CipherOf[c.len] EXCEPT ![1] = Flipped(@)] ELSE CipherOf[c.len]
SentTag(c) == IF c.how = "tag" THEN Flipped(TagOf[<<c.adlen, c.len>>]) ELSE TagOf[<<c.adlen, c.len>>]
SentAd(c) == IF c.how = "ad" /\ c.adlen > 0 THEN [AdOf(c.adlen) EXCEPT ![1] = Flipped(@)] ELSE AdOf(c.adlen)
Genuine(c) == c.how = "no" \/ (c.how = "text" /\ c.len = 0) \/ (c.how = "ad" /\ c.adlen = 0)

AskEncrypt ==
    \E fn \in {"aes256gcm_encrypt", "aes256gcm_encrypt_afternm"}, impl \in GcmImpls, inPlace \in InPlace,
       adlen \in AdLengths, len \in GcmLengths :
        Ask([fn |-> fn, impl |-> impl, inPlace |-> inPlace, adlen |-> adlen, len |-> len])
AskDecrypt ==
    \E fn \in {"aes256gcm_decrypt", "aes256gcm_verify"}, impl \in GcmImpls, inPlace \in InPlace,
       adlen \in AdLengths, len \in GcmLengths, how \in Tampered :
        Ask([fn |-> fn, impl |-> impl, inPlace |-> inPlace, adlen |-> adlen, len |-> len, how |-> how])
AskTruncated == \E impl \in GcmImpls, len \in -ABYTES .. -1 : Ask([fn |-> "aes256gcm_truncated", impl |-> impl, len |-> len])
AskPowers == \E impl \in GcmImpls, h \in HashKeys : Ask([fn |-> "precomp", impl |-> impl, h |-> h])
AskSchedule == \E impl \in GcmImpls, key \in KeyBytes : Ask([fn |-> "expand256", impl |-> impl, key |-> key])

Framed(c) == Frame(c.impl, c.inPlace, c.adlen, c.len)
AnswerEncrypt ==
    \/ Called("aes256gcm_encrypt") /\ Answer(aes256gcm_encrypt(Framed(call), MessageOf(call.len), AdOf(call.adlen)))
    \/ Called("aes256gcm_encrypt_afternm")
       /\ Answer(aes256gcm_encrypt_afternm(Framed(call), MessageOf(call.len), AdOf(call.adlen)))
AnswerDecrypt ==
    \/ /\ Called("aes256gcm_decrypt") \/ Called("aes256gcm_verify")
       /\ Answer(aes256gcm_decrypt(Framed(call), call.fn = "aes256gcm_verify", Sent(call), SentTag(call), SentAd(call)))
    \/ Called("aes256gcm_truncated")
       /\ Answer(aes256gcm_decrypt([P |-> 0, len |-> call.len], FALSE, <<>>, {}, <<>>))
AnswerAes ==
    \/ Called("precomp")
       /\ Answer(precomp_for_block_count(call.h, 2 * PARALLEL_BLOCKS[call.impl], 2 * PARALLEL_BLOCKS[call.impl]))
    \/ Called("expand256") /\ Answer([keys |-> expand256(call.impl, call.key), rounds |-> encrypt_rounds(call.impl)])

AskGcm == AskEncrypt \/ AskDecrypt \/ AskTruncated \/ AskPowers \/ AskSchedule
AnswerGcm == AnswerEncrypt \/ AnswerDecrypt \/ AnswerAes

-----------------------------------------------------------------------------
(* Every length is below what a stage can add to. *)
SizesFit(c) ==
    /\ c.len + 2 * PARALLEL_BLOCKS[c.impl] * BlockBytes <= GcmSizeMax
    /\ c.adlen + 2 * PARALLEL_BLOCKS[c.impl] * BlockBytes <= GcmSizeMax

(* The counters are 2, 3, ... and must be below 2^ByteBits; the guard      *)
(* leaves the last of them unused.                                         *)
CountersFit(c) == GcmBlocks(c.len) + 2 <= 2 ^ ByteBits
WithinLimits(c) == SizesFit(c) /\ GcmBlocks(c.len) + 2 < 2 ^ ByteBits
TooLong(c) == ~SizesFit(c) \/ ~CountersFit(c)

(* The longest message as the header has it. *)
MESSAGEBYTES_MAX == Min({GcmSizeMax - ABYTES, BlockBytes * (2 ^ ByteBits - 2)})

Sealing == {"aes256gcm_encrypt", "aes256gcm_encrypt_afternm"}
SealedByStandard ==
    answer = [ret |-> <<0, call.len + ABYTES>>, text |-> CipherOf[call.len], mac |-> TagOf[<<call.adlen, call.len>>]]
SealRefused ==
    /\ answer.ret[1] = -1 /\ answer.text = AllOf({}, call.len) /\ answer.mac = D0
    /\ call.fn = "aes256gcm_encrypt" => answer.ret[2] = 0

OpenedByStandard ==
    answer = IF Genuine(call) THEN [ret |-> <<0, call.len>>, text |-> MessageOf(call.len)]
             ELSE [ret |-> <<-1, 0>>, text |-> AllOf(D0, call.len)]
OpenRefused == answer = [ret |-> <<-1, 0>>, text |-> <<>>]

(* On both processors, whatever the lengths and in place or not, sealing   *)
(* gives the text and the tag of SP 800-38D, or nothing of the message     *)
(* where its counters would run into the nonce; opening gives the message  *)
(* back if and only if nothing was changed on the way, and otherwise       *)
(* leaves 0xd0 in its place; verifying without a message decides the same. *)
(* Of the longest message with counters that fit it is not said which of   *)
(* the two is done: LongestSealed is about that one.                       *)
(* The powers of H are that, and the round keys are those of FIPS 197.     *)
GcmStandard ==
    /\ Answered(Sealing) => CASE WithinLimits(call) -> SealedByStandard
                              [] TooLong(call) -> SealRefused
                              [] OTHER -> SealedByStandard \/ SealRefused
    /\ Answered({"aes256gcm_decrypt"}) => CASE WithinLimits(call) -> OpenedByStandard
                                            [] TooLong(call) -> OpenRefused
                                            [] OTHER -> OpenedByStandard \/ OpenRefused
    /\ Answered({"aes256gcm_verify"}) =>
          /\ answer.ret[1] = 0 => Genuine(call) /\ ~TooLong(call)
          /\ WithinLimits(call) /\ Genuine(call) => answer.ret[1] = 0
    /\ Answered({"aes256gcm_truncated"}) => answer = [ret |-> <<-1, 0>>, text |-> <<>>]
    /\ Answered({"precomp"}) =>
          \A i \in 0 .. 2 * PARALLEL_BLOCKS[call.impl] - 1, x \in HashKeys :
              gcm_reduce(clmul128(x, answer[i])) =
                  Loop(LAMBDA z, j : FieldTimes(z, REV128(call.h)), x, [j \in 1 .. i + 1 |-> j])
    /\ Answered({"expand256"}) =>
          /\ answer.keys = [n \in 1 .. ROUNDS + 1 |-> RoundKey(call.key, n - 1)]
          /\ answer.rounds = Rounds256

(* A message of any length up to MESSAGEBYTES_MAX is sealed                *)
(* (crypto_aead_aes256gcm.h).                                              *)
LongestSealed == Answered(Sealing) /\ call.adlen = 0 /\ call.len <= MESSAGEBYTES_MAX => answer.ret[1] = 0
=============================================================================
