------------------------------- MODULE Argon2 -------------------------------
(***************************************************************************)
(* argon2: how a block is mixed by the reference code and by vectors of    *)
(* two, four and eight words; in which order and from which earlier blocks *)
(* the memory is filled; the hash of any length; and one hash, with the    *)
(* checks before it and the allocations that may fail.                     *)
(*                                                                         *)
(* The operations on words, the compression of two blocks and the hashes   *)
(* are open; xor is any commutative group.  Where memory is filled, a      *)
(* block is one value.  Salt and tag are sequences of bytes, a password    *)
(* its length and a value.                                                 *)
(***************************************************************************)
EXTENDS Calls, FiniteSetsExt, SequencesExt, TLC

CONSTANTS BlaMka(_, _), XorWord(_, _), RotrWord(_, _),
          MixWords,              \* blocks of 128 words, to mix
          Compress(_, _),        \* of the previous and the reference block
          XorBlocks(_, _),
          FirstBlock(_, _, _),   \* of the hash of all inputs, a lane, 0 or 1
          Address(_),            \* a block of addresses, of its seven inputs
          WordOf(_, _),          \* word i of a block, its low and high half
          RandBits,              \* of such a half, 32 in the code
          Spread(_, _),          \* the n bytes that a block is hashed to
          Salt,                  \* sixteen bytes
          ADDRESSES_IN_BLOCK,    \* 128 in the code
          UINT32_MAX, ARGON2_MAX_LANES,
          Fillings,              \* memory costs
          BLAKE_MAX,             \* the longest BLAKE2b hash, 64 in the code
          LongLengths            \* lengths of hashes

ASSUME Argon2Assumption == Salt \in [1 .. 16 -> 0 .. 255]

Fixed(f) == f @@ <<>>

-----------------------------------------------------------------------------
(* Mixing a block (fill-block-*.c, blamka-round-*.h) *)

QWORDS == 128

XorBlock(x, y) == Fixed([w \in 0 .. QWORDS - 1 |-> XorWord(x[w], y[w])])

HalfG(q, r, s) ==
    LET a == BlaMka(q[1], q[2])
        d == RotrWord(XorWord(q[4], a), r)
        c == BlaMka(q[3], d)
    IN <<a, RotrWord(XorWord(q[2], c), s), c, d>>
G(q) == HalfG(HalfG(q, 32, 24), 16, 63)

(* Columns, then diagonals, of the words at 16 places of a block. *)
QuadPlaces == << <<0, 4, 8, 12>>, <<1, 5, 9, 13>>, <<2, 6, 10, 14>>, <<3, 7, 11, 15>>,
            <<0, 5, 10, 15>>, <<1, 6, 11, 12>>, <<2, 7, 8, 13>>, <<3, 4, 9, 14>> >>
ROUND_NOMSG(v, place(_)) ==
    Loop(LAMBDA w, q : LET of == G([k \in 1 .. 4 |-> w[place(q[k])]])
                       IN [w EXCEPT ![place(q[1])] = of[1], ![place(q[2])] = of[2],
                                    ![place(q[3])] = of[3], ![place(q[4])] = of[4]], v, QuadPlaces)
MixRef(x) ==
    Loop(LAMBDA v, i : ROUND_NOMSG(v, LAMBDA k : 2 * i + 16 * (k \div 2) + (k % 2)),
         Loop(LAMBDA v, i : ROUND_NOMSG(v, LAMBDA k : 16 * i + k), x, [i \in 1 .. 8 |-> i - 1]),
         [i \in 1 .. 8 |-> i - 1])

(* Eight registers of n words: two for each of the four rows. *)
Rows(s, at) == [A |-> <<s[at[1]], s[at[2]]>>, B |-> <<s[at[3]], s[at[4]]>>,
                C |-> <<s[at[5]], s[at[6]]>>, D |-> <<s[at[7]], s[at[8]]>>]
Unrows(s, at, r) ==
    [s EXCEPT ![at[1]] = r.A[1], ![at[2]] = r.A[2], ![at[3]] = r.B[1], ![at[4]] = r.B[2],
              ![at[5]] = r.C[1], ![at[6]] = r.C[2], ![at[7]] = r.D[1], ![at[8]] = r.D[2]]

(* G1 and G2 *)
RowsOf(q, places) ==
    LET row(n) == <<Fixed([l \in places |-> q[1][l][n]]), Fixed([l \in places |-> q[2][l][n]])>>
    IN [A |-> row(1), B |-> row(2), C |-> row(3), D |-> row(4)]
GRows(r) ==
    RowsOf([k \in 1 .. 2 |-> Fixed([l \in DOMAIN r.A[1] |-> G(<<r.A[k][l], r.B[k][l], r.C[k][l], r.D[k][l]>>)])] @@ <<>>,
           DOMAIN r.A[1])

Swap(p) == <<p[2], p[1]>>

(* Two words: _mm_alignr_epi8 by one word *)
alignr(hi, lo) == Fixed([l \in 0 .. 1 |-> IF l = 0 THEN lo[1] ELSE hi[0]])
Across(p) == <<alignr(p[2], p[1]), alignr(p[1], p[2])>>
DIAGONALIZE(r) == [r EXCEPT !.B = Across(@), !.C = Swap(@), !.D = Swap(Across(@))]
UNDIAGONALIZE(r) == [r EXCEPT !.B = Swap(Across(@)), !.C = Swap(@), !.D = Across(@)]

(* Four words, or twice four: the words of each four by the places *)
Permute(v, is) == Fixed([l \in DOMAIN v |-> v[4 * (l \div 4) + is[(l % 4) + 1]]])
Both(p, is) == <<Permute(p[1], is), Permute(p[2], is)>>
DIAGONALIZE_1(r) ==
    [r EXCEPT !.B = Both(@, <<1, 2, 3, 0>>), !.C = Both(@, <<2, 3, 0, 1>>), !.D = Both(@, <<3, 0, 1, 2>>)]
UNDIAGONALIZE_1(r) ==
    [r EXCEPT !.B = Both(@, <<3, 0, 1, 2>>), !.C = Both(@, <<2, 3, 0, 1>>), !.D = Both(@, <<1, 2, 3, 0>>)]

(* _mm256_blend_epi32 with 0xCC and 0x33: the odd words, or the even ones, *)
(* of the second.                                                          *)
Blend(p, parity) == Fixed([l \in DOMAIN p[1] |-> IF l % 2 = parity THEN p[2][l] ELSE p[1][l]])
Blended(p) == Both(<<Blend(p, 1), Blend(p, 0)>>, <<1, 0, 3, 2>>)
DIAGONALIZE_2(r) == [r EXCEPT !.B = Swap(Blended(@)), !.C = Swap(@), !.D = Blended(@)]
UNDIAGONALIZE_2(r) == [r EXCEPT !.B = Blended(@), !.C = Swap(@), !.D = Swap(Blended(@))]

(* Eight words *)
SWAP_HALVES(p) == <<Fixed([l \in 0 .. 7 |-> IF l < 4 THEN p[1][l] ELSE p[2][l - 4]]),
                    Fixed([l \in 0 .. 7 |-> IF l < 4 THEN p[1][l + 4] ELSE p[2][l]])>>
Middle(v) == Fixed([l \in 0 .. 7 |-> v[<<0, 1, 4, 5, 2, 3, 6, 7>>[l + 1]]])
SWAP_QUARTERS(p) == LET h == SWAP_HALVES(p) IN <<Middle(h[1]), Middle(h[2])>>
UNSWAP_QUARTERS(p) == SWAP_HALVES(<<Middle(p[1]), Middle(p[2])>>)
SwapRows(r) ==
    LET ab == [k \in 1 .. 2 |-> SWAP_HALVES(<<r.A[k], r.B[k]>>)]
        cd == [k \in 1 .. 2 |-> SWAP_HALVES(<<r.C[k], r.D[k]>>)]
    IN [A |-> <<ab[1][1], ab[2][1]>>, B |-> <<ab[1][2], ab[2][2]>>,
        C |-> <<cd[1][1], cd[2][1]>>, D |-> <<cd[1][2], cd[2][2]>>]
EachRow(Op(_), r) == [A |-> Op(r.A), B |-> Op(r.B), C |-> Op(r.C), D |-> Op(r.D)]

(* The rounds of each: of registers A0, A1, B0, ..., D1, by their macros. *)
BLAKE2_ROUND_ssse3(r) == UNDIAGONALIZE(GRows(DIAGONALIZE(GRows(r))))
BLAKE2_ROUND_1_avx2(r) == UNDIAGONALIZE_1(GRows(DIAGONALIZE_1(GRows(r))))
BLAKE2_ROUND_2_avx2(r) == UNDIAGONALIZE_2(GRows(DIAGONALIZE_2(GRows(r))))
BLAKE2_ROUND_avx512f(r) == UNDIAGONALIZE_1(GRows(DIAGONALIZE_1(GRows(r))))
BLAKE2_ROUND_1_avx512f(r) == SwapRows(BLAKE2_ROUND_avx512f(SwapRows(r)))
BLAKE2_ROUND_2_avx512f(r) == EachRow(UNSWAP_QUARTERS, BLAKE2_ROUND_avx512f(EachRow(SWAP_QUARTERS, r)))

(* Rounds 0, 1, ... of the registers that at gives for each *)
RoundsOf(n, Round(_), at(_), s) ==
    Loop(LAMBDA t, i : Unrows(t, at(i), Round(Rows(t, at(i)))), s, [i \in 1 .. n |-> i - 1])
Eight(first, step) == [k \in 1 .. 8 |-> first + step * (k - 1)]

mix_ssse3(s) ==
    RoundsOf(8, BLAKE2_ROUND_ssse3, LAMBDA i : Eight(i, 8),
             RoundsOf(8, BLAKE2_ROUND_ssse3, LAMBDA i : Eight(8 * i, 1), s))
mix_avx2(s) ==
    RoundsOf(4, BLAKE2_ROUND_2_avx2, LAMBDA i : Eight(i, 4),
             RoundsOf(4, BLAKE2_ROUND_1_avx2, LAMBDA i : [k \in 1 .. 8 |-> 8 * i + <<0, 4, 1, 5, 2, 6, 3, 7>>[k]], s))
mix_avx512f(s) ==
    RoundsOf(2, BLAKE2_ROUND_2_avx512f, LAMBDA i : Eight(i, 2),
             RoundsOf(2, BLAKE2_ROUND_1_avx512f, LAMBDA i : [k \in 1 .. 8 |-> 8 * i + <<0, 4, 2, 6, 1, 5, 3, 7>>[k]], s))

Registers(n, x) == [i \in 0 .. (QWORDS \div n) - 1 |-> [l \in 0 .. n - 1 |-> x[n * i + l]]]
WordsOf(n, s) == [w \in 0 .. QWORDS - 1 |-> s[w \div n][w % n]]

fill_block_ref(prev, ref) == LET x == XorBlock(ref, prev) IN XorBlock(x, MixRef(x))
fill_block_ssse3(prev, ref) == LET x == XorBlock(prev, ref) IN XorBlock(x, WordsOf(2, mix_ssse3(Registers(2, x))))
fill_block_avx2(prev, ref) == LET x == XorBlock(prev, ref) IN XorBlock(x, WordsOf(4, mix_avx2(Registers(4, x))))
fill_block_avx512f(prev, ref) == LET x == XorBlock(prev, ref) IN XorBlock(x, WordsOf(8, mix_avx512f(Registers(8, x))))

fill_block_with_xor_ref(prev, ref, next) == XorBlock(fill_block_ref(prev, ref), next)
fill_block_with_xor_ssse3(prev, ref, next) == XorBlock(fill_block_ssse3(prev, ref), next)
fill_block_with_xor_avx2(prev, ref, next) == XorBlock(fill_block_avx2(prev, ref), next)
fill_block_with_xor_avx512f(prev, ref, next) == XorBlock(fill_block_avx512f(prev, ref), next)

fill_block(impl, prev, ref) ==
    CASE impl = "ref"     -> fill_block_ref(prev, ref)
      [] impl = "ssse3"   -> fill_block_ssse3(prev, ref)
      [] impl = "avx2"    -> fill_block_avx2(prev, ref)
      [] impl = "avx512f" -> fill_block_avx512f(prev, ref)
fill_block_with_xor(impl, prev, ref, next) ==
    CASE impl = "ref"     -> fill_block_with_xor_ref(prev, ref, next)
      [] impl = "ssse3"   -> fill_block_with_xor_ssse3(prev, ref, next)
      [] impl = "avx2"    -> fill_block_with_xor_avx2(prev, ref, next)
      [] impl = "avx512f" -> fill_block_with_xor_avx512f(prev, ref, next)

-----------------------------------------------------------------------------
(* Filling the memory (argon2-core.c, argon2-fill-block-*.c) *)

ARGON2_SYNC_POINTS == 4

(* Segments of equal length, which may not use all the memory asked for. *)
Instance(ctx, type) ==
    LET parts   == ctx.lanes * ARGON2_SYNC_POINTS
        segment == (IF ctx.m_cost < 2 * parts THEN 2 * parts ELSE ctx.m_cost) \div parts
    IN [passes |-> ctx.t_cost, memory_blocks |-> segment * parts, segment_length |-> segment,
        lane_length |-> segment * ARGON2_SYNC_POINTS, lanes |-> ctx.lanes, type |-> type]

(* Mutant: in a later pass the block before the current one is counted. *)
index_alpha_previous(inst, pos, rand, same) ==
    LET beside   == IF same THEN pos.index - 1 ELSE IF pos.index = 0 THEN -1 ELSE 0
        finished == (IF pos.pass = 0 THEN pos.slice ELSE ARGON2_SYNC_POINTS - 1) * inst.segment_length
        size     == IF pos.pass = 0 THEN finished + beside ELSE finished + beside + 1
        squared  == (rand * rand) \div 2 ^ RandBits
        start    == IF pos.pass = 0 \/ pos.slice = ARGON2_SYNC_POINTS - 1 THEN 0
                    ELSE (pos.slice + 1) * inst.segment_length
    IN ((start + size - 1) - ((size * squared) \div 2 ^ RandBits)) % inst.lane_length

index_alpha(inst, pos, rand, same) ==
    LET beside   == IF same THEN pos.index - 1 ELSE IF pos.index = 0 THEN -1 ELSE 0
        finished == (IF pos.pass = 0 THEN pos.slice ELSE ARGON2_SYNC_POINTS - 1) * inst.segment_length
        size     == finished + beside
        squared  == (rand * rand) \div 2 ^ RandBits
        start    == IF pos.pass = 0 \/ pos.slice = ARGON2_SYNC_POINTS - 1 THEN 0
                    ELSE (pos.slice + 1) * inst.segment_length
    IN ((start + size - 1) - ((size * squared) \div 2 ^ RandBits)) % inst.lane_length

(* The counter is stepped before each block of addresses. *)
generate_addresses(inst, pos) ==
    LET step(r, i) ==
            LET counter == r.counter + 1
            IN IF i % ADDRESSES_IN_BLOCK # 0
               THEN [r EXCEPT !.rands = Append(@, WordOf(r.block, i % ADDRESSES_IN_BLOCK))]
               ELSE LET block == Address(<<pos.pass, pos.lane, pos.slice, inst.memory_blocks, inst.passes,
                                           inst.type, counter>>)
                    IN [counter |-> counter, block |-> block, rands |-> Append(r.rands, WordOf(block, 0))]
    IN Loop(step, [counter |-> 0, block |-> 0, rands |-> <<>>], [i \in 1 .. inst.segment_length |-> i - 1]).rands

Independent(inst, pos) == inst.type = 1 \/ (pos.pass = 0 /\ pos.slice < ARGON2_SYNC_POINTS \div 2)

(* The block before, which the vector code keeps in its registers and the  *)
(* reference code reads from the memory again.                             *)
FillSegment(inst, pos, memory, kept) ==
    LET first   == IF pos.pass = 0 /\ pos.slice = 0 THEN 2 ELSE 0
        start   == pos.lane * inst.lane_length + pos.slice * inst.segment_length
        opening == IF (start + first) % inst.lane_length = 0 THEN start + inst.lane_length - 1 ELSE start + first - 1
        rands   == IF Independent(inst, pos) THEN generate_addresses(inst, pos) ELSE <<>>
        lane(rand) == IF pos.pass = 0 /\ pos.slice = 0 THEN pos.lane ELSE rand[2] % inst.lanes
        from(i, rand, l) == l * inst.lane_length + index_alpha(inst, [pos EXCEPT !.index = i], rand[1], l = pos.lane)
        chosen(i, rand) == from(i, rand, lane(rand))
        block(r, i, prev) ==
            Compress(IF kept THEN r.state ELSE r.memory[prev],
                     r.memory[chosen(i, IF Independent(inst, pos) THEN rands[i + 1] ELSE WordOf(r.memory[prev], 0))])
        next(r, curr, b) == IF pos.pass = 0 THEN b ELSE XorBlocks(b, r.memory[curr])
        written(r, curr, prev, b) == [memory |-> [r.memory EXCEPT ![curr] = b], prev |-> prev + 1, state |-> b]
        made(r, i, curr, prev) == written(r, curr, prev, next(r, curr, block(r, i, prev)))
        step(r, i) == made(r, i, start + i, IF (start + i) % inst.lane_length = 1 THEN start + i - 1 ELSE r.prev)
    IN Loop(step, [memory |-> memory, prev |-> opening, state |-> memory[opening]],
            [k \in 1 .. inst.segment_length - first |-> first + k - 1]).memory

argon2_fill_segment_ref(inst, pos, memory) == FillSegment(inst, pos, memory, FALSE)
argon2_fill_segment_ssse3(inst, pos, memory) == FillSegment(inst, pos, memory, TRUE)
argon2_fill_segment_avx2(inst, pos, memory) == FillSegment(inst, pos, memory, TRUE)
argon2_fill_segment_avx512f(inst, pos, memory) == FillSegment(inst, pos, memory, TRUE)

argon2_pick_best_implementation(features) ==
    IF "avx512f" \in features THEN "avx512f" ELSE IF "avx2" \in features THEN "avx2"
    ELSE IF "ssse3" \in features THEN "ssse3" ELSE "ref"

fill_segment(impl, inst, pos, memory) ==
    CASE impl = "ref"     -> argon2_fill_segment_ref(inst, pos, memory)
      [] impl = "ssse3"   -> argon2_fill_segment_ssse3(inst, pos, memory)
      [] impl = "avx2"    -> argon2_fill_segment_avx2(inst, pos, memory)
      [] impl = "avx512f" -> argon2_fill_segment_avx512f(inst, pos, memory)

(* The segments of a slice one lane after the other, slice by slice *)
argon2_fill_memory_blocks(inst, pass, memory, impl) ==
    Loop(LAMBDA m, k : fill_segment(impl, inst, [pass |-> pass, slice |-> k \div inst.lanes, lane |-> k % inst.lanes,
                                                 index |-> 0], m),
         memory, [k \in 1 .. ARGON2_SYNC_POINTS * inst.lanes |-> k - 1])

ARGON2_VERSION_NUMBER == 19

argon2_initial_hash(ctx, type) ==
    <<ctx.lanes, ctx.outlen, ctx.m_cost, ctx.t_cost, ARGON2_VERSION_NUMBER, type>>
    \o <<ctx.pwd.len, ctx.pwd.val, Len(ctx.salt)>> \o ctx.salt \o <<0, 0>>

(* The rest is not read before it is written. *)
argon2_fill_first_blocks(inst, hash) ==
    Fixed([o \in 0 .. inst.memory_blocks - 1 |->
              IF o % inst.lane_length < 2 THEN FirstBlock(hash, o \div inst.lane_length, o % inst.lane_length) ELSE 0])

(* The tag: the hash, of a length, of the last blocks. *)
argon2_finalize(ctx, inst, memory) ==
    Spread(ctx.outlen, Loop(LAMBDA b, l : XorBlocks(b, memory[l * inst.lane_length + inst.lane_length - 1]),
                            memory[inst.lane_length - 1], [l \in 1 .. inst.lanes - 1 |-> l]))

Filled(ctx, type, impl) ==
    LET inst == Instance(ctx, type)
    IN argon2_finalize(ctx, inst,
           Loop(LAMBDA m, pass : argon2_fill_memory_blocks(inst, pass, m, impl),
                argon2_fill_first_blocks(inst, argon2_initial_hash(ctx, type)), [p \in 1 .. inst.passes |-> p - 1]))

(* BLAKE2b of any length (blake2b-long.c).  A hash is its length and what  *)
(* it is of, a byte its place in one.                                      *)
BytesOf(hash, n) == [i \in 1 .. n |-> <<hash, i>>]

blake2b_long(outlen, in) ==
    LET half  == BLAKE_MAX \div 2
        first == <<BLAKE_MAX, <<outlen, in>> >>
        step(t, k) ==
            IF t.toproduce <= BLAKE_MAX THEN t
            ELSE LET next == <<BLAKE_MAX, t.buffer>>
                 IN [out |-> t.out \o BytesOf(next, half), buffer |-> next, toproduce |-> t.toproduce - half]
        r == Loop(step, [out |-> BytesOf(first, half), buffer |-> first, toproduce |-> outlen - half],
                  [k \in 1 .. outlen |-> k])
    IN IF outlen <= BLAKE_MAX THEN BytesOf(<<outlen, <<outlen, in>> >>, outlen)
       ELSE r.out \o BytesOf(<<r.toproduce, r.buffer>>, r.toproduce)

-----------------------------------------------------------------------------
(* One hash: the checks, the allocations, the tag (argon2.c).  The heap:   *)
(* how much was asked for, which request fails, what is allocated, what    *)
(* was freed and whether something was freed again.                        *)
Heap(failing) == [asked |-> 0, failing |-> failing, live |-> {}, gone |-> {}, twice |-> FALSE]
Malloc(heap, name) ==
    [heap EXCEPT !.asked = @ + 1, !.live = IF heap.asked + 1 = heap.failing THEN @ ELSE @ \union {name}]
Free(heap, names) ==
    [heap EXCEPT !.live = @ \ names, !.gone = @ \union (names \intersect heap.live),
                 !.twice = @ \/ names \intersect heap.gone # {}]

argon2_validate_inputs(ctx) ==
    LET tests == << <<ctx.outlen >= 16, "OUTPUT_TOO_SHORT">>, <<ctx.outlen <= UINT32_MAX, "OUTPUT_TOO_LONG">>,
                    <<ctx.pwd.len <= UINT32_MAX, "PWD_TOO_LONG">>,
                    <<Len(ctx.salt) >= 8, "SALT_TOO_SHORT">>, <<Len(ctx.salt) <= UINT32_MAX, "SALT_TOO_LONG">>,
                    <<ctx.lanes >= 1, "LANES_TOO_FEW">>, <<ctx.lanes <= ARGON2_MAX_LANES, "LANES_TOO_MANY">>,
                    <<ctx.m_cost >= 2 * ARGON2_SYNC_POINTS, "MEMORY_TOO_LITTLE">>,
                    <<ctx.m_cost <= UINT32_MAX, "MEMORY_TOO_MUCH">>, <<ctx.m_cost >= 8 * ctx.lanes, "MEMORY_TOO_LITTLE">>,
                    <<ctx.t_cost >= 1, "TIME_TOO_SMALL">>, <<ctx.t_cost <= UINT32_MAX, "TIME_TOO_LARGE">> >>
        failing == SelectSeq(tests, LAMBDA t : ~t[1])
    IN IF failing = <<>> THEN "OK" ELSE failing[1][2]

(* The region, when both its parts are there; otherwise NULL. *)
allocate_memory(heap) ==
    LET both(region, base) ==
            IF "region" \notin region.live THEN [heap |-> region, region |-> FALSE]
            ELSE IF "base" \notin base.live THEN [heap |-> Free(base, {"region"}), region |-> FALSE]
            ELSE [heap |-> base, region |-> TRUE]
        asked(region) == Only({both(region, base) : base \in {Malloc(region, "base")}})
    IN Only({asked(region) : region \in {Malloc(heap, "region")}})

argon2_free_instance(heap, region) == Free(heap, {"pseudo_rands"} \union (IF region THEN {"region", "base"} ELSE {}))

argon2_initialize(heap) ==
    LET checked(r) == IF r.region THEN r ELSE [r EXCEPT !.heap = argon2_free_instance(r.heap, FALSE)]
        asked(h) == IF "pseudo_rands" \notin h.live THEN [heap |-> h, region |-> FALSE]
                    ELSE Only({checked(r) : r \in {allocate_memory(h)}})
    IN Only({asked(h) : h \in {Malloc(heap, "pseudo_rands")}})

Tagged(r, ctx, type, impl) ==
    IF ~r.region THEN [ret |-> "MEMORY_ALLOCATION_ERROR", heap |-> r.heap]
    ELSE [ret |-> "OK", heap |-> argon2_free_instance(r.heap, TRUE), tag |-> Filled(ctx, type, impl)]

argon2_ctx(heap, ctx, type, impl) ==
    LET valid == argon2_validate_inputs(ctx)
    IN IF valid # "OK" THEN [ret |-> valid, heap |-> heap]
       ELSE IF type \notin {1, 2} THEN [ret |-> "INCORRECT_TYPE", heap |-> heap]
       ELSE Only({Tagged(r, ctx, type, impl) : r \in {argon2_initialize(heap)}})


-----------------------------------------------------------------------------
Features == SUBSET {"ssse3", "avx2", "avx512f"}

AskArgon2 ==
    \/ \E x, y \in MixWords, features \in Features : Ask([fn |-> "mix", prev |-> x, ref |-> y, features |-> features])
    \/ \E m \in Fillings, t \in 1 .. 3, lanes \in 1 .. 2, type \in 1 .. 2,
          features \in {{}, {"ssse3"}, {"avx2"}, {"avx512f"}} :
          /\ m >= 8 * lanes
          /\ Ask([fn |-> "fill", m_cost |-> m, t_cost |-> t, lanes |-> lanes, type |-> type, features |-> features])
    \/ \E n \in LongLengths : Ask([fn |-> "blake2b_long", n |-> n])

Impl == argon2_pick_best_implementation(call.features)
Filling == [outlen |-> 32, pwd |-> [len |-> 3, val |-> 1], salt |-> Salt,
            lanes |-> call.lanes, m_cost |-> call.m_cost, t_cost |-> call.t_cost]

AnswerArgon2 ==
    \/ /\ Called("mix")
       /\ Answer([plain |-> fill_block(Impl, call.prev, call.ref),
                  xored |-> fill_block_with_xor(Impl, call.prev, call.ref, call.prev)])
    \/ Called("fill") /\ Answer([tag |-> Filled(Filling, call.type, Impl)])
    \/ Called("blake2b_long") /\ Answer([out |-> blake2b_long(call.n, 0)])

-----------------------------------------------------------------------------
(* What RFC 9106 defines.  Mixing: a permutation of sixteen words, of each *)
(* row and then each column of eight times eight pairs of words.           *)
PermutedWords(v) ==
    LET cols  == Fixed([c \in 0 .. 3 |-> G(<<v[c], v[4 + c], v[8 + c], v[12 + c]>>)])
        w     == Fixed([k \in 0 .. 15 |-> cols[k % 4][(k \div 4) + 1]])
        diags == Fixed([c \in 0 .. 3 |-> G(<<w[c], w[4 + ((c + 1) % 4)], w[8 + ((c + 2) % 4)], w[12 + ((c + 3) % 4)]>>)])
    IN Fixed([k \in 0 .. 15 |-> diags[(k - (k \div 4)) % 4][(k \div 4) + 1]])
MixedBlock(x) ==
    LET q    == Fixed([i \in 0 .. 7 |-> PermutedWords([k \in 0 .. 15 |-> x[16 * i + k]])])
        z    == Fixed([i \in 0 .. 7 |-> PermutedWords([k \in 0 .. 15 |-> q[k \div 2][2 * i + (k % 2)]])])
    IN Fixed([w \in 0 .. QWORDS - 1 |-> z[(w % 16) \div 2][2 * (w \div 16) + (w % 2)]])

(* Filling, by the time at which a block is made: of the block before it   *)
(* and one of the last three segments and, in the same lane, this one; the *)
(* newest of them is left out, and so is the newest of another lane that   *)
(* may not be finished.                                                    *)
BlockAt(h, lane, t, inst) ==
    LET q       == inst.lane_length
        index   == (t % q) % inst.segment_length
        pos     == [pass |-> t \div q, slice |-> (t % q) \div inst.segment_length]
        rand    == IF Independent(inst, pos)
                   THEN WordOf(Address(<<pos.pass, lane, pos.slice, inst.memory_blocks, inst.passes, inst.type,
                                         1 + (index \div ADDRESSES_IN_BLOCK)>>), index % ADDRESSES_IN_BLOCK)
                   ELSE WordOf(h[lane][t - 1], 0)
        other   == IF t < inst.segment_length THEN lane ELSE rand[2] % inst.lanes
        oldest  == Max({0, (t - index) - 3 * inst.segment_length})
        newest  == IF other = lane THEN t - 2 ELSE IF index = 0 THEN t - 2 ELSE (t - index) - 1
        n       == (newest - oldest) + 1
        chosen  == newest - ((n * ((rand[1] * rand[1]) \div 2 ^ RandBits)) \div 2 ^ RandBits)
        block   == Compress(h[lane][t - 1], h[other][chosen])
    IN IF t < q THEN block ELSE XorBlocks(block, h[lane][t - q])
TagByTime(ctx, type) ==
    LET inst  == Instance(ctx, type)
        hash  == argon2_initial_hash(ctx, type)
        h     == Loop(LAMBDA f, t : Fixed([lane \in 0 .. inst.lanes - 1 |-> (t :> BlockAt(f, lane, t, inst)) @@ f[lane]]),
                      [lane \in 0 .. inst.lanes - 1 |-> [t \in 0 .. 1 |-> FirstBlock(hash, lane, t)]],
                      [k \in 1 .. inst.passes * inst.lane_length - 2 |-> k + 1])
        last  == inst.passes * inst.lane_length - 1
    IN Spread(ctx.outlen, IF inst.lanes = 1 THEN h[0][last] ELSE XorBlocks(h[0][last], h[1][last]))

(* The first halves of a chain of hashes, and the whole of the last one,   *)
(* which is cut to what is missing.                                        *)
LongHash(n, in) ==
    LET half == BLAKE_MAX \div 2
        r    == ((n + half - 1) \div half) - 2
        chain[k \in 1 .. n] == IF k = 1 THEN <<BLAKE_MAX, <<n, in>> >> ELSE <<BLAKE_MAX, chain[k - 1]>>
    IN IF n <= BLAKE_MAX THEN [j \in 1 .. n |-> <<<<n, <<n, in>> >>, j>>]
       ELSE [j \in 1 .. n |-> IF j <= half * r THEN <<chain[((j - 1) \div half) + 1], ((j - 1) % half) + 1>>
                              ELSE <<<<n - half * r, chain[r]>>, j - half * r>>]

(* Argon2 as RFC 9106 defines it: whatever the processor, blocks are mixed *)
(* alike; each block is made of the block before it and the one chosen     *)
(* among those the RFC allows, with the memory's one copy of each lane     *)
(* overwritten pass by pass; hashes longer than BLAKE2b's are chained.     *)
Argon2Standard ==
    /\ Answered({"mix"}) =>
          /\ answer.plain = XorBlock(XorBlock(call.prev, call.ref), MixedBlock(XorBlock(call.prev, call.ref)))
          /\ answer.xored = XorBlock(answer.plain, call.prev)
    /\ Answered({"fill"}) => answer.tag = TagByTime(Filling, call.type)
    /\ Answered({"blake2b_long"}) => answer.out = LongHash(call.n, 0)
=============================================================================
