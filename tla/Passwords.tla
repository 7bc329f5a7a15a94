------------------------------ MODULE Passwords ------------------------------
(***************************************************************************)
(* Passwords hashed with argon2: the functions of crypto_pwhash, with the  *)
(* strings they make and read and the allocations that may fail.           *)
(*                                                                         *)
(* A string is a sequence of texts, which are of one or more characters,   *)
(* and of digits and other characters: those of data in Base64, which the  *)
(* functions of Codecs write and read.                                     *)
(***************************************************************************)
EXTENDS Argon2, Codecs

CONSTANTS ULONG_MAX, Memlimits, MEMLIMIT_MAX,
          STRBYTES,              \* room for a string, 128 in the code
          Numerals               \* sequences of digits

-----------------------------------------------------------------------------
(* The strings (argon2-encoding.c): sequences of texts, decimal digits and *)
(* other characters of data in Base64.                                     *)
Text(t) == <<t>>
Digit(d) == <<"digit", d>>
Character(c) == <<"char", c>>
IsDigit(token) == token[1] = "digit"
IsCharacter(token) == token[1] \in {"digit", "char"}
Size(token) == IF IsCharacter(token) THEN 1 ELSE Len(token[1])
strlen(s) == FoldLeft(LAMBDA n, token : n + Size(token), 0, s)

Code(token) == IF IsDigit(token) THEN 48 + token[2] ELSE token[2]
Token(c) == IF c \in 48 .. 57 THEN Digit(c - 48) ELSE Character(c)

NoPadding == [url |-> FALSE, padded |-> FALSE]
Base64(bytes) == FoldLeft(LAMBDA s, c : Append(s, Token(c)), <<>>, sodium_bin2base64(bytes, NoPadding))

Prefix(type) == <<Text("$argon2"), Text(<<"i", "id">>[type])>>
Dollar == <<Text("$")>>

(* Mutant: zeros before the first digit are read. *)
decode_decimal_padded(s) ==
    LET n == Cardinality({k \in 1 .. Len(s) : \A j \in 1 .. k : IsDigit(s[j])})
        step(acc, d) == IF acc = -1 \/ acc > ULONG_MAX \div 10 \/ d > ULONG_MAX - acc * 10 THEN -1 ELSE acc * 10 + d
        acc == FoldLeft(step, 0, [k \in 1 .. n |-> s[k][2]])
    IN [v |-> IF n = 0 THEN -1 ELSE acc, rest |-> SubSeq(s, n + 1, Len(s))]

(* -1: no digit, too large, or zeros before the first digit. *)
decode_decimal(s) ==
    LET n == Cardinality({k \in 1 .. Len(s) : \A j \in 1 .. k : IsDigit(s[j])})
        step(acc, d) == IF acc = -1 \/ acc > ULONG_MAX \div 10 \/ d > ULONG_MAX - acc * 10 THEN -1 ELSE acc * 10 + d
        acc == FoldLeft(step, 0, [k \in 1 .. n |-> s[k][2]])
    IN [v |-> IF n = 0 \/ (n > 1 /\ s[1][2] = 0) THEN -1 ELSE acc, rest |-> SubSeq(s, n + 1, Len(s))]

U32_STR_MAXSIZE == 11

u32_to_string(x) ==
    LET step(t, k) == IF t.x = 0 /\ t.tmp # <<>> THEN t
                      ELSE [tmp |-> <<Digit(t.x % 10)>> \o t.tmp, x |-> t.x \div 10]
    IN FoldLeft(step, [tmp |-> <<>>, x |-> x], [k \in 1 .. U32_STR_MAXSIZE - 1 |-> k]).tmp

(* Reading goes on while ret is "OK": a fixed text, a number, or data.  The *)
(* version must be this one.                                               *)
CC(r, texts) ==
    IF Len(r.str) < Len(texts) \/ SubSeq(r.str, 1, Len(texts)) # texts THEN [r EXCEPT !.ret = "DECODING_FAIL"]
    ELSE [r EXCEPT !.str = SubSeq(@, Len(texts) + 1, Len(@))]
DECIMAL_U32(r, field, d) ==
    IF d.v = -1 \/ d.v > UINT32_MAX THEN [r EXCEPT !.ret = "DECODING_FAIL"]
    ELSE [r EXCEPT !.str = d.rest, !.ctx[field] = d.v,
                   !.ret = IF field = "version" /\ d.v # ARGON2_VERSION_NUMBER THEN "INCORRECT_TYPE" ELSE @]

(* The decoder of Base64 is given the whole string and stops where it can  *)
(* go no further, at the latest at a text: those that may come after data  *)
(* begin with no character of the alphabet.                                *)
Characters(str) ==
    LET text == SelectInSeq(str, LAMBDA token : ~IsCharacter(token))
    IN [k \in 1 .. (IF text = 0 THEN Len(str) ELSE text - 1) |-> Code(str[k])]
BIN(r, field, max) ==
    Only({IF d.ret # 0 \/ Len(d.bin) > UINT32_MAX THEN [r EXCEPT !.ret = "DECODING_FAIL"]
          ELSE [r EXCEPT !.str = SubSeq(@, d.pos + 1, Len(@)), !.ctx[field] = d.bin]
          : d \in {sodium_base642bin(Characters(r.str), max, {}, TRUE, NoPadding)}})

argon2_decode_string(str, pwdlen, max, type) ==
    LET ctx == [version |-> 0, m_cost |-> 0, t_cost |-> 0, lanes |-> 0, pwd |-> [len |-> pwdlen, val |-> 0],
                salt |-> <<>>, out |-> <<>>, outlen |-> 0]
        parts == << <<"text", "", Prefix(type)>>, <<"text", "", Dollar \o <<Text("v=")>> >>, <<"u32", "version", <<>> >>,
                    <<"text", "", Dollar \o <<Text("m=")>> >>, <<"u32", "m_cost", <<>> >>,
                    <<"text", "", <<Text(",t=")>> >>, <<"u32", "t_cost", <<>> >>,
                    <<"text", "", <<Text(",p=")>> >>, <<"u32", "lanes", <<>> >>,
                    <<"text", "", Dollar>>, <<"bin", "salt", <<>> >>, <<"text", "", Dollar>>, <<"bin", "out", <<>> >> >>
        read(r, part) == IF r.ret # "OK" THEN r ELSE IF part[1] = "text" THEN CC(r, part[3])
                         ELSE IF part[1] = "u32"
                         THEN Only({DECIMAL_U32(r, part[2], d) : d \in {decode_decimal(r.str)}})
                         ELSE BIN(r, part[2], max)
        ended(r, valid) == IF r.ret # "OK" THEN r ELSE IF valid # "OK" THEN [r EXCEPT !.ret = valid]
                           ELSE IF r.str # <<>> THEN [r EXCEPT !.ret = "DECODING_FAIL"] ELSE r
        sized(r) == [r EXCEPT !.ctx.outlen = Len(r.ctx.out)]
    IN Only({ended(s[1], s[2])
             : s \in {<<sized(r), argon2_validate_inputs(sized(r).ctx)>>
                       : r \in {Loop(read, [ret |-> "OK", str |-> str, ctx |-> ctx], parts)}}})

(* A text must leave room for the byte that ends the string; where data    *)
(* does not, sodium_bin2base64 makes it a misuse, which stops the program. *)
Put(t, piece) == [t EXCEPT !.str = @ \o piece, !.room = @ - strlen(piece)]
SS(t, piece) ==
    IF t.ret # "OK" THEN t ELSE IF strlen(piece) >= t.room THEN [t EXCEPT !.ret = "ENCODING_FAIL"] ELSE Put(t, piece)
SB(t, bytes) ==
    IF t.ret # "OK" THEN t
    ELSE IF encoded_len(Len(bytes), NoPadding) > t.room THEN [t EXCEPT !.ret = "misuse"] ELSE Put(t, Base64(bytes))

argon2_encode_string(room, ctx, type) ==
    LET begun   == [ret |-> "OK", str |-> <<>>, room |-> room]
        numbers == <<u32_to_string(ARGON2_VERSION_NUMBER), Dollar \o <<Text("m=")>>, u32_to_string(ctx.m_cost),
                     <<Text(",t=")>>, u32_to_string(ctx.t_cost), <<Text(",p=")>>, u32_to_string(ctx.lanes)>>
        checked(t) == IF t.ret = "OK" THEN [t EXCEPT !.ret = argon2_validate_inputs(ctx)] ELSE t
        opened == Only({checked(t) : t \in {SS(begun, Prefix(type) \o Dollar \o <<Text("v=")>>)}})
        data(t, bytes) == Only({SB(d, bytes) : d \in {SS(t, Dollar)}})
    IN Loop(data, Loop(SS, opened, numbers), <<ctx.salt, ctx.out>>)

Cleared  == <<>>     \* an output that was cleared,
Random == <<-1>>     \* filled with random bytes,
Untouched == <<-2>>  \* or left as it was

(* A hash to keep, or to be written as a string when there is room for one *)
Failed(hash, ret, heap) == [ret |-> ret, heap |-> heap, hash |-> IF hash THEN Random ELSE Cleared, encoded |-> <<>>]

HashKept(r, ctx, hash, encodedlen, type) ==
    LET left == Free(r.heap, {"hashed"})
        written(e) == IF e.ret = "misuse" THEN Failed(hash, "misuse", r.heap)
                      ELSE IF e.ret # "OK" THEN Failed(hash, "ENCODING_FAIL", left)
                      ELSE [ret |-> "OK", heap |-> left, hash |-> IF hash THEN r.tag ELSE Cleared, encoded |-> e.str]
    IN IF r.ret # "OK" THEN Failed(hash, r.ret, left)
       ELSE Only({written(e) : e \in {IF encodedlen = 0 THEN [ret |-> "OK", str |-> <<>>]
                                      ELSE argon2_encode_string(encodedlen, [out |-> r.tag] @@ ctx, type)}})

argon2_hash(heap, ctx, hash, encodedlen, type, impl) ==
    IF ctx.pwd.len > UINT32_MAX THEN Failed(hash, "PWD_TOO_LONG", heap)
    ELSE IF ctx.outlen > UINT32_MAX THEN Failed(hash, "OUTPUT_TOO_LONG", heap)
    ELSE IF Len(ctx.salt) > UINT32_MAX THEN Failed(hash, "SALT_TOO_LONG", heap)
    ELSE Only({IF "hashed" \notin h.live THEN Failed(hash, "MEMORY_ALLOCATION_ERROR", h)
               ELSE Only({HashKept(r, ctx, hash, encodedlen, type) : r \in {argon2_ctx(h, ctx, type, impl)}})
               : h \in {Malloc(heap, "hashed")}})

Compared(r, out) ==
    [ret |-> IF r.ret = "OK" /\ r.hash # out THEN "VERIFY_MISMATCH" ELSE r.ret,
     heap |-> Free(Free(r.heap, {"ad", "salt"}), {"again", "out"})]

Unverified(ret, heap) == [ret |-> ret, heap |-> Free(heap, {"ad", "salt", "out"})]

argon2_verify(heap, encoded, pwd, type, impl) ==
    IF strlen(encoded) > UINT32_MAX THEN [ret |-> "DECODING_LENGTH_FAIL", heap |-> heap]
    ELSE Only({IF ~({"ad", "salt", "out"} \subseteq inputs.live) THEN Unverified("MEMORY_ALLOCATION_ERROR", inputs)
               ELSE Only({IF "again" \notin h.live THEN Unverified("MEMORY_ALLOCATION_ERROR", h)
                          ELSE Only({IF d.ret # "OK" THEN Unverified(d.ret, Free(h, {"again"}))
                                     ELSE Only({Compared(r, d.ctx.out)
                                                : r \in {argon2_hash(h, [d.ctx EXCEPT !.pwd = pwd], TRUE, 0, type, impl)}})
                                     : d \in {argon2_decode_string(encoded, 0, strlen(encoded), type)}})
                          : h \in {Malloc(inputs, "again")}})
               : inputs \in {Malloc(Malloc(Malloc(heap, "ad"), "salt"), "out")}})

-----------------------------------------------------------------------------
(* crypto_pwhash (pwhash_argon2i.c, pwhash_argon2id.c, crypto_pwhash.c).   *)
(* An algorithm is 1 (argon2i) or 2 (argon2id), and a type likewise.  The  *)
(* functions of a type are one with the type as an argument.               *)
OPSLIMIT_MIN == <<3, 1>>
MEMLIMIT_MIN == 8192
STR_HASHBYTES == 32

(* The arguments are too large, too small or in their ranges. *)
Ranges(c, type) ==
    IF c.pwd.len > UINT32_MAX \/ c.ops > UINT32_MAX \/ c.mem > MEMLIMIT_MAX THEN "EFBIG"
    ELSE IF c.ops < OPSLIMIT_MIN[type] \/ c.mem < MEMLIMIT_MIN THEN "EINVAL"
    ELSE ""

Context(c, outlen) ==
    [outlen |-> outlen, pwd |-> c.pwd, salt |-> Salt, lanes |-> 1,
     m_cost |-> c.mem \div 1024, t_cost |-> c.ops]

(* The output is cleared first: a password in its place is lost. *)
PwhashOf(heap, c, type, impl) ==
    LET refused(errno) == [ret |-> -1, errno |-> errno, out |-> Cleared, heap |-> heap]
        answered(r) == [ret |-> IF r.ret = "OK" THEN 0 ELSE -1, errno |-> "", out |-> r.hash, heap |-> r.heap]
    IN IF c.outlen > UINT32_MAX THEN refused("EFBIG")
       ELSE IF c.outlen < 16 THEN refused("EINVAL")
       ELSE IF Ranges(c, type) # "" THEN refused(Ranges(c, type))
       ELSE IF c.same \/ c.alg # type THEN refused("EINVAL")
       ELSE Only({answered(r) : r \in {argon2_hash(heap, Context(c, c.outlen), TRUE, 0, type, impl)}})
crypto_pwhash_argon2i(heap, c, impl) == PwhashOf(heap, c, 1, impl)
crypto_pwhash_argon2id(heap, c, impl) == PwhashOf(heap, c, 2, impl)
crypto_pwhash(heap, c, impl) ==
    IF c.alg \in {1, 2} THEN PwhashOf(heap, c, c.alg, impl)
    ELSE [ret |-> -1, errno |-> "EINVAL", out |-> Untouched, heap |-> heap]

(* The salt is drawn.  An algorithm that is not known is a misuse, which   *)
(* stops the program, and STRBYTES leaves room for any string.             *)
StrOf(heap, c, type, impl) ==
    LET answered(r) == [ret |-> IF r.ret = "OK" THEN 0 ELSE IF r.ret = "misuse" THEN "misuse" ELSE -1, errno |-> "",
                        str |-> r.encoded, heap |-> r.heap]
    IN IF Ranges(c, type) # "" THEN [ret |-> -1, errno |-> Ranges(c, type), str |-> <<>>, heap |-> heap]
       ELSE Only({answered(r) : r \in {argon2_hash(heap, Context(c, STR_HASHBYTES), FALSE, STRBYTES, type, impl)}})
crypto_pwhash_str_alg(heap, c, impl) == StrOf(heap, c, c.alg, impl)

StrVerifyOf(heap, str, pwd, type, impl) ==
    LET answered(r) == [ret |-> IF r.ret = "OK" THEN 0 ELSE -1, heap |-> r.heap,
                        errno |-> IF r.ret = "VERIFY_MISMATCH" THEN "EINVAL" ELSE ""]
    IN IF pwd.len > UINT32_MAX THEN [ret |-> -1, errno |-> "EFBIG", heap |-> heap]
       ELSE Only({answered(r) : r \in {argon2_verify(heap, str, pwd, type, impl)}})

Starts(str, type) == Len(str) >= 3 /\ SubSeq(str, 1, 3) = Prefix(type) \o Dollar
crypto_pwhash_str_verify(heap, str, pwd, impl) ==
    IF Starts(str, 1) \/ Starts(str, 2) THEN StrVerifyOf(heap, str, pwd, IF Starts(str, 2) THEN 2 ELSE 1, impl)
    ELSE [ret |-> -1, errno |-> "EINVAL", heap |-> heap]

needs_rehash(heap, str, ops, mem, type) ==
    LET compared(d, m) == IF d.ret # "OK" THEN -1 ELSE IF d.ctx.t_cost # ops \/ d.ctx.m_cost # m THEN 1 ELSE 0
    IN IF ops > UINT32_MAX \/ mem \div 1024 > UINT32_MAX \/ strlen(str) >= STRBYTES THEN [ret |-> -1, heap |-> heap]
       ELSE Only({IF "fodder" \notin h.live THEN [ret |-> -1, heap |-> h]
                  ELSE [ret |-> Only({compared(d, mem \div 1024)
                                      : d \in {argon2_decode_string(str, strlen(str), strlen(str), type)}}),
                        heap |-> Free(h, {"fodder"})]
                  : h \in {Malloc(heap, "fodder")}})
crypto_pwhash_str_needs_rehash(heap, str, ops, mem) ==
    IF Starts(str, 1) \/ Starts(str, 2) THEN needs_rehash(heap, str, ops, mem, IF Starts(str, 2) THEN 2 ELSE 1)
    ELSE [ret |-> -1, heap |-> heap]

-----------------------------------------------------------------------------
Password == [len |-> 3, val |-> 1]
WrittenContext(type) ==
    LET ctx == [outlen |-> 32, pwd |-> Password, salt |-> Salt, lanes |-> 2, m_cost |-> 16, t_cost |-> 2]
    IN [out |-> Filled(ctx, type, "ref")] @@ ctx
WrittenStrings == {argon2_encode_string(STRBYTES, WrittenContext(type), type).str : type \in 1 .. 2}

(* Strings without a version; with a piece missing, doubled, changed or    *)
(* added, anywhere before the data, at its ends and where it has a '/'.    *)
(* 195 begins a character of two bytes, 61 is the sign of padding.         *)
Unversioned(s) == SubSeq(s, 1, 2) \o SubSeq(s, 7, Len(s))
Spots(s) ==
    {k \in 1 .. Len(s) : \/ k <= 20 \/ k >= Len(s) - 2 \/ s[k] = Character(47)
                        \/ \E j \in k - 2 .. k + 2 : s[j] = Text("$")}
SpoiledAt(s, k) ==
    {SubSeq(s, 1, k - 1) \o piece \o SubSeq(s, k + 1, Len(s)) :
        piece \in {<<>>, <<Digit(0)>>, <<Digit(9), Digit(9), Digit(9), Digit(9)>>, <<s[k], s[k]>>, Dollar,
                   <<Digit(0), s[k]>>, <<Character(195)>>, <<Character(61)>>, <<Character(81)>>,
                   <<s[k], Character(61)>>, <<s[k], Text(",")>>}}
Spoiled ==
    UNION {{Unversioned(s)} \union UNION {SpoiledAt(s, k) : k \in Spots(s)} : s \in WrittenStrings}

AskPassword ==
    \/ \E s \in Numerals : Ask([fn |-> "numeral", s |-> s])
    \/ \E outlen \in {15, 16, UINT32_MAX + 1}, n \in {0, UINT32_MAX + 1}, ops \in {0, 1, 3, UINT32_MAX + 1},
          mem \in Memlimits, alg, via \in 0 .. 2, same \in BOOLEAN, failing \in 0 .. 4 :
          /\ failing = 0 \/ (n = 0 /\ ops = 3 /\ ~same)
          /\ Ask([fn |-> "pwhash", outlen |-> outlen, pwd |-> [len |-> n, val |-> 1], ops |-> ops, mem |-> mem,
                  alg |-> alg, via |-> via, same |-> same, failing |-> failing])
    \/ \E ops, again \in {1, 3, 4}, mem, mem2 \in Memlimits, alg, other \in 1 .. 2, failing \in 0 .. 8 :
          /\ failing = 0 \/ (again = ops /\ mem2 = mem)
          /\ Ask([fn |-> "pwstr", pwd |-> Password, other |-> [Password EXCEPT !.val = other], ops |-> ops,
                  again |-> again, mem |-> mem, mem2 |-> mem2, alg |-> alg, failing |-> failing])
    \/ \E type \in 1 .. 2 : \E ctx \in {WrittenContext(type)}, room \in 0 .. STRBYTES :
          Ask([fn |-> "pwencode", ctx |-> ctx, type |-> type, room |-> room])
    \/ \E s \in Spoiled : Ask([fn |-> "pwparse", s |-> s, other |-> Password, again |-> 2, mem2 |-> 16384, failing |-> 0])

(* The string asked about: one that is made, or one that the caller has. *)
MadeString == IF call.fn = "pwstr" THEN crypto_pwhash_str_alg(Heap(0), call, "ref")
              ELSE [ret |-> 0, str |-> call.s, heap |-> Heap(0)]

AnswerPassword ==
    \/ Called("numeral") /\ Answer([read |-> decode_decimal(call.s)])
    \/ /\ Called("pwhash")
       /\ Answer(CASE call.via = 0 -> crypto_pwhash(Heap(call.failing), call, "ref")
                   [] call.via = 1 -> crypto_pwhash_argon2i(Heap(call.failing), call, "ref")
                   [] call.via = 2 -> crypto_pwhash_argon2id(Heap(call.failing), call, "ref"))
    \/ /\ Called("pwstr") \/ Called("pwparse")
       /\ \E made \in {MadeString} :
             Answer([made |-> made,
                     read |-> [type \in 1 .. 2 |-> argon2_decode_string(made.str, 0, strlen(made.str), type)],
                     verified |-> crypto_pwhash_str_verify(Heap(call.failing), made.str, call.other, "ref"),
                     rehash |-> crypto_pwhash_str_needs_rehash(Heap(call.failing), made.str, call.again, call.mem2)])
    \/ Called("pwencode") /\ Answer(argon2_encode_string(call.room, call.ctx, call.type))

-----------------------------------------------------------------------------
NothingKept(heap) == heap.live = {} /\ ~heap.twice
Allocated(heap) == heap.failing \notin 1 .. heap.asked
ValueOf(digits) == FoldLeft(LAMBDA v, d : 10 * v + d[2], 0, digits)

(* How the decoder sees a string: where char is signed it takes every byte *)
(* from 128 on for the last character of the alphabet.                     *)
Slashed(s) ==
    [k \in DOMAIN s |-> IF IsCharacter(s[k]) /\ Negative(Code(s[k])) THEN Character(47) ELSE s[k]]

ReadAs(type) == answer.read[type].ret = "OK"
Rewritten(type) == argon2_encode_string(STRBYTES, answer.read[type].ctx, type).str

(* A hash is made when every argument is in its range, the algorithm known *)
(* and memory to be had; otherwise none is left in the output, and all     *)
(* memory is given back, once, whichever allocation fails                  *)
(* (crypto_pwhash and those it calls).                                     *)
HashesInRange ==
    Answered({"pwhash"}) =>
          LET type == IF call.via = 0 THEN call.alg ELSE call.via
              good == /\ call.alg = type /\ type # 0 /\ ~call.same /\ call.outlen \in 16 .. UINT32_MAX
                      /\ call.pwd.len <= UINT32_MAX /\ call.ops \in (IF type = 1 THEN 3 ELSE 1) .. UINT32_MAX
                      /\ call.mem \in 8192 .. MEMLIMIT_MAX
          IN /\ (answer.ret = 0) = (good /\ Allocated(answer.heap))
             /\ IF answer.ret = 0 THEN answer.out = TagByTime(Context(call, call.outlen), type)
                ELSE answer.out \in {Cleared, Random, Untouched}
             /\ NothingKept(answer.heap)

(* The string of a password verifies that password and no other, and asks  *)
(* to be made again just when a limit differs; all memory is given back,   *)
(* once, whichever allocation fails.                                       *)
StringsVerify ==
    Answered({"pwstr"}) =>
          LET made == answer.made.ret = 0 IN
          /\ made = (Ranges(call, call.alg) = "")
          /\ (answer.verified.ret = 0) = (made /\ call.other = call.pwd /\ Allocated(answer.verified.heap))
          /\ answer.rehash.ret = IF ~made \/ ~Allocated(answer.rehash.heap) THEN -1
                                 ELSE IF call.again = call.ops /\ call.mem2 \div 1024 = call.mem \div 1024 THEN 0 ELSE 1
          /\ NothingKept(answer.made.heap) /\ NothingKept(answer.verified.heap) /\ NothingKept(answer.rehash.heap)

(* A string is written where it fits with the byte that ends it.  Where it *)
(* does not, a text or a number that has no room is an error, and data     *)
(* that has none a misuse (argon2_encode_string, sodium_bin2base64).       *)
RoomForStrings ==
    Answered({"pwencode"}) =>
          LET tag(n)  == n - 42 .. n        \* 43 characters, after a '$'
              salt(n) == n - 65 .. n - 44   \* and 22 before it
          IN \A whole \in {argon2_encode_string(STRBYTES, call.ctx, call.type).str} : \A n \in {strlen(whole)} :
                 IF call.room > n THEN answer.ret = "OK" /\ answer.str = whole
                 ELSE answer.ret = IF call.room \in tag(n) \union salt(n) THEN "misuse" ELSE "ENCODING_FAIL"

(* A string that is read, one that was made or one not quite like those,   *)
(* is what encoding writes of what was read from it, as the decoder        *)
(* sees it: numbers have no zeros before them, data no padding and no bits *)
(* left over, nothing follows.  Where char is unsigned each value so has   *)
(* one string; where it is signed, every '/' of one may be any byte from   *)
(* 128 on.  It verifies when its tag is that of what it says, and nothing  *)
(* can be said of its limits just when it is not read                      *)
(* (argon2_decode_string, argon2_verify, needs_rehash).                    *)
StringsRead ==
    /\ Answered({"numeral"}) =>
          LET value == ValueOf(call.s) IN
          answer.read.v = IF call.s # <<>> /\ value <= ULONG_MAX /\ u32_to_string(value) = call.s THEN value ELSE -1
    /\ Answered({"pwstr", "pwparse"}) =>
          \A type \in 1 .. 2 : ReadAs(type) => Rewritten(type) = Slashed(answer.made.str)
    /\ Answered({"pwparse"}) =>
          /\ (answer.verified.ret = 0) =
                \E type \in 1 .. 2 :
                    LET ctx == [answer.read[type].ctx EXCEPT !.pwd = Password]
                    IN ReadAs(type) /\ ctx.out = TagByTime(ctx, type)
          /\ (answer.rehash.ret = -1) = \A type \in 1 .. 2 : ~ReadAs(type)
          /\ NothingKept(answer.verified.heap) /\ NothingKept(answer.rehash.heap)

(* Passwords: hashes for arguments in their range, strings that verify,    *)
(* fit and are read back as they were written.                             *)
PasswordsVerify == HashesInRange /\ StringsVerify /\ RoomForStrings /\ StringsRead
=============================================================================
