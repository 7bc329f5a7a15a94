------------------------------- MODULE Codecs -------------------------------
(***************************************************************************)
(* Hexadecimal and Base64 (codecs.c) and what the Swift extension of       *)
(* DataProtocol makes of them.  Characters are their codes; the arithmetic *)
(* that classifies them without a branch is written out, a comparison      *)
(* being the byte above the low one of an unsigned difference.             *)
(***************************************************************************)
EXTENDS Calls, SequencesExt, Bitwise, TLC

CONSTANTS SignedChar,  \* whether a char is signed, as on x86 and on Apple's ARM
          Data,      \* byte strings to encode
          HexTexts, B64Texts,  \* strings to decode
          Ignored,   \* sets of characters a caller may tell to skip
          Room64     \* capacities of the caller's buffer

ASSUME CodecsAssumption == SignedChar \in BOOLEAN /\ \A i \in Ignored : i \subseteq 0 .. 255

Low(x) == x % 256
High(x) == Low(x \div 256)

(* The operations on bits of two bytes, as tables. *)
Byte == 0 .. 255
Ands == [a \in Byte |-> [b \in Byte |-> a & b] @@ <<>>] @@ <<>>
Ors  == [a \in Byte |-> [b \in Byte |-> a | b] @@ <<>>] @@ <<>>
Xors == [a \in Byte |-> [b \in Byte |-> a ^^ b] @@ <<>>] @@ <<>>
And8(a, b) == Ands[a][b]
Or8(a, b) == Ors[a][b]
Xor8(a, b) == Xors[a][b]
Any8(masks) == FoldLeft(Or8, 0, masks)

(* strchr also finds the character that ends the string it searches. *)
Skips(ignore, c) == ignore # {} /\ c \in ignore \union {0}

-----------------------------------------------------------------------------
(* A digit is 48 + d or 87 + d: 38 less and a borrow for those below 10. *)
HexDigit(d) == Low((87 + d) + (IF d < 10 THEN -39 ELSE 0))

sodium_bin2hex(bin) ==
    FlattenSeq([i \in 1 .. Len(bin) |-> <<HexDigit(bin[i] \div 16), HexDigit(bin[i] % 16)>>])

(* The value of a hexadecimal digit, and whether c is one, as masks. *)
c_num(c) == Xor8(c, 48)
c_num0(c) == High(c_num(c) - 10)
c_alpha(c) == Low(And8(c, 223) - 55)
c_alpha0(c) == Xor8(High(c_alpha(c) - 10), High(c_alpha(c) - 16))
IsHex(c) == Or8(c_num0(c), c_alpha0(c)) # 0
c_val(c) == Or8(And8(c_num0(c), c_num(c)), And8(c_alpha0(c), c_alpha(c)))

(* Separators may stand between bytes, not between the digits of one. end  *)
(* tells whether the caller asked where decoding ended.                    *)
sodium_hex2bin(hex, maxlen, ignore, end) ==
    LET loop[t \in [pos : 0 .. Len(hex), bin : Seq(0 .. 255), half : BOOLEAN, acc : 0 .. 255]] ==
            LET c == hex[t.pos + 1]
            IN IF t.pos = Len(hex) THEN <<t, 0>>
               ELSE IF ~IsHex(c) THEN
                    IF ~t.half /\ Skips(ignore, c) THEN loop[[t EXCEPT !.pos = @ + 1]] ELSE <<t, 0>>
               ELSE IF Len(t.bin) >= maxlen THEN <<t, -1>>
               ELSE IF ~t.half THEN loop[[t EXCEPT !.pos = @ + 1, !.half = TRUE, !.acc = Low(c_val(c) * 16)]]
               ELSE loop[[t EXCEPT !.pos = @ + 1, !.half = FALSE, !.bin = Append(@, Or8(t.acc, c_val(c)))]]
        r   == loop[[pos |-> 0, bin |-> <<>>, half |-> FALSE, acc |-> 0]]
        pos == IF r[1].half THEN r[1].pos - 1 ELSE r[1].pos
        ret == IF r[1].half THEN -1 ELSE r[2]
    IN [ret |-> IF ~end /\ pos # Len(hex) THEN -1 ELSE ret,
        bin |-> IF ret # 0 THEN <<>> ELSE r[1].bin, pos |-> pos]

-----------------------------------------------------------------------------
(* Sixteen bits of an unsigned number are enough: a mask is bits 8 to 15.  *)
EQ(x, y) == Xor8(High(-(256 * High(x) + Xor8(Low(x), y))), 255)
GT(x, y) == High(y - x)
GE(x, y) == Xor8(GT(y, x), 255)
LT(x, y) == GT(y, x)
LE(x, y) == GE(y, x)
Within(x, first, last) == And8(GE(x, first), LE(x, last))

byte_to_char(x, c62, c63) ==
    Any8(<<And8(LT(x, 26), Low(x + 65)), And8(And8(GE(x, 26), LT(x, 52)), Low(x + 71)),
           And8(And8(GE(x, 52), LT(x, 62)), Low(x - 4)), And8(EQ(x, 62), c62), And8(EQ(x, 63), c63)>>)

(* The sums are of more than eight bits, but a mask keeps a byte of them. *)
char_to_byte(c, c62, c63) ==
    LET x == Any8(<<And8(Within(c, 65, 90), Low(c - 65)), And8(Within(c, 97, 122), Low(c - 71)),
                    And8(Within(c, 48, 57), Low(c + 4)), And8(EQ(c, c62), 62), And8(EQ(c, c63), 63)>>)
    IN Or8(x, And8(EQ(x, 0), Xor8(EQ(c, 65), 255)))

b64_byte_to_char(x) == byte_to_char(x, 43, 47)
b64_byte_to_urlsafe_char(x) == byte_to_char(x, 45, 95)
b64_char_to_byte(c) == char_to_byte(c, 43, 47)
b64_urlsafe_char_to_byte(c) == char_to_byte(c, 45, 95)

(* What a char makes of a byte when it is passed as an int. *)
Char(b) == IF SignedChar /\ b >= 128 THEN b - 256 ELSE b

Variants == [url : BOOLEAN, padded : BOOLEAN]
Equals == 61

encoded_len(n, v) ==
    LET rest == n % 3
    IN 4 * (n \div 3) + (IF rest = 0 THEN 0 ELSE IF v.padded THEN 4 ELSE 2 + (rest \div 2)) + 1

(* Bits are shifted in from the right, eight at a time, and taken out from *)
(* the left in sixes; only the low bits of acc are ever looked at again.   *)
sodium_bin2base64(bin, v) ==
    LET char(x) == IF v.url THEN b64_byte_to_urlsafe_char(x) ELSE b64_byte_to_char(x)
        sixes[t \in [acc : Nat, len : Nat, out : Seq(Nat)]] ==
            IF t.len < 6 THEN t
            ELSE sixes[[t EXCEPT !.len = @ - 6, !.out = Append(@, (t.acc \div 2 ^ (t.len - 6)) % 64)]]
        values(r) == IF r.len > 0 THEN Append(r.out, (r.acc * 2 ^ (6 - r.len)) % 64) ELSE r.out
        chars(all) == [i \in 1 .. encoded_len(Len(bin), v) - 1 |-> IF i <= Len(all) THEN char(all[i]) ELSE Equals]
        step(t, b) == sixes[[t EXCEPT !.acc = ((@ * 256) + b) % (2 ^ 16), !.len = @ + 8]]
    IN chars(values(FoldLeft(step, [acc |-> 0, len |-> 0, out |-> <<>>], bin)))

skip_no_padding(b64, pos, ignore, n) == <<0, pos>>  \* mutant

(* The padding that must follow: as many signs as half the bits left over. *)
skip_padding(b64, pos, ignore, n) ==
    LET loop[t \in 0 .. Len(b64), k \in 0 .. 4] ==
            IF k = 0 THEN <<0, t>>
            ELSE IF t >= Len(b64) THEN <<-1, t>>
            ELSE IF b64[t + 1] = Equals THEN loop[t + 1, k - 1]
            ELSE IF Skips(ignore, b64[t + 1]) THEN loop[t + 1, k] ELSE <<-1, t>>
    IN loop[pos, n]

(* The characters of a string with the values they stand for. *)
b64_values(b64, url) ==
    [i \in 1 .. Len(b64) |->
        <<b64[i], IF url THEN b64_urlsafe_char_to_byte(Char(b64[i])) ELSE b64_char_to_byte(Char(b64[i]))>>]

(* Only the low bits of acc are looked at again. *)
b64_loop(values, maxlen, ignore) ==
    LET took[t \in [pos : Nat, acc : Nat, len : Nat, bin : Seq(Nat), ret : {0, -1}, go : BOOLEAN]] ==
            IF t.len < 8 THEN [t EXCEPT !.pos = @ + 1]
            ELSE IF Len(t.bin) >= maxlen THEN [t EXCEPT !.len = @ - 8, !.ret = -1, !.go = FALSE]
            ELSE [t EXCEPT !.pos = @ + 1, !.len = @ - 8, !.bin = Append(@, (t.acc \div 2 ^ (t.len - 8)) % 256)]
        next(t, cd) ==
            IF ~t.go THEN t
            ELSE IF cd[2] # 255 THEN took[[t EXCEPT !.acc = ((@ * 64) + cd[2]) % 2 ^ 14, !.len = @ + 6]]
            ELSE IF Skips(ignore, cd[1]) THEN [t EXCEPT !.pos = @ + 1] ELSE [t EXCEPT !.go = FALSE]
    IN FoldLeft(next, [pos |-> 0, acc |-> 0, len |-> 0, bin |-> <<>>, ret |-> 0, go |-> TRUE], values)

sodium_base642bin(b64, maxlen, ignore, end, v) ==
    LET over[p \in 0 .. Len(b64)] == IF p < Len(b64) /\ Skips(ignore, b64[p + 1]) THEN over[p + 1] ELSE p
        \* <<ret, pos>> once the bits left over and the padding are looked at
        closed[t \in [pos : Nat, acc : Nat, len : Nat, bin : Seq(Nat), ret : {0, -1}, go : BOOLEAN]] ==
            IF t.len > 4 \/ t.acc % (2 ^ t.len) # 0 THEN [bin |-> <<>>, at |-> <<-1, t.pos>>]
            ELSE [bin |-> t.bin, at |-> IF t.ret = 0 /\ v.padded THEN skip_padding(b64, t.pos, ignore, t.len \div 2)
                                        ELSE <<t.ret, t.pos>>]
        decoded[r \in [bin : Seq(Nat), at : {0, -1} \X Nat]] ==
            IF r.at[1] # 0 THEN [ret |-> -1, bin |-> <<>>, pos |-> r.at[2]]
            ELSE [ret |-> 0, bin |-> r.bin, pos |-> over[r.at[2]]]
        asked[r \in [ret : {0, -1}, bin : Seq(Nat), pos : Nat]] ==
            IF ~end /\ r.pos # Len(b64) THEN [r EXCEPT !.ret = -1] ELSE r
    IN asked[decoded[closed[b64_loop(b64_values(b64, v.url), maxlen, ignore)]]]

-----------------------------------------------------------------------------
(* Swift: three bytes are made room for for every four characters, those   *)
(* of an incomplete group not counted; no character is ignored.            *)
SwiftDecoded(text, v) ==
    LET r == sodium_base642bin(text, 3 * (Len(text) \div 4), {}, FALSE, v)
    IN IF r.ret < 0 THEN [thrown |-> TRUE] ELSE [thrown |-> FALSE, data |-> r.bin]

SwiftEncoded(data, v) == sodium_bin2base64(data, v)

-----------------------------------------------------------------------------
AskCodec ==
    \/ \E d \in Data : Ask([fn |-> "bin2hex", data |-> d])
    \/ \E d \in Data, v \in Variants : Ask([fn |-> "bin2base64", data |-> d, v |-> v])
    \/ \E t \in HexTexts, n \in Room64, ig \in Ignored, end \in BOOLEAN :
            Ask([fn |-> "hex2bin", text |-> t, room |-> n, ignore |-> ig, end |-> end])
    \/ \E t \in B64Texts, n \in Room64, ig \in Ignored, end \in BOOLEAN, v \in Variants :
            Ask([fn |-> "base642bin", text |-> t, room |-> n, ignore |-> ig, end |-> end, v |-> v])
    \/ \E d \in Data, v \in Variants : Ask([fn |-> "SwiftBase64", data |-> d, v |-> v])
    \/ \E c \in 0 .. 255 : Ask([fn |-> "char", c |-> c])

AnswerCodec ==
    \/ Called("bin2hex") /\ Answer(sodium_bin2hex(call.data))
    \/ Called("bin2base64") /\ Answer(sodium_bin2base64(call.data, call.v))
    \/ Called("hex2bin") /\ Answer(sodium_hex2bin(call.text, call.room, call.ignore, call.end))
    \/ Called("base642bin") /\ Answer(sodium_base642bin(call.text, call.room, call.ignore, call.end, call.v))
    \/ Called("SwiftBase64") /\ Answer(SwiftDecoded(SwiftEncoded(call.data, call.v), call.v))
    \/ /\ Called("char")
       /\ Answer([hex |-> IF IsHex(call.c) THEN c_val(call.c) ELSE 255,
                  b64 |-> b64_char_to_byte(Char(call.c)), url |-> b64_urlsafe_char_to_byte(Char(call.c))])

-----------------------------------------------------------------------------
(* What the alphabets are. *)
Digits16 == (48 .. 57) \union (65 .. 70) \union (97 .. 102)
Alphabet(url) == (65 .. 90) \union (97 .. 122) \union (48 .. 57) \union (IF url THEN {45, 95} ELSE {43, 47})

Skipped(text, ignore) == SelectSeq(text, LAMBDA c : ~Skips(ignore, c))

Classified(c) ==
    /\ (answer.hex # 255) = (c \in Digits16)
    /\ (answer.b64 # 255) = (c \in Alphabet(FALSE))
    /\ (answer.url # 255) = (c \in Alphabet(TRUE))
    /\ (answer.b64 # 255 => b64_byte_to_char(answer.b64) = c)
    /\ (answer.url # 255 => b64_byte_to_urlsafe_char(answer.url) = c)

(* A character stands for a value when it is in the alphabet and for none  *)
(* otherwise: the macros that decide without a branch work over values in  *)
(* the range 0..255 (codecs.c, EQ and GT).                                 *)
OnlyAlphabet == Answered({"char"}) => Classified(call.c)

(* What sodium_base642bin makes of a text: where char is signed, a byte of *)
(* 128 or more is as good as the last character of the alphabet.           *)
Negative(c) == SignedChar /\ c >= 128
Seen(text, url) ==
    [i \in DOMAIN text |-> IF Negative(text[i]) THEN IF url THEN 95 ELSE 47 ELSE text[i]]

(* What base64EncodedString gives init(base64Encoded:) takes back, as long *)
(* as it is padded; without padding the capacity leaves no room for the    *)
(* bytes of an incomplete group, and the initializer throws.               *)
SwiftTakesBack ==
    Answered({"SwiftBase64"}) =>
        IF call.v.padded \/ Len(call.data) % 3 = 0
        THEN answer = [thrown |-> FALSE, data |-> call.data]
        ELSE answer.thrown

Capitals == 65 .. 70
Lowered(hex) == [i \in DOMAIN hex |-> IF hex[i] \in Capitals THEN hex[i] + 32 ELSE hex[i]]
HexDigits(hex) == SelectSeq(hex, LAMBDA c : c \in Digits16)
HexTaken(hex, bin) ==
    /\ Lowered(HexDigits(hex)) = sodium_bin2hex(bin)
    /\ \A i \in DOMAIN hex :
          hex[i] \in Digits16 \/ (Skips(call.ignore, hex[i]) /\ Len(HexDigits(SubSeq(hex, 1, i))) % 2 = 0)

(* Where decoding fails no bytes are returned, unless characters are left  *)
(* over that are not to be ignored, the caller did not ask for the end and *)
(* this is the only mistake: then what was decoded of those before them is *)
(* still reported along with -1 (codecs.c:93-101, 326-334).                *)
NothingReturned(before) ==
    \/ answer.bin = <<>>
    \/ ~call.end /\ answer.pos # Len(call.text) /\ before = [ret |-> 0, bin |-> answer.bin, pos |-> answer.pos]

(* Decoding undoes encoding, within the buffer.  It takes nothing but what *)
(* encoding makes of what was decoded, the characters to ignore apart,     *)
(* which in hexadecimal may only stand between bytes, and letters in       *)
(* hexadecimal of either case: every character is classified right without *)
(* a branch, bits that belong to no byte are zero, padding is complete.    *)
(* Where char is signed, Base64 has one more exception: every byte of 128  *)
(* or more is taken for the last character of the alphabet                 *)
(* (sodium_hex2bin, sodium_base642bin).                                    *)
CodecsInverse ==
    /\ Answered({"char"}) =>
          IF Negative(call.c) THEN answer = [hex |-> 255, b64 |-> 63, url |-> 63] ELSE Classified(call.c)
    /\ Answered({"bin2hex"}) =>
          /\ \A i \in 1 .. Len(answer) : answer[i] \in Digits16 \ Capitals
          /\ sodium_hex2bin(answer, Len(call.data), {}, FALSE) = [ret |-> 0, bin |-> call.data, pos |-> Len(answer)]
    /\ Answered({"bin2base64"}) =>
          /\ Len(answer) = encoded_len(Len(call.data), call.v) - 1
          /\ sodium_base642bin(answer, Len(call.data), {}, FALSE, call.v)
                = [ret |-> 0, bin |-> call.data, pos |-> Len(answer)]
    /\ Answered({"hex2bin", "base642bin"}) =>
          /\ Len(answer.bin) <= call.room
          /\ answer.ret = 0 /\ ~call.end => answer.pos = Len(call.text)
    /\ Answered({"base642bin"}) =>
          LET text == SubSeq(call.text, 1, answer.pos)
          IN IF answer.ret = 0 THEN Skipped(Seen(text, call.v.url), call.ignore) = sodium_bin2base64(answer.bin, call.v)
             ELSE NothingReturned(sodium_base642bin(text, call.room, call.ignore, FALSE, call.v))
    /\ Answered({"hex2bin"}) =>
          LET text == SubSeq(call.text, 1, answer.pos)
          IN IF answer.ret = 0 THEN HexTaken(text, answer.bin)
             ELSE NothingReturned(sodium_hex2bin(text, call.room, call.ignore, FALSE))
    /\ SwiftTakesBack
=============================================================================
