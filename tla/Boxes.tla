------------------------------- MODULE Boxes -------------------------------
(***************************************************************************)
(* Sealing and opening in the caller's memory: crypto_secretbox (detached, *)
(* easy and the older zero-padded form, over salsa20 and chacha20),        *)
(* crypto_box and its sealed boxes, the three chacha20poly1305 AEADs, the  *)
(* Swift SecretBox on top of them, and the session keys of crypto_kx.      *)
(*                                                                         *)
(* Memory is a function from addresses to bytes, and a byte is the set of  *)
(* the things xored into it: bytes the caller put there, bytes of a key    *)
(* stream, bytes of a tag.  Sizes are in units of 16 / Tag bytes: the tag  *)
(* has Tag units, a Poly1305 key 2 Tag, a block of key stream 4 Tag.       *)
(***************************************************************************)
EXTENDS Calls, FiniteSetsExt, SequencesExt

CONSTANTS Tag,       \* the length of a tag
          Room,      \* the size of the caller's memory
          Lengths,   \* message lengths
          Places     \* addresses buffers may have

Zero == 2 * Tag
Block == 4 * Tag

ASSUME BoxAssumption == Tag \in Nat \ {0} /\ Room \in Nat /\ Lengths \subseteq Nat /\ Places \subseteq Nat

Memory == 0 .. Room - 1
Fits(at, n) == at + n <= Room
Start == [x \in Memory |-> {<<"byte", x>>}]
Cells(mem, at, n) == [i \in 1 .. n |-> mem[at + i - 1]]
Written(mem, at, cells) == [x \in DOMAIN mem |-> IF x - at \in 0 .. Len(cells) - 1 THEN cells[x - at + 1] ELSE mem[x]]

XorOf(a, b) == SymDiff(a, b)
Stream(s, i) == {<<"key_stream", s, i>>}
PolyKey(s) == [i \in 1 .. Zero |-> Stream(s, i - 1)]
Mac(key, content) == [i \in 1 .. Tag |-> {<<"tag", i, key, content>>}]

(* crypto_stream_*_xor_ic from block first on: each block is read before   *)
(* it is written, and written before the next one is read.                 *)
xor_ic(mem, c, m, n, s, first) ==
    FoldLeft(LAMBDA t, j : [x \in DOMAIN t |->
                 IF x - c \in j * Block .. Min({n, (j + 1) * Block}) - 1
                 THEN XorOf(t[m + (x - c)], Stream(s, first * Block + (x - c))) ELSE t[x]],
             mem, [j \in 1 .. (n + Block - 1) \div Block |-> j - 1])

OverlapBelow(c, m, n) == m > c /\ m - c < n  \* mutant
Overlap(c, m, n) == (c > m /\ c - m < n) \/ (m > c /\ m - c < n)

-----------------------------------------------------------------------------
(* crypto_secretbox: the first bytes share a block with the Poly1305 key,  *)
(* so they go through a buffer and the rest is xored from block 1 on.      *)

Short(n) == Min({n, Block - Zero})

Crypted(mem, c, m, n, s) ==
    LET moved == IF Overlap(c, m, n) THEN Written(mem, c, Cells(mem, m, n)) ELSE mem
        from  == IF Overlap(c, m, n) THEN c ELSE m
        head  == [i \in 1 .. Short(n) |-> XorOf(moved[from + i - 1], Stream(s, Zero + i - 1))]
    IN xor_ic(Written(moved, c, head), c + Short(n), from + Short(n), n - Short(n), s, 1)

Sealed(mem, c, mac, m, n, s) ==
    LET after == Crypted(mem, c, m, n, s)
    IN Written(after, mac, Mac(PolyKey(s), Cells(after, c, n)))

(* A call that opens returns what the function returns and the memory it   *)
(* leaves; m is -1 for the null pointer.                                   *)
Refused(mem) == [ret |-> -1, mem |-> mem]

(* Mutant: decrypted before the tag is compared. *)
OpenedEarly(mem, m, c, tag, n, s) ==
    [ret |-> IF tag = Mac(PolyKey(s), Cells(mem, c, n)) THEN 0 ELSE -1,
     mem |-> IF m = -1 THEN mem ELSE Crypted(mem, m, c, n, s)]

Opened(mem, m, c, tag, n, s) ==
    IF tag # Mac(PolyKey(s), Cells(mem, c, n)) THEN Refused(mem)
    ELSE [ret |-> 0, mem |-> IF m = -1 THEN mem ELSE Crypted(mem, m, c, n, s)]

Salsa(n, k) == <<"salsa20", <<"hsalsa20", n, k>>, n>>
ChaCha(n, k) == <<"chacha20", <<"hchacha20", n, k>>, n>>

secretbox_easy(mem, c, m, n, non, k) == Sealed(mem, c + Tag, c, m, n, Salsa(non, k))

secretbox_open_easy(mem, m, c, n, non, k) ==
    IF n < Tag THEN Refused(mem) ELSE Opened(mem, m, c + Tag, Cells(mem, c, Tag), n - Tag, Salsa(non, k))

secretbox_xchacha_easy(mem, c, m, n, non, k) == Sealed(mem, c + Tag, c, m, n, ChaCha(non, k))

secretbox_xchacha_open_easy(mem, m, c, n, non, k) ==
    IF n < Tag THEN Refused(mem) ELSE Opened(mem, m, c + Tag, Cells(mem, c, Tag), n - Tag, ChaCha(non, k))

(* The form of NaCl: the message starts with Zero bytes that become the    *)
(* Poly1305 key, over which the tag is then written.                       *)
xsalsa20poly1305(mem, c, m, n, non, k) ==
    IF n < Zero THEN Refused(mem)
    ELSE LET after == xor_ic(mem, c, m, n, Salsa(non, k), 0)
             tag   == Mac(Cells(after, c, Zero), Cells(after, c + Zero, n - Zero))
         IN [ret |-> 0, mem |-> Written(Written(after, c + Tag, tag), c, [i \in 1 .. Tag |-> {}])]

xsalsa20poly1305_open(mem, m, c, n, non, k) ==
    IF n < Zero \/ Cells(mem, c + Tag, Tag) # Mac(PolyKey(Salsa(non, k)), Cells(mem, c + Zero, n - Zero))
    THEN Refused(mem)
    ELSE [ret |-> 0, mem |-> Written(xor_ic(mem, m, c, n, Salsa(non, k), 0), m, [i \in 1 .. Zero |-> {}])]

-----------------------------------------------------------------------------
(* The AEADs: the Poly1305 key is in block 0 alone, the message from block *)
(* 1 on; a length is one unit of its own in what is authenticated.         *)

Length(n) == << {<<"length", n>>} >>
Pad0(n) == [i \in 1 .. (Tag - n) % Tag |-> {}]

Original(ad, c) == ad \o Length(Len(ad)) \o c \o Length(Len(c))
Ietf(ad, c) == ad \o Pad0(Len(ad)) \o c \o Pad0(Len(c)) \o Length(Len(ad)) \o Length(Len(c))

Authenticated(layout, ad, c) == IF layout = "original" THEN Original(ad, c) ELSE Ietf(ad, c)

aead_encrypt(mem, c, m, n, ad, s, layout) ==
    LET after == xor_ic(mem, c, m, n, s, 1)
    IN Written(after, c + n, Mac(PolyKey(s), Authenticated(layout, ad, Cells(after, c, n))))

aead_decrypt(mem, m, c, n, ad, s, layout) ==
    IF n < Tag THEN Refused(mem)
    ELSE LET len == n - Tag
             ok  == Cells(mem, c + len, Tag) = Mac(PolyKey(s), Authenticated(layout, ad, Cells(mem, c, len)))
         IN IF m = -1 THEN [ret |-> IF ok THEN 0 ELSE -1, mem |-> mem]
            ELSE IF ~ok THEN Refused(Written(mem, m, [i \in 1 .. len |-> {}]))
            ELSE [ret |-> 0, mem |-> xor_ic(mem, m, c, len, s, 1)]

chacha20poly1305_encrypt(mem, c, m, n, ad, non, k) == aead_encrypt(mem, c, m, n, ad, <<"chacha20", k, non>>, "original")
chacha20poly1305_decrypt(mem, m, c, n, ad, non, k) == aead_decrypt(mem, m, c, n, ad, <<"chacha20", k, non>>, "original")
chacha20poly1305_ietf_encrypt(mem, c, m, n, ad, non, k) == aead_encrypt(mem, c, m, n, ad, <<"ietf", k, non>>, "ietf")
chacha20poly1305_ietf_decrypt(mem, m, c, n, ad, non, k) == aead_decrypt(mem, m, c, n, ad, <<"ietf", k, non>>, "ietf")
xchacha20poly1305_encrypt(mem, c, m, n, ad, non, k) == aead_encrypt(mem, c, m, n, ad, ChaCha(non, k), "ietf")
xchacha20poly1305_decrypt(mem, m, c, n, ad, non, k) == aead_decrypt(mem, m, c, n, ad, ChaCha(non, k), "ietf")

-----------------------------------------------------------------------------
(* crypto_box: the key is what both sides compute from a secret key and    *)
(* the other's public key, which must not be of small order.               *)

Pk(who) == [i \in 1 .. Zero |-> {<<"public", i, who>>}]
Owner(pk) == CHOOSE who \in {"alice", "bob", "ephemeral", "small_order"} : pk = Pk(who)

scalarmult(sk, pk) == IF Owner(pk) = "small_order" THEN {} ELSE {sk, Owner(pk)}

beforenm(pk, sk) == <<"hsalsa20", "0", scalarmult(sk, pk)>>

box_easy(mem, c, m, n, non, pk, sk) ==
    IF scalarmult(sk, pk) = {} THEN Refused(mem)
    ELSE [ret |-> 0, mem |-> secretbox_easy(mem, c, m, n, non, beforenm(pk, sk))]

box_open_easy(mem, m, c, n, non, pk, sk) ==
    IF n < Tag \/ scalarmult(sk, pk) = {} THEN Refused(mem)
    ELSE secretbox_open_easy(mem, m, c, n, non, beforenm(pk, sk))

seal_nonce(pk1, pk2) == <<"blake2b", pk1 \o pk2>>

(* The public key of a pair made for this message goes before the box. *)
box_seal(mem, c, m, n, pk) ==
    LET epk   == Pk("ephemeral")
        boxed == box_easy(mem, c + Zero, m, n, seal_nonce(epk, pk), pk, "ephemeral")
    IN [boxed EXCEPT !.mem = Written(@, c, epk)]

box_seal_open(mem, m, c, n, pk, sk) ==
    IF n < Zero + Tag THEN Refused(mem)
    ELSE box_open_easy(mem, m, c + Zero, n - Zero, seal_nonce(Cells(mem, c, Zero), pk), Cells(mem, c, Zero), sk)

(* crypto_kx: a caller that wants one key passes one buffer, which then    *)
(* takes both, the second over the first.                                  *)
Half(q, client, server, i) == <<"blake2b", i, q, client, server>>

client_session_keys(rx, tx, pk, sk, server) ==
    LET q == scalarmult(sk, server)
        k == [i \in 1 .. 2 |-> Half(q, pk, server, i)]
    IN IF q = {} THEN [ret |-> -1] ELSE [ret |-> 0, rx |-> IF tx /\ rx THEN k[1] ELSE k[2], tx |-> k[2]]

(* Mutant: the server hashes its own key first for what it receives with. *)
server_keys_swapped(rx, tx, pk, sk, client) ==
    LET q == scalarmult(sk, client)
        k == [i \in 1 .. 2 |-> Half(q, client, pk, i)]
    IN IF q = {} THEN [ret |-> -1] ELSE [ret |-> 0, rx |-> Half(q, pk, client, 2), tx |-> IF tx /\ rx THEN k[1] ELSE k[2]]

server_session_keys(rx, tx, pk, sk, client) ==
    LET q == scalarmult(sk, client)
        k == [i \in 1 .. 2 |-> Half(q, client, pk, i)]
    IN IF q = {} THEN [ret |-> -1] ELSE [ret |-> 0, rx |-> k[2], tx |-> IF tx /\ rx THEN k[1] ELSE k[2]]

-----------------------------------------------------------------------------
(* Swift: the answer has its own storage, of the length the caller's data  *)
(* lead to; a negative capacity traps before the library is called.        *)

Storage(data) == [x \in Memory |-> IF x < Len(data) THEN data[x + 1] ELSE {<<"byte", x>>}]
Buffer == Room \div 2

SwiftSeal(data, non, k) ==
    Cells(secretbox_easy(Storage(data), Buffer, 0, Len(data), non, k), Buffer, Tag + Len(data))

SwiftOpen(data, non, k) ==
    IF Len(data) - Tag < 0 THEN "trap"
    ELSE LET r == secretbox_open_easy(Storage(data), Buffer, 0, Len(data), non, k)
         IN IF r.ret # 0 THEN "invalidData" ELSE Cells(r.mem, Buffer, Len(data) - Tag)
-----------------------------------------------------------------------------
(* What a sealed message is, wherever it was sealed: scheme by scheme, the *)
(* key stream, where in it the message starts, and where the tag goes.     *)

Aeads == {"chacha20poly1305", "ietf", "xchacha20poly1305"}
Easy == {"secretbox", "xchacha", "box"}
Nacl == {"nacl"}
Schemes == Easy \union Aeads \union Nacl

StreamOf(scheme) ==
    CASE scheme \in {"secretbox", "nacl"}      -> Salsa("nonce", "key")
      [] scheme \in {"xchacha", "xchacha20poly1305"} -> ChaCha("nonce", "key")
      [] scheme = "box"                        -> Salsa("nonce", <<"hsalsa20", "0", {"alice", "bob"}>>)
      [] scheme = "chacha20poly1305"           -> <<"chacha20", "key", "nonce">>
      [] scheme = "ietf"                       -> <<"ietf", "key", "nonce">>

Body(scheme, plain) ==
    LET first == IF scheme \in Aeads THEN Block ELSE Zero
    IN [i \in 1 .. Len(plain) |-> XorOf(plain[i], Stream(StreamOf(scheme), first + i - 1))]

Authentic(scheme, plain, ad) ==
    LET body == Body(scheme, plain)
        MacOf(content) == Mac(PolyKey(StreamOf(scheme)), content)
    IN CASE scheme \in Easy         -> MacOf(body) \o body
         [] scheme \in Nacl         -> [i \in 1 .. Tag |-> {}] \o MacOf(body) \o body
         [] scheme = "chacha20poly1305" -> body \o MacOf(Original(ad, body))
         [] OTHER                   -> body \o MacOf(Ietf(ad, body))

Ad(n) == [i \in 1 .. n |-> {<<"ad", i>>}]
Plain(n) == [i \in 1 .. n |-> {<<"plain", i>>}]
Zeros(n) == [i \in 1 .. n |-> {}]

(* The memory before a call that seals at m, and before one that opens a   *)
(* box at c: forged, it has a byte of the tag or of the message changed or *)
(* is not long enough to be one.                                           *)
ToSeal(scheme, m) == IF scheme \in Nacl THEN Written(Start, m, Zeros(Zero)) ELSE Start

Forged(box, how) ==
    CASE how = "no"     -> box
      [] how = "first"  -> [box EXCEPT ![1] = XorOf(@, {<<"changed", 1>>})]
      [] how = "last"   -> [box EXCEPT ![Len(box)] = XorOf(@, {<<"changed", 1>>})]
      [] how = "short"  -> SubSeq(box, 1, Tag - 1)
      [] how = "cut"    -> SubSeq(box, 1, Len(box) - 1)

BoxOf(scheme, n, ad) == Authentic(scheme, Plain(n), Ad(ad))

-----------------------------------------------------------------------------
Apart(c, m, n) == c + n <= m \/ m + n <= c

SealCall(scheme, c, m, n, ad) ==
    [fn |-> "seal", scheme |-> scheme, c |-> c, m |-> m, n |-> n, ad |-> ad]
OpenCall(scheme, c, m, n, ad, how) ==
    [fn |-> "open", scheme |-> scheme, c |-> c, m |-> m, n |-> n, ad |-> ad, how |-> how]

AskBox ==
    \/ \E scheme \in Easy, c, m \in Places, n \in Lengths :
            /\ Fits(c, Tag + n) /\ Fits(m, n)
            /\ Ask(SealCall(scheme, c, m, n, 0))
    \/ \E scheme \in Aeads, c, m \in Places, n \in Lengths, ad \in {0, 1, Tag} :
            /\ Fits(c, Tag + n) /\ Fits(m, n) /\ (c = m \/ Apart(c, m, n + Tag))
            /\ Ask(SealCall(scheme, c, m, n, ad))
    \/ \E c, m \in Places, n \in Lengths :
            /\ Fits(c, Zero + n) /\ Fits(m, Zero + n) /\ (c = m \/ Apart(c, m, Zero + n))
            /\ Ask(SealCall("nacl", c, m, n, 0))
    \/ \E scheme \in Easy, c \in Places, m \in Places \union {-1}, n \in Lengths, how \in {"no", "first", "last", "short", "cut"} :
            /\ Fits(c, Tag + n) /\ Fits(m, n)
            /\ Ask(OpenCall(scheme, c, m, n, 0, how))
    \/ \E scheme \in Aeads, c \in Places, m \in Places \union {-1}, n \in Lengths, ad \in {0, 1, Tag},
          how \in {"no", "first", "last", "short", "cut"} :
            /\ Fits(c, Tag + n) /\ Fits(m, n) /\ (c = m \/ Apart(c, m, n + Tag))
            /\ Ask(OpenCall(scheme, c, m, n, ad, how))
    \/ \E c, m \in Places, n \in Lengths, how \in {"no", "last", "short"} :
            /\ Fits(c, Zero + n) /\ Fits(m, Zero + n) /\ (c = m \/ Apart(c, m, Zero + n))
            /\ Ask(OpenCall("nacl", c, m, n, 0, how))
    \/ \E pk \in {"bob", "small_order"}, c, m \in Places, n \in Lengths :
            /\ Fits(c, Zero + Tag + n) /\ Fits(m, n)
            /\ Ask([fn |-> "box_seal", pk |-> pk, c |-> c, m |-> m, n |-> n])
    \/ \E n \in Lengths, how \in {"no", "first", "last", "short", "cut"} :
            /\ 2 * (n + Tag) <= Room
            /\ Ask([fn |-> "SwiftSecretBox", n |-> n, how |-> how])
    \/ \E one, two \in {<<TRUE, TRUE>>, <<TRUE, FALSE>>, <<FALSE, TRUE>>}, peer \in {"bob", "small_order"} :
            Ask([fn |-> "kx", client |-> one, server |-> two, peer |-> peer])

Seals ==
    /\ Called("seal")
    /\ LET mem == ToSeal(call.scheme, call.m)
           c == call.c
           m == call.m
           n == call.n
           ok(after) == [ret |-> 0, mem |-> after]
       IN \/ call.scheme = "secretbox" /\ Answer(ok(secretbox_easy(mem, c, m, n, "nonce", "key")))
          \/ call.scheme = "xchacha" /\ Answer(ok(secretbox_xchacha_easy(mem, c, m, n, "nonce", "key")))
          \/ call.scheme = "box" /\ Answer(box_easy(mem, c, m, n, "nonce", Pk("bob"), "alice"))
          \/ call.scheme = "nacl" /\ Answer(xsalsa20poly1305(mem, c, m, Zero + n, "nonce", "key"))
          \/ /\ call.scheme = "chacha20poly1305"
             /\ Answer(ok(chacha20poly1305_encrypt(mem, c, m, n, Ad(call.ad), "nonce", "key")))
          \/ /\ call.scheme = "ietf"
             /\ Answer(ok(chacha20poly1305_ietf_encrypt(mem, c, m, n, Ad(call.ad), "nonce", "key")))
          \/ /\ call.scheme = "xchacha20poly1305"
             /\ Answer(ok(xchacha20poly1305_encrypt(mem, c, m, n, Ad(call.ad), "nonce", "key")))

(* The box the call gets, and the memory it is in. *)
CalledBox == Forged(BoxOf(call.scheme, call.n, call.ad), call.how)
ToOpen == Written(Start, call.c, CalledBox)

Opens ==
    /\ Called("open")
    /\ LET mem == ToOpen
           n == Len(CalledBox)
           c == call.c
           m == call.m
       IN \/ call.scheme = "secretbox" /\ Answer(secretbox_open_easy(mem, m, c, n, "nonce", "key"))
          \/ call.scheme = "xchacha" /\ Answer(secretbox_xchacha_open_easy(mem, m, c, n, "nonce", "key"))
          \/ call.scheme = "box" /\ Answer(box_open_easy(mem, m, c, n, "nonce", Pk("alice"), "bob"))
          \/ call.scheme = "nacl" /\ Answer(xsalsa20poly1305_open(mem, m, c, n, "nonce", "key"))
          \/ /\ call.scheme = "chacha20poly1305"
             /\ Answer(chacha20poly1305_decrypt(mem, m, c, n, Ad(call.ad), "nonce", "key"))
          \/ /\ call.scheme = "ietf"
             /\ Answer(chacha20poly1305_ietf_decrypt(mem, m, c, n, Ad(call.ad), "nonce", "key"))
          \/ /\ call.scheme = "xchacha20poly1305"
             /\ Answer(xchacha20poly1305_decrypt(mem, m, c, n, Ad(call.ad), "nonce", "key"))

(* Sealed for a public key, and opened where the box is with the secret one. *)
SealsAndOpens ==
    /\ Called("box_seal")
    /\ LET sent == box_seal(Start, call.c, call.m, call.n, Pk(call.pk))
           n    == Zero + Tag + call.n
       IN Answer([sent |-> sent, got |-> box_seal_open(sent.mem, call.m, call.c, n, Pk(call.pk), call.pk)])

SwiftSecretBox ==
    /\ Called("SwiftSecretBox")
    /\ LET box == SwiftSeal(Plain(call.n), "nonce", "key")
       IN Answer([box |-> box, opened |-> SwiftOpen(Forged(box, call.how), "nonce", "key")])

KeyExchange ==
    /\ Called("kx")
    /\ Answer([client |-> client_session_keys(call.client[1], call.client[2], Pk("alice"), "alice", Pk(call.peer)),
               server |-> server_session_keys(call.server[1], call.server[2], Pk(call.peer), call.peer, Pk("alice"))])

AnswerBox == Seals \/ Opens \/ SealsAndOpens \/ SwiftSecretBox \/ KeyExchange

-----------------------------------------------------------------------------
(* Wherever the message lies, also where it overlaps the box that is being *)
(* written, sealing it writes the box the scheme defines and nothing else: *)
(* no byte is encrypted after it was overwritten, none shares its key      *)
(* stream with another or with the Poly1305 key, and the tag is that of    *)
(* what was written (crypto_secretbox_detached and the AEADs' encrypt).    *)
SealedWhole ==
    /\ Answered({"seal"}) =>
          LET before == ToSeal(call.scheme, call.m)
              skip   == IF call.scheme \in Nacl THEN Zero ELSE 0
              plain  == Cells(before, call.m + skip, call.n)
          IN answer = [ret |-> 0, mem |-> Written(before, call.c, Authentic(call.scheme, plain, Ad(call.ad)))]
    /\ Answered({"box_seal"}) =>
          IF call.pk = "small_order"
          THEN answer.sent.ret = -1 /\ answer.got.ret = -1
          ELSE /\ answer.got = [ret |-> 0, mem |-> Written(answer.sent.mem, call.m, Cells(Start, call.m, call.n))]
               /\ \A x \in Memory \ (call.c .. call.c + Zero + Tag + call.n - 1) : answer.sent.mem[x] = Start[x]

(* A call that opens gives the message when the box is untouched and       *)
(* nothing of it otherwise: the memory is as it was, or zeroed where the   *)
(* message would have gone.  The tag is read before an overlapping message *)
(* can be written over it (crypto_secretbox_open_detached and the AEADs'   *)
(* decrypt; SecretBox.open throws, or traps on data shorter than a tag).   *)
OpenedWhole ==
    /\ Answered({"open"}) =>
          LET zero == call.scheme \in Nacl
              into(cells) == IF call.m = -1 THEN ToOpen ELSE Written(ToOpen, call.m, cells)
          IN IF call.how = "no"
             THEN answer = [ret |-> 0, mem |-> into((IF zero THEN Zeros(Zero) ELSE <<>>) \o Plain(call.n))]
             ELSE answer = [ret |-> -1, mem |-> IF call.scheme \in Aeads /\ Len(CalledBox) >= Tag
                                               THEN into(Zeros(Len(CalledBox) - Tag)) ELSE ToOpen]
    /\ Answered({"SwiftSecretBox"}) =>
          answer.opened = IF call.how = "no" THEN Plain(call.n)
                          ELSE IF Len(Forged(answer.box, call.how)) < Tag THEN "trap" ELSE "invalidData"

(* Client and server agree: what one sends with the other receives with,   *)
(* the two directions have different keys, and a client and a server that  *)
(* both ask for a single key get the same one.  It is the client's sending *)
(* key, whichever buffer was passed (crypto_kx_client_session_keys,        *)
(* crypto_kx_server_session_keys).                                         *)
PairedKeys ==
    Answered({"kx"}) =>
        LET c == answer.client
            s == answer.server
            both == <<TRUE, TRUE>>
            only(side, keys) == IF side[1] THEN keys.rx ELSE keys.tx
        IN IF call.peer = "small_order" THEN c.ret = -1
           ELSE /\ c.ret = 0 /\ s.ret = 0
                /\ call.client = both /\ call.server = both => c.rx = s.tx /\ c.tx = s.rx /\ c.rx # c.tx
                /\ call.client # both /\ call.server # both => only(call.client, c) = only(call.server, s)
                /\ call.client # both /\ call.server = both => only(call.client, c) = s.rx
=============================================================================
