---------------------------- MODULE SecretStream ----------------------------
(***************************************************************************)
(* The secret stream: SecretStream.push and SecretStream.pull of the Swift *)
(* package over crypto_secretstream_xchacha20poly1305.                     *)
(*                                                                         *)
(* A stream state of the C code is a key k and a 12-byte nonce made of a   *)
(* 4-byte counter and an 8-byte "inonce".  Every frame pushed or pulled    *)
(* folds its MAC into the inonce and advances the counter; the key and the *)
(* inonce are replaced when the frame's tag asks for it and when the       *)
(* counter wraps to zero.  Nothing on the wire numbers a frame: a receiver *)
(* tells a frame out of place only because its own state then differs from *)
(* the state the frame was sealed under.                                   *)
(*                                                                         *)
(* The cryptography is ideal, as follows.  A key and inonce are named by   *)
(* where they came from: the root (key and header) the stream was opened   *)
(* with and the rekeyings made since.  The MAC of a frame is named by its  *)
(* place in its session, and an inonce is the set of MACs XORed into it.   *)
(* A frame opens under the state it was sealed under, with its own         *)
(* additional data and unaltered, and under no other.                      *)
(*                                                                         *)
(* The wire is not part of the program: a receiver may be handed any frame *)
(* of any session, at any time, any number of times, altered or cut short. *)
(***************************************************************************)
EXTENDS Integers, Sequences, FiniteSets

CONSTANTS
    Root,       \* pairs of a key and a header
    Ad,         \* additional data
    Byte,       \* the tag bytes a peer writes; a peer may use the C functions
    CtrMod,     \* the counter is kept modulo this (2^32 in the code)
    MaxFrames,  \* bound: frames pushed, all sessions together
    MaxRekeys   \* bound: explicit rekeyings of one stream object

ASSUME CtrModAssumption == CtrMod \in Nat /\ CtrMod >= 2
ASSUME ByteAssumption   == Byte \subseteq 0..255
ASSUME BoundsAssumption == MaxFrames \in Nat /\ MaxRekeys \in Nat

VARIABLES
    tx,       \* the sender's stream state
    rx,       \* the receiver's stream state
    issued,   \* the roots senders have drawn
    log,      \* log[r]: the frames pushed in the session of root r, in order
    acc,      \* frames the C pull accepted since the receiver was opened
    txMarks,  \* txMarks[r]: the lengths of log[r] at the sender's explicit rekeyings
    rxMarks,  \* the lengths of acc at the receiver's explicit rekeyings
    outcome,  \* how the last call ended
    process   \* "running", or why it stopped

vars == <<tx, rx, issued, log, acc, txMarks, rxMarks, outcome, process>>
-----------------------------------------------------------------------------
(* Stream states                                                           *)

Rekeying == [inonce : SUBSET Nat, ctr : 0..(CtrMod - 1)]

State == [root : Root, rekeys : Seq(Rekeying), inonce : SUBSET Nat, ctr : 0..(CtrMod - 1)]

Frame == [st : State, ad : Ad, tag : Byte, mac : Nat]

(* Mutant: a counter left at zero.                                         *)
OpenedAtZero(r) == [root |-> r, rekeys |-> <<>>, inonce |-> {}, ctr |-> 0]

(* init_push and init_pull: the counter starts at one, not zero.           *)
OpenedState(r) == [root |-> r, rekeys |-> <<>>, inonce |-> {}, ctr |-> 1]

(* Mutant: the new key is computed and not copied back.                    *)
KeyNotReplaced(st) == [st EXCEPT !.inonce = {}, !.ctr = 1]

(* crypto_secretstream_..._rekey: the new key and inonce are a function of *)
(* the old key, inonce and counter.                                        *)
RekeyedState(st) ==
    [st EXCEPT !.rekeys = Append(@, [inonce |-> st.inonce, ctr |-> st.ctr]),
               !.inonce = {},
               !.ctr    = 1]

Xor(a, b) == (a \ b) \union (b \ a)

(* TAG_REKEY is bit 1; TAG_FINAL contains it.                              *)
AsksRekey(tag) == (tag \div 2) % 2 = 1

(* Mutant: the sender ignores the tag.                                     *)
RekeysOnWrapOnly(st, tag, mac) ==
    LET next == [st EXCEPT !.inonce = Xor(@, {mac}), !.ctr = (@ + 1) % CtrMod]
    IN  IF next.ctr = 0 THEN RekeyedState(next) ELSE next

(* Mutant: the receiver forgets the counter's wrap.                        *)
RekeysOnTagOnly(st, tag, mac) ==
    LET next == [st EXCEPT !.inonce = Xor(@, {mac}), !.ctr = (@ + 1) % CtrMod]
    IN  IF AsksRekey(tag) THEN RekeyedState(next) ELSE next

(* The end of push and the end of pull advance the state in the same way,  *)
(* in code of their own.                                                   *)
PushedState(st, tag, mac) ==
    LET next == [st EXCEPT !.inonce = Xor(@, {mac}), !.ctr = (@ + 1) % CtrMod]
    IN  IF AsksRekey(tag) \/ next.ctr = 0 THEN RekeyedState(next) ELSE next

PulledState(st, tag, mac) ==
    LET next == [st EXCEPT !.inonce = Xor(@, {mac}), !.ctr = (@ + 1) % CtrMod]
    IN  IF AsksRekey(tag) \/ next.ctr = 0 THEN RekeyedState(next) ELSE next

(* Mutants: a MAC that does not depend on the nonce, or on the key.        *)
OpensUnderKey(st, f, ad, intact) ==
    f.st.root = st.root /\ f.st.rekeys = st.rekeys /\ f.ad = ad /\ intact

OpensUnderNonce(st, f, ad, intact) ==
    f.st.inonce = st.inonce /\ f.st.ctr = st.ctr /\ f.ad = ad /\ intact

(* The MAC computed under st over ad and the frame equals the stored one.  *)
Opens(st, f, ad, intact) == f.st = st /\ f.ad = ad /\ intact

(* The tag bytes Swift's Tag(rawValue:) knows: message, push, rekey, final *)
SwiftTag == 0..3

Sealed(r) == {log[r][i] : i \in 1..Len(log[r])}
OnWire    == UNION {Sealed(r) : r \in Root}
-----------------------------------------------------------------------------
Init ==
    /\ \E r \in Root : tx = OpenedState(r) /\ issued = {r}
    /\ \E r \in Root : rx = OpenedState(r)
    /\ log = [r \in Root |-> <<>>]
    /\ txMarks = [r \in Root |-> <<>>]
    /\ acc = <<>> /\ rxMarks = <<>>
    /\ outcome = "none"
    /\ process = "running"

(* SecretStream.init(key:): the header is drawn at random, so the root is  *)
(* one no sender has used.                                                 *)
OpenPush(r) ==
    /\ process = "running"
    /\ r \notin issued
    /\ tx' = OpenedState(r)
    /\ issued' = issued \union {r}
    /\ outcome' = "ok"
    /\ UNCHANGED <<rx, log, acc, txMarks, rxMarks, process>>

(* SecretStream.init(key:header:), at any time and with any root.          *)
OpenPull(r) ==
    /\ process = "running"
    /\ rx' = OpenedState(r)
    /\ acc' = <<>> /\ rxMarks' = <<>>
    /\ outcome' = "ok"
    /\ UNCHANGED <<tx, issued, log, txMarks, process>>

Push(tag, ad) ==
    LET n == Len(log[tx.root])
        f == [st |-> tx, ad |-> ad, tag |-> tag, mac |-> n + 1]
    IN  /\ process = "running"
        /\ Cardinality(OnWire) < MaxFrames
        /\ log' = [log EXCEPT ![tx.root] = Append(@, f)]
        /\ tx' = PushedState(tx, tag, n + 1)
        /\ outcome' = "ok"
        /\ UNCHANGED <<rx, issued, acc, txMarks, rxMarks, process>>

(* A frame whose MAC verifies.  Swift returns the message, or throws       *)
(* "unknown" for a tag byte its Tag does not have: the stream state has    *)
(* advanced by then.                                                       *)
PullAccepted(f, ad, intact) ==
    /\ process = "running"
    /\ Opens(rx, f, ad, intact)
    /\ rx' = PulledState(rx, f.tag, f.mac)
    /\ acc' = Append(acc, f)
    /\ outcome' = IF f.tag \in SwiftTag THEN "ok" ELSE "unknown"
    /\ UNCHANGED <<tx, issued, log, txMarks, rxMarks, process>>

(* A frame whose MAC does not: pull returns -1 before it touches the state *)
PullRejected(f, ad, intact) ==
    /\ process = "running"
    /\ ~Opens(rx, f, ad, intact)
    /\ outcome' = "invalidMessageLength"
    /\ UNCHANGED <<tx, rx, issued, log, acc, txMarks, rxMarks, process>>

(* A frame shorter than ABYTES: the capacity Swift computes is negative,   *)
(* and the array initialiser stops the process before the C pull is called *)
PullShort ==
    /\ process = "running"
    /\ process' = "trapped"
    /\ UNCHANGED <<tx, rx, issued, log, acc, txMarks, rxMarks, outcome>>

(* A message or a frame longer than MESSAGEBYTES_MAX: sodium_misuse.       *)
TooLong ==
    /\ process = "running"
    /\ process' = "misuse"
    /\ UNCHANGED <<tx, rx, issued, log, acc, txMarks, rxMarks, outcome>>

(* The explicit rekey function, exported by the C library product.         *)
RekeyTx ==
    /\ process = "running"
    /\ Len(txMarks[tx.root]) < MaxRekeys
    /\ tx' = RekeyedState(tx)
    /\ txMarks' = [txMarks EXCEPT ![tx.root] = Append(@, Len(log[tx.root]))]
    /\ outcome' = "ok"
    /\ UNCHANGED <<rx, issued, log, acc, rxMarks, process>>

RekeyRx ==
    /\ process = "running"
    /\ Len(rxMarks) < MaxRekeys
    /\ rx' = RekeyedState(rx)
    /\ rxMarks' = Append(rxMarks, Len(acc))
    /\ outcome' = "ok"
    /\ UNCHANGED <<tx, issued, log, acc, txMarks, process>>

Next ==
    \/ \E r \in Root : OpenPush(r) \/ OpenPull(r)
    \/ \E tag \in Byte, ad \in Ad : Push(tag, ad)
    \/ \E f \in OnWire, ad \in Ad, intact \in BOOLEAN :
           PullAccepted(f, ad, intact) \/ PullRejected(f, ad, intact)
    \/ PullShort
    \/ TooLong
    \/ RekeyTx
    \/ RekeyRx

Spec == Init /\ [][Next]_vars
-----------------------------------------------------------------------------
(* Every variable has its type; streams are always at a counter the next   *)
(* frame may use, never at zero, which rekey leaves behind.                *)
TypeOK ==
    /\ tx \in State /\ tx.ctr # 0
    /\ rx \in State /\ rx.ctr # 0
    /\ issued \subseteq Root
    /\ tx.root \in issued
    /\ log \in [Root -> Seq(Frame)]
    /\ acc \in Seq(Frame)
    /\ txMarks \in [Root -> Seq(Nat)]
    /\ rxMarks \in Seq(Nat)
    /\ outcome \in {"none", "ok", "invalidMessageLength", "unknown"}
    /\ process \in {"running", "trapped", "misuse"}

(* What a receiver has accepted is, in order and without a gap, a repeat   *)
(* or a stranger, the beginning of what the session's sender pushed,       *)
(* whatever the wire did: pull's comparison of MACs is the only check, and *)
(* the state it runs under is the only sequence number.                    *)
AcceptedInOrder ==
    /\ Len(acc) <= Len(log[rx.root])
    /\ \A i \in 1..Len(acc) : acc[i] = log[rx.root][i]

(* Between two frames of any sessions, sealed under one key, the counters  *)
(* differ: the keystream of a frame is used once, even if two inonces were *)
(* to collide.  It rests on the counter wrapping into a rekey.             *)
CounterUniquePerKey ==
    \A r, s \in Root : \A i \in 1..Len(log[r]), j \in 1..Len(log[s]) :
        (<<r, i>> # <<s, j>> /\ log[r][i].st.root = log[s][j].st.root
             /\ log[r][i].st.rekeys = log[s][j].st.rekeys)
        => log[r][i].st.ctr # log[s][j].st.ctr

(* The key of a frame tagged rekey or final, and of the frames before it,  *)
(* is not the sender's key any more, and seals no later frame.             *)
RekeyRetiresKey ==
    \A r \in Root : \A k \in 1..Len(log[r]) : AsksRekey(log[r][k].tag) =>
        \A i \in 1..k :
            /\ \A j \in (k + 1)..Len(log[r]) : log[r][i].st.rekeys # log[r][j].st.rekeys
            /\ tx.root = r => log[r][i].st.rekeys # tx.rekeys

(* The state a frame must be sealed under to be the n-th + 1 of session r: *)
(* that of the frame at that place, or the sender's own.                   *)
StateAfter(r, n) == IF n < Len(log[r]) THEN log[r][n + 1].st ELSE tx

(* The receiver's rekeyings are the sender's, as far as it has come.       *)
SameMarks ==
    /\ Len(rxMarks) <= Len(txMarks[rx.root])
    /\ \A i \in 1..Len(txMarks[rx.root]) :
           IF i <= Len(rxMarks) THEN rxMarks[i] = txMarks[rx.root][i]
           ELSE txMarks[rx.root][i] > Len(acc)

(* A receiver that makes the sender's explicit rekeyings at the same       *)
(* places can always open the next frame: rejected frames, frames with     *)
(* other additional data, automatic rekeyings and tags that Swift does not *)
(* know leave both ends in step.                                           *)
InStep ==
    (SameMarks /\ (Len(acc) < Len(log[rx.root]) \/ tx.root = rx.root))
        => rx = StateAfter(rx.root, Len(acc))

(* The stream implements an ordered channel per session.                   *)
Channel == INSTANCE OrderedChannel
               WITH Session <- Root, sent <- log, session <- rx.root, received <- acc

ChannelSpec == Channel!ChSpec
=============================================================================
