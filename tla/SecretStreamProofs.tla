------------------------- MODULE SecretStreamProofs -------------------------
(***************************************************************************)
(* Proofs about SecretStream, for every set of roots, additional data and  *)
(* tag bytes, every counter width and every bound.                         *)
(*                                                                         *)
(* Acceptance compares states, and nothing in a state says how many frames *)
(* it has seen.  What makes the comparison work is that a state remembers  *)
(* every MAC folded into it, in its inonce or in the history of its key    *)
(* (Folded): the states of two different places of one session are never   *)
(* equal.  FoldInv says so and is inductive with the types.                *)
(***************************************************************************)
EXTENDS SecretStream, FiniteSetTheorems, TLAPS

(* The MACs a state depends on.                                            *)
Folded(st) == st.inonce \union UNION {st.rekeys[k].inonce : k \in 1..Len(st.rekeys)}

SenderFolded   == Folded(tx) = 1..Len(log[tx.root])
ReceiverFolded == Folded(rx) = 1..Len(acc)

LogFolded ==
    \A r \in Root : \A i \in 1..Len(log[r]) :
        /\ log[r][i].st.root = r
        /\ log[r][i].mac = i
        /\ Folded(log[r][i].st) = 1..(i - 1)

NotIssuedIsEmpty == \A r \in Root : r \notin issued => log[r] = <<>>

FoldInv ==
    /\ TypeOK
    /\ SenderFolded
    /\ ReceiverFolded
    /\ LogFolded
    /\ NotIssuedIsEmpty
    /\ AcceptedInOrder
-----------------------------------------------------------------------------
(* A counter below its modulus steps to zero exactly at the last value.    *)
LEMMA CounterStep ==
    ASSUME NEW c \in 0..(CtrMod - 1)
    PROVE  /\ (c + 1) % CtrMod \in 0..(CtrMod - 1)
           /\ c + 1 < CtrMod => (c + 1) % CtrMod = c + 1
           /\ c + 1 = CtrMod => (c + 1) % CtrMod = 0
  BY CtrModAssumption

(* Opening gives a state that has folded nothing.                          *)
LEMMA OpenedFolded ==
    ASSUME NEW r \in Root
    PROVE  /\ OpenedState(r) \in State
           /\ OpenedState(r).root = r
           /\ OpenedState(r).ctr # 0
           /\ OpenedState(r).rekeys = <<>>
           /\ Folded(OpenedState(r)) = {}
  BY CtrModAssumption DEF OpenedState, State, Folded

(* There are no numbers from 1 to 0.                                       *)
LEMMA NothingFolded == 1..Len(<<>>) = {}
  OBVIOUS

(* A rekeying keeps the session and the set of MACs folded.                *)
LEMMA RekeyedFolded ==
    ASSUME NEW st \in State
    PROVE  /\ RekeyedState(st) \in State
           /\ RekeyedState(st).root = st.root
           /\ RekeyedState(st).ctr = 1
           /\ Len(RekeyedState(st).rekeys) = Len(st.rekeys) + 1
           /\ Folded(RekeyedState(st)) = Folded(st)
<1> DEFINE old == [inonce |-> st.inonce, ctr |-> st.ctr]
           new == RekeyedState(st)
           n   == Len(st.rekeys)
<1>1. old \in Rekeying
  BY DEF State, Rekeying
<1>2. /\ new \in State
      /\ new.root = st.root /\ new.ctr = 1 /\ new.inonce = {}
      /\ new.rekeys = Append(st.rekeys, old)
  <2>1. Append(st.rekeys, old) \in Seq(Rekeying)
    BY <1>1 DEF State
  <2>2. 1 \in 0..(CtrMod - 1) /\ {} \in SUBSET Nat
    BY CtrModAssumption
  <2>3. new = [st EXCEPT !.rekeys = Append(st.rekeys, old), !.inonce = {}, !.ctr = 1]
    BY DEF RekeyedState
  <2>. HIDE DEF old, new
  <2>. QED
    BY <2>1, <2>2, <2>3 DEF State
<1>3. /\ n \in Nat
      /\ Len(new.rekeys) = n + 1
      /\ new.rekeys[n + 1] = old
      /\ \A k \in 1..n : new.rekeys[k] = st.rekeys[k]
  BY <1>1, <1>2 DEF State
<1>4. (UNION {new.rekeys[k].inonce : k \in 1..(n + 1)})
        = (UNION {st.rekeys[k].inonce : k \in 1..n}) \union st.inonce
  <2>1. 1..(n + 1) = 1..n \union {n + 1}
    BY <1>3
  <2>2. old.inonce = st.inonce
    OBVIOUS
  <2>3. {new.rekeys[k].inonce : k \in 1..(n + 1)}
          = {st.rekeys[k].inonce : k \in 1..n} \union {st.inonce}
    BY <1>3, <2>1, <2>2
  <2>. QED
    BY <2>3
<1>. QED
  BY <1>2, <1>3, <1>4 DEF Folded

(* Folding a new MAC adds it and loses none: XOR of a MAC not yet folded.  *)
LEMMA PushedFolded ==
    ASSUME NEW st \in State, NEW tag \in Byte, NEW mac \in Nat, mac \notin Folded(st)
    PROVE  /\ PushedState(st, tag, mac) \in State
           /\ PushedState(st, tag, mac).root = st.root
           /\ PushedState(st, tag, mac).ctr # 0
           /\ Folded(PushedState(st, tag, mac)) = Folded(st) \union {mac}
           /\ \/ /\ PushedState(st, tag, mac).rekeys = st.rekeys
                 /\ PushedState(st, tag, mac).ctr = st.ctr + 1
                 /\ ~AsksRekey(tag)
              \/ Len(PushedState(st, tag, mac).rekeys) = Len(st.rekeys) + 1
<1> DEFINE next == [st EXCEPT !.inonce = Xor(@, {mac}), !.ctr = (@ + 1) % CtrMod]
<1>1. /\ next \in State /\ next.root = st.root /\ next.rekeys = st.rekeys
      /\ next.ctr = (st.ctr + 1) % CtrMod
      /\ next.inonce = st.inonce \union {mac}
  <2>1. mac \notin st.inonce
    BY DEF Folded
  <2>2. (st.ctr + 1) % CtrMod \in 0..(CtrMod - 1)
    BY CounterStep DEF State
  <2>3. Xor(st.inonce, {mac}) = st.inonce \union {mac}
    BY <2>1 DEF Xor
  <2>. QED
    BY <2>2, <2>3 DEF State
<1>2. Folded(next) = Folded(st) \union {mac}
  BY <1>1 DEF Folded
<1>3. CASE AsksRekey(tag) \/ next.ctr = 0
  <2>1. PushedState(st, tag, mac) = RekeyedState(next)
    BY <1>3 DEF PushedState
  <2>. HIDE DEF next
  <2>2. Len(RekeyedState(next).rekeys) = Len(st.rekeys) + 1
    BY <1>1, RekeyedFolded
  <2>. QED
    BY <1>1, <1>2, <2>1, <2>2, RekeyedFolded
<1>4. CASE ~(AsksRekey(tag) \/ next.ctr = 0)
  <2>1. PushedState(st, tag, mac) = next
    BY <1>4 DEF PushedState
  <2>2. next.ctr = st.ctr + 1
    BY <1>1, <1>4, CounterStep, CtrModAssumption DEF State
  <2>. QED
    BY <1>1, <1>2, <1>4, <2>1, <2>2
<1>. QED
  BY <1>3, <1>4

(* So the MACs folded are always the first ones of the session.            *)
LEMMA PushedNext ==
    ASSUME NEW st \in State, NEW tag \in Byte, NEW n \in Nat, Folded(st) = 1..n
    PROVE  /\ PushedState(st, tag, n + 1) \in State
           /\ PushedState(st, tag, n + 1).root = st.root
           /\ PushedState(st, tag, n + 1).ctr # 0
           /\ Folded(PushedState(st, tag, n + 1)) = 1..(n + 1)
<1>1. n + 1 \in Nat /\ n + 1 \notin Folded(st)
  OBVIOUS
<1>2. 1..n \union {n + 1} = 1..(n + 1)
  OBVIOUS
<1>3. Folded(PushedState(st, tag, n + 1)) = Folded(st) \union {n + 1}
  BY <1>1, PushedFolded
<1>. QED
  BY <1>1, <1>2, <1>3, PushedFolded

(* The two ends advance alike.                                             *)
LEMMA PulledIsPushed ==
    ASSUME NEW st, NEW tag, NEW mac
    PROVE  PulledState(st, tag, mac) = PushedState(st, tag, mac)
  BY DEF PulledState, PushedState
-----------------------------------------------------------------------------
(* FoldInv holds at the start.                                             *)
LEMMA InitFold == Init => FoldInv
<1> SUFFICES ASSUME Init PROVE FoldInv
  OBVIOUS
<1>1. PICK r \in Root : tx = OpenedState(r) /\ issued = {r}
  BY DEF Init
<1>2. PICK q \in Root : rx = OpenedState(q)
  BY DEF Init
<1>3. log = [x \in Root |-> <<>>] /\ acc = <<>>
  BY DEF Init
<1>4. TypeOK
  BY <1>1, <1>2, <1>3, OpenedFolded DEF Init, TypeOK
<1>5. SenderFolded /\ ReceiverFolded
  BY <1>1, <1>2, <1>3, OpenedFolded, NothingFolded DEF SenderFolded, ReceiverFolded
<1>6. LogFolded /\ NotIssuedIsEmpty /\ AcceptedInOrder
  BY <1>1, <1>2, <1>3, OpenedFolded DEF LogFolded, NotIssuedIsEmpty, AcceptedInOrder
<1>. QED
  BY <1>4, <1>5, <1>6 DEF FoldInv

(* A new root has sent nothing, as a newly opened state has folded nothing *)
LEMMA OpenPushFold ==
    ASSUME FoldInv, NEW r \in Root, OpenPush(r)
    PROVE  FoldInv'
<1>. USE DEF FoldInv
<1>1. /\ tx' = OpenedState(r) /\ issued' = issued \union {r} /\ r \notin issued
      /\ outcome' = "ok"
      /\ UNCHANGED <<rx, log, acc, txMarks, rxMarks, process>>
  BY DEF OpenPush
<1>2. TypeOK'
  BY <1>1, OpenedFolded DEF TypeOK
<1>3. SenderFolded'
  BY <1>1, OpenedFolded, NothingFolded DEF SenderFolded, NotIssuedIsEmpty
<1>4. ReceiverFolded' /\ LogFolded' /\ AcceptedInOrder'
  BY <1>1 DEF ReceiverFolded, LogFolded, AcceptedInOrder
<1>5. NotIssuedIsEmpty'
  BY <1>1 DEF NotIssuedIsEmpty
<1>. QED
  BY <1>2, <1>3, <1>4, <1>5

(* Opening a stream for decryption keeps FoldInv.                          *)
LEMMA OpenPullFold ==
    ASSUME FoldInv, NEW r \in Root, OpenPull(r)
    PROVE  FoldInv'
<1>. USE DEF FoldInv
<1>1. /\ rx' = OpenedState(r) /\ acc' = <<>> /\ rxMarks' = <<>> /\ outcome' = "ok"
      /\ UNCHANGED <<tx, issued, log, txMarks, process>>
  BY DEF OpenPull
<1>2. TypeOK'
  BY <1>1, OpenedFolded DEF TypeOK
<1>3. ReceiverFolded'
  BY <1>1, OpenedFolded, NothingFolded DEF ReceiverFolded
<1>4. AcceptedInOrder'
  BY <1>1, OpenedFolded DEF AcceptedInOrder, TypeOK
<1>5. SenderFolded' /\ LogFolded' /\ NotIssuedIsEmpty'
  BY <1>1 DEF SenderFolded, LogFolded, NotIssuedIsEmpty
<1>. QED
  BY <1>2, <1>3, <1>4, <1>5

(* The frame pushed is sealed under a state that has folded exactly the    *)
(* frames before it.                                                       *)
LEMMA PushFold ==
    ASSUME FoldInv, NEW tag \in Byte, NEW ad \in Ad, Push(tag, ad)
    PROVE  FoldInv'
<1>. DEFINE q == tx.root
            n == Len(log[q])
            f == [st |-> tx, ad |-> ad, tag |-> tag, mac |-> n + 1]
<1>1. /\ log' = [log EXCEPT ![q] = Append(@, f)]
      /\ tx' = PushedState(tx, tag, n + 1)
      /\ outcome' = "ok"
      /\ UNCHANGED <<rx, issued, acc, txMarks, rxMarks, process>>
  BY DEF Push
<1>2. /\ TypeOK /\ tx \in State /\ q \in Root /\ q \in issued
      /\ log \in [Root -> Seq(Frame)] /\ log[q] \in Seq(Frame) /\ n \in Nat
      /\ Folded(tx) = 1..n
  BY DEF FoldInv, TypeOK, SenderFolded, State
<1>3. /\ tx' \in State /\ tx'.root = q /\ tx'.ctr # 0
      /\ Folded(tx') = 1..(n + 1)
  BY <1>1, <1>2, PushedNext
<1>4. f \in Frame /\ f.st = tx /\ f.mac = n + 1
  BY <1>2 DEF Frame
<1>. HIDE DEF f, n, q
<1>5. /\ log' \in [Root -> Seq(Frame)]
      /\ log'[q] = Append(log[q], f)
      /\ Len(log'[q]) = n + 1
      /\ log'[q][n + 1] = f
      /\ \A i \in 1..n : log'[q][i] = log[q][i]
      /\ \A r \in Root : r # q => log'[r] = log[r]
  BY <1>1, <1>2, <1>4 DEF n
<1>6. TypeOK'
  BY <1>1, <1>2, <1>3, <1>5 DEF TypeOK
<1>7. SenderFolded'
  BY <1>3, <1>5 DEF SenderFolded
<1>8. ReceiverFolded'
  BY <1>1 DEF FoldInv, ReceiverFolded
<1>9. LogFolded'
  <2> SUFFICES ASSUME NEW r \in Root, NEW i \in 1..Len(log'[r])
               PROVE  /\ log'[r][i].st.root = r
                      /\ log'[r][i].mac = i
                      /\ Folded(log'[r][i].st) = 1..(i - 1)
    BY DEF LogFolded
  <2>1. CASE r # q \/ i \in 1..n
    <3>1. i \in 1..Len(log[r]) /\ log'[r][i] = log[r][i]
      BY <2>1, <1>5 DEF n
    <3>. QED
      BY <3>1 DEF FoldInv, LogFolded
  <2>2. CASE r = q /\ i = n + 1
    BY <2>2, <1>2, <1>4, <1>5 DEF q
  <2>. QED
    BY <2>1, <2>2, <1>2, <1>5
<1>10. NotIssuedIsEmpty'
  BY <1>1, <1>2, <1>5 DEF FoldInv, NotIssuedIsEmpty
<1>11. AcceptedInOrder'
  <2>1. /\ rx.root \in Root /\ Len(acc) \in Nat
        /\ Len(acc) <= Len(log[rx.root])
        /\ \A i \in 1..Len(acc) : acc[i] = log[rx.root][i]
    BY DEF FoldInv, TypeOK, State, AcceptedInOrder
  <2>2. CASE rx.root = q
    BY <2>1, <2>2, <1>1, <1>2, <1>5 DEF AcceptedInOrder, n
  <2>3. CASE rx.root # q
    BY <2>1, <2>3, <1>1, <1>5 DEF AcceptedInOrder
  <2>. QED
    BY <2>2, <2>3
<1>. QED
  BY <1>6, <1>7, <1>8, <1>9, <1>10, <1>11 DEF FoldInv

(* The frame that opens is the next one of the receiver's session.         *)
LEMMA OpensNext ==
    ASSUME FoldInv, NEW f \in OnWire, NEW ad, NEW intact, Opens(rx, f, ad, intact)
    PROVE  /\ Len(acc) < Len(log[rx.root])
           /\ f = log[rx.root][Len(acc) + 1]
           /\ f.mac = Len(acc) + 1
           /\ f \in Frame
<1>1. PICK r \in Root : f \in Sealed(r)
  BY DEF OnWire
<1>0. PICK i \in 1..Len(log[r]) : f = log[r][i]
  BY <1>1 DEF Sealed
<1>2. /\ f.st.root = r /\ f.mac = i
      /\ Folded(f.st) = 1..(i - 1)
  BY <1>0 DEF FoldInv, LogFolded
<1>3. f.st = rx
  BY DEF Opens
<1>4. r = rx.root /\ 1..Len(acc) = 1..(i - 1)
  BY <1>2, <1>3 DEF FoldInv, ReceiverFolded
<1>5. Len(acc) \in Nat /\ log[r] \in Seq(Frame) /\ Len(log[r]) \in Nat
  BY DEF FoldInv, TypeOK
<1>6. i = Len(acc) + 1
  <2>1. i - 1 \in Nat /\ (i - 1 >= 1 => i - 1 \in 1..(i - 1))
    BY <1>0, <1>5
  <2>2. Len(acc) >= 1 => Len(acc) \in 1..Len(acc)
    BY <1>5
  <2>. QED
    BY <1>4, <1>5, <2>1, <2>2
<1>. QED
  BY <1>0, <1>2, <1>4, <1>5, <1>6

(* So does pulling a frame that is accepted.                               *)
LEMMA PullFold ==
    ASSUME FoldInv, NEW f \in OnWire, NEW ad \in Ad, NEW intact \in BOOLEAN,
           PullAccepted(f, ad, intact)
    PROVE  FoldInv'
<1>. DEFINE n == Len(acc)
            L == log[rx.root]
<1>1. /\ rx' = PulledState(rx, f.tag, f.mac)
      /\ acc' = Append(acc, f)
      /\ outcome' \in {"ok", "unknown"}
      /\ UNCHANGED <<tx, issued, log, txMarks, rxMarks, process>>
  BY DEF PullAccepted
<1>2. /\ n < Len(L) /\ f = L[n + 1] /\ f.mac = n + 1
      /\ f \in Frame /\ f.tag \in Byte
  BY OpensNext DEF PullAccepted, Frame
<1>3. /\ TypeOK /\ rx \in State /\ acc \in Seq(Frame) /\ n \in Nat
      /\ Folded(rx) = 1..n
      /\ n <= Len(L) /\ \A i \in 1..n : acc[i] = L[i]
      /\ Len(L) \in Nat
  BY DEF FoldInv, TypeOK, ReceiverFolded, AcceptedInOrder, State
<1>4. /\ rx' \in State /\ rx'.root = rx.root /\ rx'.ctr # 0
      /\ Folded(rx') = 1..(n + 1)
  <2>1. rx' = PushedState(rx, f.tag, n + 1)
    BY <1>1, <1>2, PulledIsPushed
  <2>. QED
    BY <1>2, <1>3, <2>1, PushedNext
<1>5. /\ acc' \in Seq(Frame) /\ Len(acc') = n + 1
      /\ acc'[n + 1] = f /\ \A i \in 1..n : acc'[i] = acc[i]
  BY <1>1, <1>2, <1>3
<1>. HIDE DEF n, L
<1>6. TypeOK'
  BY <1>1, <1>3, <1>4, <1>5 DEF TypeOK
<1>7. ReceiverFolded'
  BY <1>4, <1>5 DEF ReceiverFolded
<1>8. AcceptedInOrder'
  <2>1. log'[rx'.root] = L
    BY <1>1, <1>4 DEF L
  <2>2. \A i \in 1..(n + 1) : acc'[i] = L[i]
    BY <1>2, <1>3, <1>5
  <2>. QED
    BY <2>1, <2>2, <1>2, <1>3, <1>5 DEF AcceptedInOrder
<1>9. SenderFolded' /\ LogFolded' /\ NotIssuedIsEmpty'
  BY <1>1 DEF FoldInv, SenderFolded, LogFolded, NotIssuedIsEmpty
<1>. QED
  BY <1>6, <1>7, <1>8, <1>9 DEF FoldInv

(* An explicit rekeying moves the MACs folded from the inonce to the key.  *)
LEMMA RekeyFold ==
    ASSUME FoldInv, RekeyTx \/ RekeyRx
    PROVE  FoldInv'
<1>. USE DEF FoldInv
<1>1. CASE RekeyTx
  <2>1. /\ tx' = RekeyedState(tx)
        /\ txMarks' = [txMarks EXCEPT ![tx.root] = Append(@, Len(log[tx.root]))]
        /\ outcome' = "ok"
        /\ UNCHANGED <<rx, issued, log, acc, rxMarks, process>>
    BY <1>1 DEF RekeyTx
  <2>2. /\ tx' \in State /\ tx'.root = tx.root /\ tx'.ctr = 1 /\ Folded(tx') = Folded(tx)
    BY <2>1, RekeyedFolded DEF TypeOK
  <2>3. txMarks' \in [Root -> Seq(Nat)]
    <3>1. tx.root \in Root /\ txMarks[tx.root] \in Seq(Nat) /\ Len(log[tx.root]) \in Nat
      BY DEF TypeOK, State
    <3>. QED
      BY <2>1, <3>1 DEF TypeOK
  <2>4. TypeOK'
    BY <2>1, <2>2, <2>3 DEF TypeOK
  <2>5. SenderFolded'
    BY <2>1, <2>2 DEF SenderFolded
  <2>6. ReceiverFolded' /\ LogFolded' /\ NotIssuedIsEmpty' /\ AcceptedInOrder'
    BY <2>1 DEF ReceiverFolded, LogFolded, NotIssuedIsEmpty, AcceptedInOrder
  <2>. QED
    BY <2>4, <2>5, <2>6
<1>2. CASE RekeyRx
  <2>1. /\ rx' = RekeyedState(rx)
        /\ rxMarks' = Append(rxMarks, Len(acc))
        /\ outcome' = "ok"
        /\ UNCHANGED <<tx, issued, log, acc, txMarks, process>>
    BY <1>2 DEF RekeyRx
  <2>2. /\ rx' \in State /\ rx'.root = rx.root /\ rx'.ctr = 1 /\ Folded(rx') = Folded(rx)
    BY <2>1, RekeyedFolded DEF TypeOK
  <2>3. rxMarks' \in Seq(Nat)
    BY <2>1 DEF TypeOK
  <2>4. TypeOK'
    BY <2>1, <2>2, <2>3 DEF TypeOK
  <2>5. ReceiverFolded'
    BY <2>1, <2>2 DEF ReceiverFolded
  <2>6. AcceptedInOrder'
    BY <2>1, <2>2 DEF AcceptedInOrder
  <2>7. SenderFolded' /\ LogFolded' /\ NotIssuedIsEmpty'
    BY <2>1 DEF SenderFolded, LogFolded, NotIssuedIsEmpty
  <2>. QED
    BY <2>4, <2>5, <2>6, <2>7
<1>. QED
  BY <1>1, <1>2

(* The other steps leave every part of FoldInv but the types alone.        *)
LEMMA OtherFold ==
    ASSUME FoldInv,
           \/ \E f \in OnWire, ad \in Ad, intact \in BOOLEAN : PullRejected(f, ad, intact)
           \/ PullShort
           \/ TooLong
           \/ UNCHANGED vars
    PROVE  FoldInv'
<1>1. UNCHANGED <<tx, rx, issued, log, acc, txMarks, rxMarks>>
  BY DEF PullRejected, PullShort, TooLong, vars
<1>2. TypeOK'
  BY <1>1 DEF FoldInv, TypeOK, PullRejected, PullShort, TooLong, vars
<1>. QED
  BY <1>1, <1>2 DEF FoldInv, SenderFolded, ReceiverFolded, LogFolded, NotIssuedIsEmpty,
                    AcceptedInOrder

(* So does every step.                                                     *)
LEMMA StepFold == FoldInv /\ [Next]_vars => FoldInv'
  BY OpenPushFold, OpenPullFold, PushFold, PullFold, RekeyFold, OtherFold DEF Next

(* FoldInv holds always.                                                   *)
LEMMA FoldInvariant == Spec => []FoldInv
  BY InitFold, StepFold, PTL DEF Spec

(* Every variable keeps its type, and no stream ever stands at counter 0.  *)
THEOREM TypeCorrect == Spec => []TypeOK
<1>1. FoldInv => TypeOK
  BY DEF FoldInv
<1>. QED
  BY <1>1, FoldInvariant, PTL

(* Whatever the wire does, a receiver accepts the beginning of what the    *)
(* session's sender pushed: in order, without gap, repeat or stranger.     *)
THEOREM InOrder == Spec => []AcceptedInOrder
<1>1. FoldInv => AcceptedInOrder
  BY DEF FoldInv
<1>. QED
  BY <1>1, FoldInvariant, PTL
-----------------------------------------------------------------------------
(***************************************************************************)
(* Keys and counters.  Along a session the history of the key only grows;  *)
(* while it does not, the counter does; a tag that asks for a rekeying     *)
(* makes it grow.                                                          *)
(***************************************************************************)
Precedes(f, st) ==
    /\ Len(f.st.rekeys) <= Len(st.rekeys)
    /\ f.st.rekeys = st.rekeys => f.st.ctr < st.ctr
    /\ AsksRekey(f.tag) => Len(f.st.rekeys) < Len(st.rekeys)

SenderKeys == \A i \in 1..Len(log[tx.root]) : Precedes(log[tx.root][i], tx)

LogKeys ==
    \A r \in Root : \A i, j \in 1..Len(log[r]) :
        i < j => Precedes(log[r][i], log[r][j].st)

KeyInv == SenderKeys /\ LogKeys

(* A frame sent has a state, a tag and its number.                         *)
LEMMA LogTyped ==
    ASSUME TypeOK, NEW r \in Root
    PROVE  /\ Len(log[r]) \in Nat
           /\ \A i \in 1..Len(log[r]) :
                 /\ log[r][i] \in Frame
                 /\ Len(log[r][i].st.rekeys) \in Nat
                 /\ log[r][i].st.ctr \in Nat
<1>1. log[r] \in Seq(Frame)
  BY DEF TypeOK
<1>2. \A f \in Frame : Len(f.st.rekeys) \in Nat /\ f.st.ctr \in Nat
  BY DEF Frame, State
<1>. HIDE DEF Frame
<1>3. \A i \in 1..Len(log[r]) : log[r][i] \in Frame
  BY <1>1
<1>. QED
  BY <1>1, <1>2, <1>3

(* A frame that precedes a state precedes the one a push leads to.         *)
LEMMA PrecedesPushed ==
    ASSUME NEW st \in State, NEW tag \in Byte, NEW mac \in Nat, mac \notin Folded(st),
           NEW f \in Frame, Precedes(f, st) \/ (f.st = st /\ f.tag = tag)
    PROVE  Precedes(f, PushedState(st, tag, mac))
<1>1. /\ Len(f.st.rekeys) \in Nat /\ f.st.ctr \in Nat
      /\ Len(st.rekeys) \in Nat /\ st.ctr \in Nat
  BY DEF Frame, State
<1>2. CASE /\ PushedState(st, tag, mac).rekeys = st.rekeys
           /\ PushedState(st, tag, mac).ctr = st.ctr + 1
           /\ ~AsksRekey(tag)
  BY <1>1, <1>2 DEF Precedes
<1>3. CASE Len(PushedState(st, tag, mac).rekeys) = Len(st.rekeys) + 1
  BY <1>1, <1>3 DEF Precedes
<1>. QED
  BY <1>2, <1>3, PushedFolded

(* A frame that precedes a state precedes what the state is rekeyed to.    *)
LEMMA PrecedesRekeyed ==
    ASSUME NEW st \in State, NEW f \in Frame, Precedes(f, st)
    PROVE  Precedes(f, RekeyedState(st))
<1>1. Len(f.st.rekeys) \in Nat /\ Len(st.rekeys) \in Nat
  BY DEF Frame, State
<1>. QED
  BY <1>1, RekeyedFolded DEF Precedes

(* Pushing keeps what is known of the keys.                                *)
LEMMA PushKeys ==
    ASSUME FoldInv, KeyInv, NEW tag \in Byte, NEW ad \in Ad, Push(tag, ad)
    PROVE  KeyInv'
<1>. DEFINE q == tx.root
            n == Len(log[q])
            f == [st |-> tx, ad |-> ad, tag |-> tag, mac |-> n + 1]
<1>1. /\ log' = [log EXCEPT ![q] = Append(@, f)]
      /\ tx' = PushedState(tx, tag, n + 1)
  BY DEF Push
<1>2. /\ tx \in State /\ q \in Root
      /\ log \in [Root -> Seq(Frame)] /\ log[q] \in Seq(Frame) /\ n \in Nat
      /\ Folded(tx) = 1..n
  BY DEF FoldInv, TypeOK, SenderFolded, State
<1>3. n + 1 \in Nat /\ n + 1 \notin Folded(tx)
  BY <1>2
<1>4. f \in Frame /\ f.st = tx /\ f.tag = tag
  BY <1>2 DEF Frame
<1>5. tx'.root = q
  BY <1>1, <1>2, <1>3, PushedFolded
<1>. HIDE DEF f, n, q
<1>6. /\ log'[q] = Append(log[q], f)
      /\ Len(log'[q]) = n + 1
      /\ log'[q][n + 1] = f
      /\ \A i \in 1..n : log'[q][i] = log[q][i] /\ log[q][i] \in Frame
      /\ \A r \in Root : r # q => log'[r] = log[r]
  BY <1>1, <1>2, <1>4 DEF n
<1>7. \A i \in 1..n : Precedes(log[q][i], tx)
  BY DEF KeyInv, SenderKeys, q, n
<1>8. SenderKeys'
  <2> SUFFICES ASSUME NEW i \in 1..(n + 1) PROVE Precedes(log'[q][i], tx')
    BY <1>5, <1>6 DEF SenderKeys
  <2>1. CASE i \in 1..n
    BY <2>1, <1>1, <1>2, <1>3, <1>6, <1>7, PrecedesPushed
  <2>2. CASE i = n + 1
    BY <2>2, <1>1, <1>2, <1>3, <1>4, <1>6, PrecedesPushed
  <2>. QED
    BY <2>1, <2>2, <1>2
<1>9. LogKeys'
  <2> SUFFICES ASSUME NEW r \in Root, NEW i \in 1..Len(log'[r]), NEW j \in 1..Len(log'[r]), i < j
               PROVE  Precedes(log'[r][i], log'[r][j].st)
    BY DEF LogKeys
  <2>1. CASE r # q
    BY <2>1, <1>6 DEF KeyInv, LogKeys
  <2>2. CASE r = q /\ j \in 1..n
    <3>1. i \in 1..n
      BY <2>2, <1>2
    <3>. QED
      BY <2>2, <3>1, <1>2, <1>6 DEF KeyInv, LogKeys, n
  <2>3. CASE r = q /\ j = n + 1
    <3>1. i \in 1..n
      BY <2>3, <1>2, <1>6
    <3>. QED
      BY <2>3, <3>1, <1>4, <1>6, <1>7
  <2>. QED
    BY <2>1, <2>2, <2>3, <1>2, <1>6
<1>. QED
  BY <1>8, <1>9 DEF KeyInv

(* So does every step.                                                     *)
LEMMA StepKeys ==
    ASSUME FoldInv, KeyInv, [Next]_vars
    PROVE  KeyInv'
<1>1. ASSUME NEW r \in Root, OpenPush(r) PROVE KeyInv'
  <2>1. tx' = OpenedState(r) /\ log' = log /\ log[r] = <<>>
    BY <1>1 DEF OpenPush, FoldInv, NotIssuedIsEmpty
  <2>. QED
    BY <2>1, OpenedFolded DEF KeyInv, SenderKeys, LogKeys
<1>2. ASSUME NEW tag \in Byte, NEW ad \in Ad, Push(tag, ad) PROVE KeyInv'
  BY <1>2, PushKeys
<1>3. CASE RekeyTx
  <2>1. tx' = RekeyedState(tx) /\ log' = log /\ tx \in State
    BY <1>3 DEF RekeyTx, FoldInv, TypeOK
  <2>2. tx'.root = tx.root /\ log[tx.root] \in Seq(Frame)
    BY <2>1, RekeyedFolded DEF FoldInv, TypeOK, State
  <2>. QED
    BY <2>1, <2>2, PrecedesRekeyed DEF KeyInv, SenderKeys, LogKeys
<1>4. CASE \/ \E r \in Root : OpenPull(r)
           \/ \E f \in OnWire, ad \in Ad, intact \in BOOLEAN :
                  PullAccepted(f, ad, intact) \/ PullRejected(f, ad, intact)
           \/ PullShort \/ TooLong \/ RekeyRx \/ UNCHANGED vars
  <2>1. UNCHANGED <<tx, log>>
    BY <1>4 DEF OpenPull, PullAccepted, PullRejected, PullShort, TooLong, RekeyRx, vars
  <2>. QED
    BY <2>1 DEF KeyInv, SenderKeys, LogKeys
<1>. QED
  BY <1>1, <1>2, <1>3, <1>4 DEF Next

(* It holds at the start.                                                  *)
LEMMA InitKeys == Init => KeyInv
<1> SUFFICES ASSUME Init PROVE KeyInv
  OBVIOUS
<1>1. tx.root \in Root /\ log = [r \in Root |-> <<>>]
  BY OpenedFolded DEF Init
<1>. QED
  BY <1>1 DEF KeyInv, SenderKeys, LogKeys

(* It holds always.                                                        *)
LEMMA KeyInvariant == Spec => [](FoldInv /\ KeyInv)
<1>1. Init => FoldInv /\ KeyInv
  BY InitFold, InitKeys
<1>2. FoldInv /\ KeyInv /\ [Next]_vars => (FoldInv /\ KeyInv)'
  BY StepFold, StepKeys
<1>. QED
  BY <1>1, <1>2, PTL DEF Spec

(* Under one key no two frames ever share a counter value, so none shares  *)
(* a keystream, whatever the inonces are.                                  *)
THEOREM CounterUnique == Spec => []CounterUniquePerKey
<1>1. ASSUME FoldInv, KeyInv PROVE CounterUniquePerKey
  <2> SUFFICES ASSUME NEW r \in Root, NEW s \in Root,
                      NEW i \in 1..Len(log[r]), NEW j \in 1..Len(log[s]),
                      <<r, i>> # <<s, j>>,
                      log[r][i].st.root = log[s][j].st.root,
                      log[r][i].st.rekeys = log[s][j].st.rekeys
               PROVE  log[r][i].st.ctr # log[s][j].st.ctr
    BY DEF CounterUniquePerKey
  <2>1. r = s /\ i # j
    BY <1>1 DEF FoldInv, LogFolded
  <2>2. i < j \/ j < i
    BY <2>1, <1>1 DEF FoldInv, TypeOK
  <2>3. log[r][i].st.ctr \in Nat /\ log[s][j].st.ctr \in Nat
    BY <1>1, LogTyped DEF FoldInv
  <2>. QED
    BY <1>1, <2>1, <2>2, <2>3 DEF KeyInv, LogKeys, Precedes
<1>. QED
  BY <1>1, KeyInvariant, PTL

(* A key is never used again after a frame tagged rekey or final.          *)
THEOREM KeyRetired == Spec => []RekeyRetiresKey
<1>1. ASSUME FoldInv, KeyInv PROVE RekeyRetiresKey
  <2> SUFFICES ASSUME NEW r \in Root, NEW k \in 1..Len(log[r]), AsksRekey(log[r][k].tag),
                      NEW i \in 1..k
               PROVE  /\ \A j \in (k + 1)..Len(log[r]) : log[r][i].st.rekeys # log[r][j].st.rekeys
                      /\ tx.root = r => log[r][i].st.rekeys # tx.rekeys
    BY DEF RekeyRetiresKey
  <2>1. Len(log[r]) \in Nat /\ i \in 1..Len(log[r]) /\ (i < k \/ i = k)
    BY <1>1, LogTyped DEF FoldInv
  <2>2. /\ \A j \in 1..Len(log[r]) : Len(log[r][j].st.rekeys) \in Nat
        /\ Len(tx.rekeys) \in Nat
    <3>1. tx \in State
      BY <1>1 DEF FoldInv, TypeOK
    <3>. QED
      BY <1>1, <3>1, LogTyped DEF FoldInv, State
  <2>. DEFINE len(m) == Len(log[r][m].st.rekeys)
  <2>0. len(i) \in Nat /\ len(k) \in Nat
    BY <2>1, <2>2
  <2>3. len(i) <= len(k)
    <3>1. CASE i = k
      BY <3>1, <2>1, <2>2
    <3>2. CASE i < k
      BY <3>2, <1>1, <2>1 DEF KeyInv, LogKeys, Precedes
    <3>. QED
      BY <3>1, <3>2, <2>1
  <2>4. ASSUME NEW j \in (k + 1)..Len(log[r])
        PROVE  log[r][i].st.rekeys # log[r][j].st.rekeys
    <3>1. j \in 1..Len(log[r]) /\ k < j
      BY <2>1
    <3>2. len(k) < len(j)
      BY <1>1, <3>1 DEF KeyInv, LogKeys, Precedes
    <3>3. len(j) \in Nat
      BY <2>2, <3>1
    <3>4. len(i) # len(j)
      <4>. HIDE DEF len
      <4>. QED
        BY <2>0, <2>3, <3>2, <3>3
    <3>. QED
      BY <3>4
  <2>5. ASSUME tx.root = r
        PROVE  log[r][i].st.rekeys # tx.rekeys
    <3>1. len(k) < Len(tx.rekeys)
      BY <1>1, <2>5 DEF KeyInv, SenderKeys, Precedes
    <3>2. len(i) # Len(tx.rekeys)
      <4>. HIDE DEF len
      <4>. QED
        BY <2>0, <2>2, <2>3, <3>1
    <3>. QED
      BY <3>2
  <2>. QED
    BY <2>4, <2>5
<1>. QED
  BY <1>1, KeyInvariant, PTL
-----------------------------------------------------------------------------
(* Every step of the stream is a step of the ordered channel, or none.     *)
LEMMA StepChannel ==
    ASSUME FoldInv, FoldInv', [Next]_vars
    PROVE  [Channel!ChNext]_(Channel!chVars)
<1>. USE DEF Channel!ChNext, Channel!chVars
<1>1. ASSUME NEW r \in Root, OpenPull(r) PROVE Channel!ChNext
  <2>1. rx'.root = r /\ acc' = <<>> /\ log' = log
    BY <1>1, OpenedFolded DEF OpenPull
  <2>2. Channel!Attach(r)
    BY <2>1 DEF Channel!Attach
  <2>. QED
    BY <2>2
<1>2. ASSUME NEW tag \in Byte, NEW ad \in Ad, Push(tag, ad) PROVE Channel!ChNext
  <2>. DEFINE q == tx.root
              f == [st |-> tx, ad |-> ad, tag |-> tag, mac |-> Len(log[q]) + 1]
  <2>1. /\ log' = [log EXCEPT ![q] = Append(@, f)] /\ UNCHANGED <<rx, acc>>
        /\ q \in Root /\ log[q] \in Seq(Frame) /\ log \in [Root -> Seq(Frame)]
    BY <1>2 DEF Push, FoldInv, TypeOK, State
  <2>2. f \in Frame
    BY <2>1 DEF FoldInv, TypeOK, Frame
  <2>. HIDE DEF f, q
  <2>3. log'[q] # <<>> /\ log'[q][Len(log'[q])] = f
    <3>1. log'[q] = Append(log[q], f)
      BY <2>1
    <3>2. Len(log'[q]) = Len(log[q]) + 1 /\ Len(log[q]) \in Nat
      BY <2>1, <2>2, <3>1
    <3>3. log'[q][Len(log[q]) + 1] = f
      BY <2>1, <2>2, <3>1
    <3>. QED
      BY <3>2, <3>3
  <2>4. Channel!Send(q)
    BY <2>1, <2>2, <2>3 DEF Channel!Send
  <2>. QED
    BY <2>1, <2>4
<1>3. ASSUME NEW f \in OnWire, NEW ad \in Ad, NEW intact \in BOOLEAN,
             PullAccepted(f, ad, intact)
      PROVE  Channel!ChNext
  <2>1. Len(acc) < Len(log[rx.root]) /\ f = log[rx.root][Len(acc) + 1]
        /\ f \in Frame /\ f.mac = Len(acc) + 1
    BY <1>3, OpensNext DEF PullAccepted
  <2>2. rx'.root = rx.root
    <3>1. rx \in State /\ Len(acc) \in Nat /\ Folded(rx) = 1..Len(acc) /\ f.tag \in Byte
      BY <2>1, SMTT(30) DEF FoldInv, TypeOK, ReceiverFolded, Frame
    <3>2. rx' = PushedState(rx, f.tag, Len(acc) + 1)
      BY <1>3, <2>1, PulledIsPushed DEF PullAccepted
    <3>. QED
      BY <3>1, <3>2, PushedNext
  <2>3. Channel!Deliver
    BY <1>3, <2>1, <2>2 DEF Channel!Deliver, PullAccepted
  <2>. QED
    BY <2>3
<1>4. CASE RekeyRx
  <2>1. rx'.root = rx.root /\ UNCHANGED <<log, acc>>
    BY <1>4, RekeyedFolded DEF RekeyRx, FoldInv, TypeOK
  <2>. QED
    BY <2>1
<1>5. CASE \/ \E r \in Root : OpenPush(r)
           \/ \E f \in OnWire, ad \in Ad, intact \in BOOLEAN : PullRejected(f, ad, intact)
           \/ PullShort \/ TooLong \/ RekeyTx \/ UNCHANGED vars
  <2>1. UNCHANGED <<log, rx, acc>>
    BY <1>5 DEF OpenPush, PullRejected, PullShort, TooLong, RekeyTx, vars
  <2>. QED
    BY <2>1
<1>. QED
  BY <1>1, <1>2, <1>3, <1>4, <1>5 DEF Next

(* The secret stream implements the ordered channel.                       *)
THEOREM Refinement == Spec => ChannelSpec
<1>1. Init => Channel!ChInit
  BY OpenedFolded DEF Init, Channel!ChInit
<1>. QED
  BY <1>1, StepChannel, FoldInvariant, PTL DEF Spec, ChannelSpec, Channel!ChSpec
-----------------------------------------------------------------------------
(***************************************************************************)
(* The two ends of a SecretStream stay in step.                            *)
(*                                                                         *)
(* A frame moves both ends alike, and leaves behind the state that it was  *)
(* sealed under; an explicit rekeying leaves nothing behind but a mark.    *)
(* The states between two frames are therefore named by how many           *)
(* rekeyings lead from one to the next (Ahead).  The sender's states are   *)
(* linked in this way (StartInv, LinkInv).  A receiver that has made the   *)
(* sender's rekeyings so far is some rekeyings short of the state that     *)
(* opens the next frame (BehindInv), or has made some before the sender    *)
(* did, and waits for it (BeyondInv).                                      *)
(***************************************************************************)

(* The state that d rekeyings in a row lead to.                            *)
Ahead(st, d) ==
    IF d = 0 THEN st
    ELSE [root   |-> st.root,
          rekeys |-> [i \in 1..(Len(st.rekeys) + d) |->
                         IF i <= Len(st.rekeys) THEN st.rekeys[i]
                         ELSE IF i = Len(st.rekeys) + 1
                              THEN [inonce |-> st.inonce, ctr |-> st.ctr]
                              ELSE [inonce |-> {}, ctr |-> 1]],
          inonce |-> {},
          ctr    |-> 1]

(* The sender's first m explicit rekeyings, and no others, came before its *)
(* frame n + 1.                                                            *)
Upto(r, n, m) ==
    /\ m \in 0..Len(txMarks[r])
    /\ \A i \in 1..m : txMarks[r][i] <= n
    /\ \A i \in (m + 1)..Len(txMarks[r]) : txMarks[r][i] > n

(* A frame or the sender stands n frames into the session.                 *)
Live(r, n) == n < Len(log[r]) \/ tx.root = r

MarksInv ==
    /\ \A r \in Root : \A i \in 1..Len(txMarks[r]) : txMarks[r][i] <= Len(log[r])
    /\ \A r \in Root : r \notin issued => txMarks[r] = <<>>
    /\ \A i \in 1..Len(rxMarks) : rxMarks[i] <= Len(acc)

StartInv ==
    \A r \in Root, m \in Nat :
        Live(r, 0) /\ Upto(r, 0, m) => StateAfter(r, 0) = Ahead(OpenedState(r), m)

(* The state that frame n of session r leads to.                           *)
Led(r, n) == PushedState(log[r][n].st, log[r][n].tag, n)

LinkInv ==
    \A r \in Root, m \in Nat, k \in Nat : \A n \in 1..Len(log[r]) :
        Live(r, n) /\ Upto(r, n, m) /\ Upto(r, n - 1, k) =>
            StateAfter(r, n) = Ahead(Led(r, n), m - k)

Agree ==
    \A i \in 1..Len(rxMarks) :
        i <= Len(txMarks[rx.root]) => rxMarks[i] = txMarks[rx.root][i]

(* The receiver has made the sender's rekeyings, but perhaps the last ones *)
(* before the next frame.                                                  *)
Behind ==
    /\ Agree
    /\ Len(rxMarks) <= Len(txMarks[rx.root])
    /\ \A i \in (Len(rxMarks) + 1)..Len(txMarks[rx.root]) : txMarks[rx.root][i] >= Len(acc)

(* The receiver has made the sender's rekeyings, and perhaps others where  *)
(* the sender stands now.                                                  *)
Beyond ==
    /\ Agree
    /\ Len(txMarks[rx.root]) <= Len(rxMarks)
    /\ \A i \in (Len(txMarks[rx.root]) + 1)..Len(rxMarks) : rxMarks[i] = Len(acc)
    /\ Len(acc) = Len(log[rx.root])

BehindInv ==
    Behind /\ Live(rx.root, Len(acc)) =>
        \A m \in Nat : Upto(rx.root, Len(acc), m) =>
            StateAfter(rx.root, Len(acc)) = Ahead(rx, m - Len(rxMarks))

BeyondInv ==
    Beyond =>
        /\ tx.root = rx.root => rx = Ahead(tx, Len(rxMarks) - Len(txMarks[rx.root]))
        /\ rx.root \notin issued => rx = Ahead(OpenedState(rx.root), Len(rxMarks))

StepInv == FoldInv /\ MarksInv /\ StartInv /\ LinkInv /\ BehindInv /\ BeyondInv
-----------------------------------------------------------------------------
Rekeyed(st, rekeys) == [root |-> st.root, rekeys |-> rekeys, inonce |-> {}, ctr |-> 1]

(* A rekeying, as a record.                                                *)
LEMMA RekeyedRecord ==
    ASSUME NEW st \in State
    PROVE  RekeyedState(st) = Rekeyed(st, Append(st.rekeys, [inonce |-> st.inonce, ctr |-> st.ctr]))
<1> DEFINE old  == [inonce |-> st.inonce, ctr |-> st.ctr]
           more == Append(st.rekeys, old)
           new  == Rekeyed(st, more)
<1>1. more \in Seq(Rekeying) /\ {} \in SUBSET Nat /\ 1 \in 0..(CtrMod - 1)
  BY CtrModAssumption DEF State, Rekeying
<1>2. RekeyedState(st) = [st EXCEPT !.rekeys = more, !.inonce = {}, !.ctr = 1]
  BY DEF RekeyedState
<1> HIDE DEF more
<1>3. /\ RekeyedState(st) \in State /\ RekeyedState(st).root = st.root
      /\ RekeyedState(st).rekeys = more /\ RekeyedState(st).inonce = {} /\ RekeyedState(st).ctr = 1
  BY <1>1, <1>2 DEF State
<1>4. /\ new \in State /\ new.root = st.root
      /\ new.rekeys = more /\ new.inonce = {} /\ new.ctr = 1
  BY <1>1 DEF State, Rekeyed
<1>5. \A s, t \in State : s.root = t.root /\ s.rekeys = t.rekeys /\ s.inonce = t.inonce /\ s.ctr = t.ctr => s = t
  BY DEF State
<1> HIDE DEF new
<1>6. RekeyedState(st) = new
  BY <1>3, <1>4, <1>5
<1>. QED
  BY <1>6 DEF new, more, old

(* One rekeying more, at either end of a run of them.                      *)
LEMMA AheadFirst ==
    ASSUME NEW st \in State, NEW d \in Nat
    PROVE  Ahead(RekeyedState(st), d) = Ahead(st, d + 1)
<1> DEFINE old == [inonce |-> st.inonce, ctr |-> st.ctr]
           new == RekeyedState(st)
           n   == Len(st.rekeys)
<1>1. n \in Nat /\ st.rekeys \in Seq(Rekeying) /\ old \in Rekeying
  BY DEF State, Rekeying
<1>5. /\ new = Rekeyed(st, Append(st.rekeys, old))
      /\ new.root = st.root /\ new.inonce = {} /\ new.ctr = 1 /\ new.rekeys = Append(st.rekeys, old)
  BY RekeyedRecord DEF Rekeyed
<1> HIDE DEF old, new
<1>2. /\ Len(new.rekeys) = n + 1
      /\ new.rekeys = [i \in 1..(n + 1) |-> IF i <= n THEN st.rekeys[i] ELSE old]
  BY <1>1, <1>5
<1>3. CASE d = 0
  <2>1. Ahead(st, 1) =
          [root |-> st.root,
           rekeys |-> [i \in 1..(n + 1) |-> IF i <= n THEN st.rekeys[i]
                                            ELSE IF i = n + 1 THEN old ELSE [inonce |-> {}, ctr |-> 1]],
           inonce |-> {}, ctr |-> 1]
    BY DEF Ahead, old
  <2>2. [i \in 1..(n + 1) |-> IF i <= n THEN st.rekeys[i] ELSE old]
         = [i \in 1..(n + 1) |-> IF i <= n THEN st.rekeys[i]
                                 ELSE IF i = n + 1 THEN old ELSE [inonce |-> {}, ctr |-> 1]]
    BY <1>1
  <2>3. Ahead(st, 1) = new
    BY <1>5, <1>2, <2>1, <2>2 DEF Rekeyed
  <2>. QED
    BY <1>3, <2>3 DEF Ahead, new
<1>4. CASE d # 0
  <2> DEFINE other == [inonce |-> {}, ctr |-> 1]
             one   == [i \in 1..(n + 1 + d) |-> IF i <= n + 1 THEN new.rekeys[i]
                                                ELSE IF i = n + 1 + 1 THEN other ELSE other]
             two   == [i \in 1..(n + (d + 1)) |-> IF i <= n THEN st.rekeys[i]
                                                  ELSE IF i = n + 1 THEN old ELSE other]
  <2>1. Ahead(new, d) = [root |-> st.root, rekeys |-> one, inonce |-> {}, ctr |-> 1]
    BY <1>2, <1>4, <1>5 DEF Ahead
  <2>2. Ahead(st, d + 1) = [root |-> st.root, rekeys |-> two, inonce |-> {}, ctr |-> 1]
    BY <1>4 DEF Ahead, old
  <2> HIDE DEF n, other
  <2>3. n + 1 + d = n + (d + 1)
    BY <1>1
  <2>4. \A i \in 1..(n + (d + 1)) : one[i] = two[i]
    BY <1>1, <1>2
  <2>5. one = two
    BY <2>3, <2>4
  <2> HIDE DEF one, two
  <2>. QED
    BY <2>1, <2>2, <2>5 DEF new
<1>. QED
  BY <1>3, <1>4

(* And one rekeying more at the end.                                       *)
LEMMA AheadLast ==
    ASSUME NEW st \in State, NEW d \in Nat
    PROVE  RekeyedState(Ahead(st, d)) = Ahead(st, d + 1)
<1> DEFINE n     == Len(st.rekeys)
           old   == [inonce |-> st.inonce, ctr |-> st.ctr]
           other == [inonce |-> {}, ctr |-> 1]
<1>1. n \in Nat /\ st.rekeys \in Seq(Rekeying) /\ old \in Rekeying /\ other \in Rekeying
  BY CtrModAssumption DEF State, Rekeying
<1>2. CASE d = 0
  <2>1. Ahead(st, d) = st /\ Ahead(RekeyedState(st), d) = RekeyedState(st)
    BY <1>2 DEF Ahead
  <2>. QED
    BY <2>1, AheadFirst
<1>3. CASE d # 0
  <2> DEFINE run(e) == [i \in 1..(n + e) |-> IF i <= n THEN st.rekeys[i]
                                              ELSE IF i = n + 1 THEN old ELSE other]
  <2>1. Ahead(st, d) = [root |-> st.root, rekeys |-> run(d), inonce |-> {}, ctr |-> 1]
    BY <1>3 DEF Ahead
  <2>2. Ahead(st, d + 1) = [root |-> st.root, rekeys |-> run(d + 1), inonce |-> {}, ctr |-> 1]
    BY <1>3 DEF Ahead
  <2> HIDE DEF n, old, other
  <2>3. ASSUME NEW e \in Nat
        PROVE  run(e) \in Seq(Rekeying) /\ Len(run(e)) = n + e
    <3>1. n + e \in Nat /\ \A i \in 1..n : st.rekeys[i] \in Rekeying
      BY <1>1 DEF n
    <3>2. \A i \in 1..(n + e) : run(e)[i] \in Rekeying
      BY <1>1, <3>1
    <3>3. DOMAIN run(e) = 1..(n + e)
      OBVIOUS
    <3>4. run(e) \in [1..(n + e) -> Rekeying]
      BY <3>2
    <3> HIDE DEF run
    <3>. QED
      BY <3>1, <3>3, <3>4
  <2>4. Append(run(d), other) = run(d + 1)
    <3>1. Append(run(d), other) \in Seq(Rekeying) /\ Len(Append(run(d), other)) = n + d + 1
      BY <1>1, <2>3
    <3>2. run(d + 1) \in Seq(Rekeying) /\ Len(run(d + 1)) = n + d + 1
      <4>1. d + 1 \in Nat /\ n + (d + 1) = n + d + 1
        BY <1>1
      <4> HIDE DEF run
      <4>. QED
        BY <2>3, <4>1
    <3>3. \A i \in 1..(n + d + 1) : Append(run(d), other)[i] = run(d + 1)[i]
      BY <1>1, <1>3, <2>3
    <3>4. \A s, t \in Seq(Rekeying) : Len(s) = Len(t) /\ (\A i \in 1..Len(s) : s[i] = t[i]) => s = t
      OBVIOUS
    <3>. QED
      BY <3>1, <3>2, <3>3, <3>4
  <2> HIDE DEF run
  <2>5. RekeyedState(Ahead(st, d)) = [root |-> st.root, rekeys |-> Append(run(d), other), inonce |-> {}, ctr |-> 1]
    <3>1. Ahead(st, d) \in State
      <4>1. {} \in SUBSET Nat /\ 1 \in 0..(CtrMod - 1)
        BY CtrModAssumption
      <4>. QED
        BY <2>1, <2>3, <4>1 DEF State
    <3>. QED
      BY <2>1, <3>1, RekeyedRecord DEF Rekeyed, other
  <2>. QED
    BY <2>2, <2>4, <2>5
<1>. QED
  BY <1>2, <1>3

(* How many rekeyings come before a place is one number.                   *)
LEMMA UptoOnce ==
    ASSUME NEW r \in Root, NEW n \in Nat, NEW m \in Nat, NEW k \in Nat, Upto(r, n, m), Upto(r, n, k),
           txMarks \in [Root -> Seq(Nat)]
    PROVE  m = k
<1>1. \A i \in 1..Len(txMarks[r]) : txMarks[r][i] \in Nat
  OBVIOUS
<1>2. /\ m \in 0..Len(txMarks[r]) /\ k \in 0..Len(txMarks[r]) /\ Len(txMarks[r]) \in Nat
      /\ \A i \in 1..m : txMarks[r][i] <= n
      /\ \A i \in 1..k : txMarks[r][i] <= n
      /\ \A i \in (m + 1)..Len(txMarks[r]) : txMarks[r][i] > n
      /\ \A i \in (k + 1)..Len(txMarks[r]) : txMarks[r][i] > n
  BY DEF Upto
<1>3. ASSUME m < k
      PROVE  FALSE
  <2>1. k \in 1..k /\ k \in (m + 1)..Len(txMarks[r]) /\ k \in 1..Len(txMarks[r])
    BY <1>2, <1>3
  <2>2. txMarks[r][k] <= n /\ txMarks[r][k] > n /\ txMarks[r][k] \in Nat
    BY <1>1, <1>2, <2>1
  <2>. QED
    BY <2>2
<1>4. ASSUME k < m
      PROVE  FALSE
  <2>1. m \in 1..m /\ m \in (k + 1)..Len(txMarks[r]) /\ m \in 1..Len(txMarks[r])
    BY <1>2, <1>4
  <2>2. txMarks[r][m] <= n /\ txMarks[r][m] > n /\ txMarks[r][m] \in Nat
    BY <1>1, <1>2, <2>1
  <2>. QED
    BY <2>2
<1>. QED
  BY <1>3, <1>4

(* All of them come before the place where the sender stands.              *)
LEMMA UptoAll ==
    ASSUME FoldInv, MarksInv, NEW r \in Root
    PROVE  Upto(r, Len(log[r]), Len(txMarks[r]))
BY DEF FoldInv, TypeOK, MarksInv, Upto

(* What the inductive steps use of the types.                              *)
LEMMA StepTypes ==
    ASSUME FoldInv
    PROVE  /\ tx \in State /\ rx \in State /\ tx.root \in Root /\ rx.root \in Root
           /\ tx.root \in issued
           /\ log \in [Root -> Seq(Frame)] /\ txMarks \in [Root -> Seq(Nat)]
           /\ acc \in Seq(Frame) /\ rxMarks \in Seq(Nat)
           /\ Len(acc) \in Nat /\ Len(rxMarks) \in Nat /\ Len(acc) <= Len(log[rx.root])
           /\ \A r \in Root : Len(log[r]) \in Nat /\ Len(txMarks[r]) \in Nat
           /\ \A r \in Root : r \notin issued => log[r] = <<>> /\ Len(log[r]) = 0
BY DEF FoldInv, TypeOK, State, AcceptedInOrder, NotIssuedIsEmpty

(* A frame leads from a state to a state.                                  *)
LEMMA LedType ==
    ASSUME FoldInv, NEW r \in Root, NEW n \in 1..Len(log[r])
    PROVE  Led(r, n) \in State
<1>1. log[r] \in Seq(Frame) /\ log[r][n] \in Frame /\ n - 1 \in Nat /\ n = (n - 1) + 1
  BY DEF FoldInv, TypeOK
<1>2. log[r][n].st \in State /\ log[r][n].tag \in Byte /\ Folded(log[r][n].st) = 1..(n - 1)
  BY <1>1 DEF Frame, FoldInv, LogFolded
<1>3. PushedState(log[r][n].st, log[r][n].tag, (n - 1) + 1) \in State
  BY <1>1, <1>2, PushedNext
<1>. QED
  BY <1>1, <1>3 DEF Led

(* No rekeying, no difference.                                             *)
LEMMA AheadNone == \A st : Ahead(st, 0) = st
BY DEF Ahead
-----------------------------------------------------------------------------
(* The steps of the sender                                                 *)

SenderInv == MarksInv /\ StartInv /\ LinkInv

(* A sender opened on a new root starts where a receiver that is ahead of  *)
(* it on that root has started.                                            *)
LEMMA OpenPushStep ==
    ASSUME StepInv, NEW r \in Root, OpenPush(r)
    PROVE  SenderInv' /\ BehindInv' /\ BeyondInv'
<1> USE DEF StepInv
<1>1. /\ tx' = OpenedState(r) /\ tx'.root = r /\ r \notin issued /\ issued' = issued \union {r}
      /\ UNCHANGED <<rx, log, acc, txMarks, rxMarks>>
  BY OpenedFolded DEF OpenPush
<1>2. Len(log[r]) = 0 /\ txMarks[r] = <<>> /\ Len(txMarks[r]) = 0
  BY <1>1, StepTypes DEF MarksInv
<1>3. /\ \A s, n, m : Upto(s, n, m)' <=> Upto(s, n, m)
      /\ \A s, n : Led(s, n)' = Led(s, n)
      /\ Agree' <=> Agree
      /\ Behind' <=> Behind
      /\ Beyond' <=> Beyond
  BY <1>1 DEF Upto, Led, Agree, Behind, Beyond
<1>4. /\ \A s \in Root, n \in Nat : s # r /\ Live(s, n)' => Live(s, n) /\ StateAfter(s, n)' = StateAfter(s, n)
      /\ \A n \in Nat : StateAfter(r, n)' = OpenedState(r)
  BY <1>1, <1>2 DEF Live, StateAfter
<1>5. \A n \in Nat, m \in Nat : Upto(r, n, m) => m = 0
  BY <1>2 DEF Upto
<1>6. MarksInv'
  BY <1>1 DEF MarksInv
<1>7. StartInv'
  <2> SUFFICES ASSUME NEW s \in Root, NEW m \in Nat, Live(s, 0)', Upto(s, 0, m)'
               PROVE  StateAfter(s, 0)' = Ahead(OpenedState(s), m)
    BY DEF StartInv
  <2>1. CASE s = r
    BY <2>1, <1>3, <1>4, <1>5, AheadNone
  <2>2. CASE s # r
    BY <2>2, <1>3, <1>4 DEF StartInv
  <2>. QED
    BY <2>1, <2>2
<1>8. LinkInv'
  <2> SUFFICES ASSUME NEW s \in Root, NEW m \in Nat, NEW k \in Nat, NEW n \in 1..Len(log'[s]),
                      Live(s, n)', Upto(s, n, m)', Upto(s, n - 1, k)'
               PROVE  StateAfter(s, n)' = Ahead(Led(s, n)', m - k)
    BY DEF LinkInv
  <2>1. s # r /\ n \in 1..Len(log[s]) /\ n \in Nat
    BY <1>1, <1>2, StepTypes
  <2>. QED
    BY <2>1, <1>3, <1>4 DEF LinkInv
<1>9. Beyond /\ rx.root = r => rx = Ahead(OpenedState(r), Len(rxMarks))
  BY <1>1 DEF BeyondInv
<1>10. BehindInv'
  <2>1. PICK s \in Root, n \in Nat, k \in Nat : s = rx.root /\ n = Len(acc) /\ k = Len(rxMarks)
    BY StepTypes
  <2> SUFFICES ASSUME Behind, Live(s, n)', NEW m \in Nat, Upto(s, n, m)
               PROVE  StateAfter(s, n)' = Ahead(rx, m - k)
    BY <1>1, <1>3, <2>1 DEF BehindInv
  <2>2. CASE s = r
    <3>1. n = 0 /\ k = 0 /\ m = 0
      BY <2>1, <2>2, <1>2, <1>5, StepTypes DEF Behind
    <3>2. Beyond
      BY <2>1, <2>2, <3>1, <1>2 DEF Behind, Beyond
    <3>3. rx = OpenedState(r)
      BY <2>1, <2>2, <3>1, <3>2, <1>9, AheadNone
    <3>. QED
      BY <2>2, <3>1, <3>3, <1>4, AheadNone
  <2>3. CASE s # r
    <3>1. Live(s, n) /\ StateAfter(s, n)' = StateAfter(s, n)
      BY <2>3, <1>4
    <3>. QED
      BY <2>1, <3>1 DEF BehindInv
  <2>. QED
    BY <2>2, <2>3
<1>11. BeyondInv'
  <2>1. CASE rx.root = r
    <3>1. Len(rxMarks) - Len(txMarks[r]) = Len(rxMarks)
      BY <1>2, StepTypes
    <3>. QED
      BY <2>1, <3>1, <1>1, <1>3, <1>9 DEF BeyondInv
  <2>2. CASE rx.root # r
    BY <2>2, <1>1, <1>3 DEF BeyondInv
  <2>. QED
    BY <2>1, <2>2
<1>. QED
  BY <1>6, <1>7, <1>8, <1>10, <1>11 DEF SenderInv

(* A frame moves the sender on from the state it leaves behind.            *)
LEMMA PushStep ==
    ASSUME StepInv, NEW tag \in Byte, NEW ad \in Ad, Push(tag, ad)
    PROVE  SenderInv' /\ BehindInv' /\ BeyondInv'
<1> USE DEF StepInv
<1>0. PICK q \in Root, N \in Nat : q = tx.root /\ N = Len(log[q])
  BY StepTypes
<1>1. tx \in State /\ log \in [Root -> Seq(Frame)] /\ Folded(tx) = 1..N
  BY <1>0, StepTypes DEF FoldInv, SenderFolded
<1>2. /\ log' = [log EXCEPT ![q] = Append(@, [st |-> tx, ad |-> ad, tag |-> tag, mac |-> N + 1])]
      /\ tx' = PushedState(tx, tag, N + 1)
      /\ UNCHANGED <<rx, issued, acc, txMarks, rxMarks>>
  BY <1>0 DEF Push
<1>3. tx'.root = q
  BY <1>0, <1>1, <1>2, PushedNext
<1>4. /\ Len(log'[q]) = N + 1 /\ log'[q][N + 1].st = tx /\ log'[q][N + 1].tag = tag
      /\ \A i \in 1..N : log'[q][i] = log[q][i]
      /\ \A s \in Root : s # q => log'[s] = log[s]
  BY <1>0, <1>1, <1>2
<1>5. /\ \A s, n, m : Upto(s, n, m)' <=> Upto(s, n, m)
      /\ Agree' <=> Agree
      /\ Behind' <=> Behind
  BY <1>2 DEF Upto, Agree, Behind
<1>6. ASSUME NEW s \in Root, NEW n \in 0..Len(log[s]), Live(s, n)'
      PROVE  Live(s, n) /\ StateAfter(s, n)' = StateAfter(s, n)
  <2>1. CASE s = q
    BY <1>0, <2>1, <1>1, <1>3, <1>4, <1>6 DEF Live, StateAfter
  <2>2. CASE s # q
    BY <1>0, <2>2, <1>3, <1>4, <1>6 DEF Live, StateAfter
  <2>. QED
    BY <2>1, <2>2
<1>7. /\ \A s \in Root : \A n \in 1..Len(log[s]) : Led(s, n)' = Led(s, n)
      /\ Led(q, N + 1)' = tx'
      /\ StateAfter(q, N + 1)' = tx'
  <2>1. \A s \in Root : \A n \in 1..Len(log[s]) : Led(s, n)' = Led(s, n)
    BY <1>0, <1>4 DEF Led
  <2>. QED
    BY <2>1, <1>1, <1>2, <1>4 DEF Led, StateAfter
<1>8. MarksInv'
  BY <1>0, <1>1, <1>2, <1>4, StepTypes DEF MarksInv
<1>9. StartInv'
  <2> SUFFICES ASSUME NEW s \in Root, NEW m \in Nat, Live(s, 0)', Upto(s, 0, m)'
               PROVE  StateAfter(s, 0)' = Ahead(OpenedState(s), m)
    BY DEF StartInv
  <2>1. 0 \in 0..Len(log[s])
    BY StepTypes
  <2>. QED
    BY <2>1, <1>5, <1>6 DEF StartInv
<1>10. LinkInv'
  <2> SUFFICES ASSUME NEW s \in Root, NEW m \in Nat, NEW k \in Nat, NEW n \in 1..Len(log'[s]),
                      Live(s, n)', Upto(s, n, m)', Upto(s, n - 1, k)'
               PROVE  StateAfter(s, n)' = Ahead(Led(s, n)', m - k)
    BY DEF LinkInv
  <2>1. CASE n \in 1..Len(log[s])
    <3>1. n \in 0..Len(log[s])
      BY <2>1
    <3>. QED
      BY <2>1, <3>1, <1>5, <1>6, <1>7 DEF LinkInv
  <2>2. CASE s = q /\ n = N + 1
    <3>1. Upto(q, N, Len(txMarks[q])) /\ Len(txMarks[q]) \in Nat /\ txMarks \in [Root -> Seq(Nat)]
      BY <1>0, <1>1, UptoAll, StepTypes
    <3>2. Upto(q, N + 1, Len(txMarks[q]))
      BY <3>1, <1>1 DEF Upto
    <3>3. Upto(q, N + 1, m) /\ Upto(q, N, k)
      BY <2>2, <1>1, <1>5
    <3>4. m = Len(txMarks[q]) /\ k = Len(txMarks[q]) 
      BY <3>1, <3>2, <3>3, <1>1, UptoOnce
    <3>. QED
      BY <2>2, <3>1, <3>4, <1>7, AheadNone
  <2>. QED
    BY <1>0, <2>1, <2>2, <1>1, <1>4
<1>11. Len(acc) \in 0..Len(log[rx.root]) /\ rx.root \in Root
  BY StepTypes
<1>12. BehindInv'
  <2>1. PICK s \in Root, n \in Nat : s = rx.root /\ n = Len(acc)
    BY StepTypes
  <2>2. n \in 0..Len(log[s])
    BY <2>1, <1>11
  <2> SUFFICES ASSUME Behind, Live(s, n)', NEW m \in Nat, Upto(s, n, m)
               PROVE  StateAfter(s, n)' = Ahead(rx, m - Len(rxMarks))
    BY <1>2, <1>5, <2>1 DEF BehindInv
  <2>. QED
    BY <2>1, <2>2, <1>6 DEF BehindInv
<1>13. BeyondInv'
  <2>1. CASE rx.root = q
    <3>1. Len(acc') < Len(log'[rx'.root])
      BY <1>0, <2>1, <1>2, <1>4, <1>11
    <3>2. ~Beyond'
      BY <3>1, <1>2, <1>11, StepTypes DEF Beyond
    <3>. QED
      BY <3>2 DEF BeyondInv
  <2>2. CASE rx.root # q
    <3>1. Beyond' => Beyond
      BY <2>2, <1>2, <1>4, <1>11 DEF Beyond, Agree
    <3>. QED
      BY <2>2, <3>1, <1>2, <1>3 DEF BeyondInv
  <2>. QED
    BY <2>1, <2>2
<1>. QED
  BY <1>8, <1>9, <1>10, <1>12, <1>13 DEF SenderInv

(* A rekeying of the sender catches up with the receiver, or adds one for  *)
(* it to make.                                                             *)
LEMMA RekeyTxStep ==
    ASSUME StepInv, RekeyTx
    PROVE  SenderInv' /\ BehindInv' /\ BeyondInv'
<1> USE DEF StepInv
<1>0. PICK q \in Root, N \in Nat, M \in Nat : q = tx.root /\ N = Len(log[q]) /\ M = Len(txMarks[q])
  BY StepTypes
<1>1. /\ tx' = RekeyedState(tx)
      /\ txMarks' = [txMarks EXCEPT ![q] = Append(@, N)]
      /\ UNCHANGED <<rx, issued, log, acc, rxMarks>>
  BY <1>0 DEF RekeyTx
<1>2. tx \in State /\ tx'.root = q /\ q \in issued
  BY <1>0, <1>1, StepTypes, RekeyedFolded
<1>3. /\ Len(txMarks'[q]) = M + 1 /\ txMarks'[q][M + 1] = N
      /\ \A i \in 1..M : txMarks'[q][i] = txMarks[q][i]
      /\ \A s \in Root : s # q => txMarks'[s] = txMarks[s]
  BY <1>0, <1>1, StepTypes
<1>4. /\ \A s \in Root : \A n, m : s # q => (Upto(s, n, m)' <=> Upto(s, n, m))
      /\ \A n \in Nat, m \in Nat : n < N /\ Upto(q, n, m)' => Upto(q, n, m) /\ m <= M
      /\ \A m \in Nat : Upto(q, N, m)' => m = M + 1
  <2>1. \A s \in Root : \A n, m : s # q => (Upto(s, n, m)' <=> Upto(s, n, m))
    BY <1>3 DEF Upto
  <2>2. ASSUME NEW n \in Nat, NEW m \in Nat, n < N, Upto(q, n, m)'
        PROVE  Upto(q, n, m) /\ m <= M
    <3>1. m # M + 1
      BY <1>0, <1>3, <2>2 DEF Upto
    <3>. QED
      BY <1>0, <1>3, <2>2, <3>1, SMTT(30) DEF Upto
  <2>3. ASSUME NEW m \in Nat, Upto(q, N, m)'
        PROVE  m = M + 1
    BY <1>0, <1>3, <2>3, SMTT(30) DEF Upto
  <2>. QED
    BY <2>1, <2>2, <2>3
<1>5. Upto(q, N, M)
  BY <1>0, UptoAll
<1>6. /\ \A s, n : Led(s, n)' = Led(s, n)
      /\ \A s \in Root : \A n : Live(s, n)' => Live(s, n)
      /\ \A s \in Root, n \in Nat : n < Len(log[s]) => StateAfter(s, n)' = StateAfter(s, n)
      /\ StateAfter(q, N) = tx /\ StateAfter(q, N)' = RekeyedState(tx) /\ Live(q, N)
  BY <1>0, <1>1, <1>2, StepTypes DEF Led, Live, StateAfter
<1>7. ASSUME NEW s \in Root, NEW n \in 0..Len(log[s]), Live(s, n)'
      PROVE  n < Len(log[s]) \/ (s = q /\ n = N)
  BY <1>0, <1>1, <1>2, <1>7 DEF Live
<1>8. MarksInv'
  BY <1>0, <1>1, <1>2, <1>3 DEF MarksInv
<1>9. \A m \in Nat : \A s \in Root : \A n \in Nat :
          n < Len(log[s]) /\ Upto(s, n, m)' => Upto(s, n, m)
  BY <1>0, <1>4
<1>10. StartInv'
  <2> SUFFICES ASSUME NEW s \in Root, NEW m \in Nat, Live(s, 0)', Upto(s, 0, m)'
               PROVE  StateAfter(s, 0)' = Ahead(OpenedState(s), m)
    BY DEF StartInv
  <2>1. CASE 0 < Len(log[s])
    BY <2>1, <1>6, <1>9 DEF StartInv
  <2>2. CASE s = q /\ N = 0
    <3>1. m = M + 1 /\ tx = Ahead(OpenedState(q), M)
      BY <2>2, <1>4, <1>5, <1>6 DEF StartInv
    <3>2. RekeyedState(Ahead(OpenedState(q), M)) = Ahead(OpenedState(q), M + 1)
      BY OpenedFolded, AheadLast
    <3>. QED
      BY <2>2, <3>1, <3>2, <1>6
  <2>. QED
    BY <2>1, <2>2, <1>7, StepTypes
<1>11. LinkInv'
  <2> SUFFICES ASSUME NEW s \in Root, NEW m \in Nat, NEW k \in Nat, NEW n \in 1..Len(log[s]),
                      Live(s, n)', Upto(s, n, m)', Upto(s, n - 1, k)'
               PROVE  StateAfter(s, n)' = Ahead(Led(s, n)', m - k)
    BY <1>1 DEF LinkInv
  <2>1. n \in Nat /\ n - 1 \in Nat /\ n - 1 < Len(log[s]) /\ n \in 0..Len(log[s])
    BY StepTypes
  <2>2. CASE n < Len(log[s])
    BY <2>1, <2>2, <1>6, <1>9 DEF LinkInv
  <2>3. CASE s = q /\ n = N
    <3>1. m = M + 1 /\ Upto(q, N - 1, k) /\ k <= M
      BY <2>1, <2>3, <1>4
    <3>2. tx = Ahead(Led(q, N), M - k)
      BY <2>3, <3>1, <1>5, <1>6 DEF LinkInv
    <3>3. Led(q, N) \in State /\ M - k \in Nat
      BY <2>3, <3>1, LedType
    <3>4. RekeyedState(Ahead(Led(q, N), M - k)) = Ahead(Led(q, N), (M - k) + 1)
      BY <3>3, AheadLast
    <3>5. (M - k) + 1 = m - k
      BY <3>1
    <3>. QED
      BY <2>3, <3>2, <3>4, <3>5, <1>6
  <2>. QED
    BY <2>1, <2>2, <2>3, <1>7
<1>12. PICK s \in Root, n \in Nat, k \in Nat : s = rx.root /\ n = Len(acc) /\ k = Len(rxMarks)
  BY StepTypes
<1>13. n \in 0..Len(log[s]) /\ rx \in State /\ \A i \in 1..k : rxMarks[i] <= n
  BY <1>12, StepTypes DEF MarksInv
<1>14. ASSUME Behind', k <= Len(txMarks[s])
       PROVE  Behind
  <2>1. Len(txMarks[s]) <= Len(txMarks'[s]) /\ \A i \in 1..Len(txMarks[s]) : txMarks'[s][i] = txMarks[s][i]
    <3>1. CASE s = q
      BY <3>1, <1>0, <1>3
    <3>2. CASE s # q
      BY <3>2, <1>0, <1>3, StepTypes
    <3>. QED
      BY <3>1, <3>2
  <2>2. /\ \A i \in 1..k : i <= Len(txMarks'[s]) => rxMarks[i] = txMarks'[s][i]
        /\ \A i \in (k + 1)..Len(txMarks'[s]) : txMarks'[s][i] >= n
    BY <1>1, <1>12, <1>14 DEF Behind, Agree
  <2>3. Len(txMarks[s]) \in Nat /\ Len(txMarks'[s]) \in Nat
    BY <1>0, <1>3, StepTypes
  <2>4. /\ \A i \in 1..k : i <= Len(txMarks[s]) => rxMarks[i] = txMarks[s][i]
        /\ \A i \in (k + 1)..Len(txMarks[s]) : txMarks[s][i] >= n
    <3>1. ASSUME NEW i \in 1..k, i <= Len(txMarks[s])
          PROVE  rxMarks[i] = txMarks[s][i]
      <4>1. i \in 1..Len(txMarks[s]) /\ i <= Len(txMarks'[s])
        BY <2>1, <2>3, <3>1
      <4>. QED
        BY <2>1, <2>2, <4>1
    <3>2. ASSUME NEW i \in (k + 1)..Len(txMarks[s])
          PROVE  txMarks[s][i] >= n
      <4>1. i \in 1..Len(txMarks[s]) /\ i \in (k + 1)..Len(txMarks'[s])
        BY <1>12, <2>1, <2>3, <3>2
      <4>. QED
        BY <2>1, <2>2, <4>1
    <3>. QED
      BY <3>1, <3>2
  <2>. QED
    BY <1>12, <1>14, <2>4 DEF Behind, Agree
<1>15. ASSUME Beyond', s = q
       PROVE  Beyond /\ M + 1 <= k
  <2>1. /\ \A i \in 1..k : i <= M + 1 => rxMarks[i] = txMarks'[q][i]
        /\ \A i \in (M + 2)..k : rxMarks[i] = n
        /\ M + 1 <= k /\ n = N
    BY <1>0, <1>1, <1>3, <1>12, <1>15 DEF Beyond, Agree
  <2>2. \A i \in 1..k : i <= M => rxMarks[i] = txMarks[q][i]
    BY <2>1, <1>3
  <2>3. \A i \in (M + 1)..k : rxMarks[i] = n
    BY <2>1, <1>3
  <2>. QED
    BY <1>0, <1>12, <1>15, <2>1, <2>2, <2>3 DEF Beyond, Agree
<1>16. BehindInv'
  <2> SUFFICES ASSUME Behind', Live(s, n)', NEW m \in Nat, Upto(s, n, m)'
               PROVE  StateAfter(s, n)' = Ahead(rx, m - k)
    BY <1>1, <1>12 DEF BehindInv
  <2>1. CASE k <= Len(txMarks[s])
    <3>1. Behind /\ Live(s, n)
      BY <2>1, <1>6, <1>14
    <3>2. CASE n < Len(log[s])
      <4>1. Upto(s, n, m) /\ StateAfter(s, n)' = StateAfter(s, n)
        BY <3>2, <1>6, <1>9
      <4>. QED
        BY <3>1, <4>1, <1>12 DEF BehindInv
    <3>3. CASE s = q /\ n = N
      <4>1. m = M + 1 /\ M - k \in Nat /\ (M - k) + 1 = m - k
        BY <2>1, <3>3, <1>0, <1>4
      <4>2. tx = Ahead(rx, M - k)
        BY <3>1, <3>3, <1>5, <1>6, <1>12 DEF BehindInv
      <4>3. RekeyedState(Ahead(rx, M - k)) = Ahead(rx, (M - k) + 1)
        BY <4>1, <1>13, AheadLast
      <4>. QED
        BY <3>3, <4>1, <4>2, <4>3, <1>6
    <3>. QED
      BY <3>2, <3>3, <1>7, <1>13
  <2>2. CASE ~(k <= Len(txMarks[s]))
    <3>1. k <= Len(txMarks'[s]) /\ Len(txMarks[s]) \in Nat
      BY <1>1, <1>12, StepTypes DEF Behind
    <3>2. s = q /\ k = M + 1
      BY <2>2, <3>1, <1>0, <1>3
    <3>3. rxMarks[k] = N
      <4>1. k \in 1..k /\ k <= Len(txMarks'[s])
        BY <3>1, <3>2, <1>0
      <4>2. rxMarks[k] = txMarks'[s][k]
        BY <4>1, <1>1, <1>12 DEF Behind, Agree
      <4>. QED
        BY <3>2, <4>2, <1>3
    <3>4. n = N
      BY <3>2, <3>3, <1>0, <1>13
    <3>5. Beyond'
      BY <3>1, <3>2, <3>4, <1>0, <1>1, <1>3, <1>12 DEF Behind, Beyond, Agree
    <3>6. rx = Ahead(tx, k - M)
      BY <3>2, <3>5, <1>0, <1>12, <1>15 DEF BeyondInv
    <3>7. k - M = 0 + 1 /\ m = M + 1
      BY <3>2, <3>4, <1>4
    <3>8. rx = RekeyedState(tx)
      BY <3>6, <3>7, <1>2, AheadLast, AheadNone
    <3>9. m - k = 0
      BY <3>2, <3>7
    <3>. QED
      BY <3>2, <3>4, <3>8, <3>9, <1>6, AheadNone
  <2>. QED
    BY <2>1, <2>2
<1>17. BeyondInv'
  <2>1. CASE s = q
    <3> SUFFICES ASSUME Beyond'
                 PROVE  rx = Ahead(tx', k - (M + 1))
      BY <2>1, <1>1, <1>2, <1>3, <1>12 DEF BeyondInv
    <3>1. rx = Ahead(tx, k - M) /\ M + 1 <= k
      BY <2>1, <1>0, <1>12, <1>15 DEF BeyondInv
    <3>2. k - (M + 1) \in Nat /\ (k - (M + 1)) + 1 = k - M
      BY <3>1
    <3>3. Ahead(RekeyedState(tx), k - (M + 1)) = Ahead(tx, (k - (M + 1)) + 1)
      BY <3>2, <1>2, AheadFirst
    <3>. QED
      BY <3>1, <3>2, <3>3, <1>1
  <2>2. CASE s # q
    <3>1. Beyond' => Beyond
      BY <2>2, <1>1, <1>3, <1>12 DEF Beyond, Agree
    <3>. QED
      BY <2>2, <3>1, <1>1, <1>2, <1>12 DEF BeyondInv
  <2>. QED
    BY <2>1, <2>2
<1>. QED
  BY <1>8, <1>10, <1>11, <1>16, <1>17 DEF SenderInv
-----------------------------------------------------------------------------
(* The steps of the receiver                                               *)

(* They leave the sender alone.                                            *)
LEMMA SenderKept ==
    ASSUME StepInv, UNCHANGED <<tx, issued, log, txMarks>>
    PROVE  /\ StartInv' /\ LinkInv'
           /\ \A s, n, m : Upto(s, n, m)' <=> Upto(s, n, m)
           /\ \A s, n : (Live(s, n)' <=> Live(s, n)) /\ StateAfter(s, n)' = StateAfter(s, n)
<1>1. /\ \A s, n, m : Upto(s, n, m)' <=> Upto(s, n, m)
      /\ \A s, n : (Live(s, n)' <=> Live(s, n)) /\ StateAfter(s, n)' = StateAfter(s, n)
      /\ \A s, n : Led(s, n)' = Led(s, n)
  BY DEF Upto, Live, StateAfter, Led
<1>2. StartInv'
  BY <1>1 DEF StepInv, StartInv
<1>3. LinkInv'
  BY <1>1 DEF StepInv, LinkInv
<1>. QED
  BY <1>1, <1>2, <1>3

(* A receiver opened again starts where the sender of the root has         *)
(* started.                                                                *)
LEMMA OpenPullStep ==
    ASSUME StepInv, NEW r \in Root, OpenPull(r)
    PROVE  SenderInv' /\ BehindInv' /\ BeyondInv'
<1> USE DEF StepInv
<1>1. /\ rx' = OpenedState(r) /\ rx'.root = r /\ acc' = <<>> /\ rxMarks' = <<>>
      /\ Len(acc') = 0 /\ Len(rxMarks') = 0
      /\ UNCHANGED <<tx, issued, log, txMarks>>
  BY OpenedFolded DEF OpenPull
<1>2. SenderInv'
  <2>1. MarksInv'
    BY <1>1 DEF MarksInv
  <2>. QED
    BY <2>1, <1>1, SenderKept DEF SenderInv
<1>3. /\ \A s, n, m : Upto(s, n, m)' <=> Upto(s, n, m)
      /\ \A s, n : (Live(s, n)' <=> Live(s, n)) /\ StateAfter(s, n)' = StateAfter(s, n)
  BY <1>1, SenderKept
<1>4. BehindInv'
  <2> SUFFICES ASSUME Live(r, 0), NEW m \in Nat, Upto(r, 0, m)
               PROVE  StateAfter(r, 0) = Ahead(OpenedState(r), m)
    BY <1>1, <1>3 DEF BehindInv
  <2>. QED
    BY DEF StartInv
<1>5. BeyondInv'
  <2> SUFFICES ASSUME Beyond'
               PROVE  /\ tx.root = r => OpenedState(r) = Ahead(tx, 0)
                      /\ OpenedState(r) = Ahead(OpenedState(r), 0)
    <3>1. Beyond' => Len(txMarks[r]) = 0
      BY <1>1, StepTypes DEF Beyond
    <3>. QED
      BY <1>1, <3>1 DEF BeyondInv
  <2>1. Len(log[r]) = 0 /\ Len(txMarks[r]) = 0
    BY <1>1, StepTypes DEF Beyond
  <2>2. Upto(r, 0, 0)
    BY <2>1, UptoAll
  <2>3. tx.root = r => Live(r, 0) /\ StateAfter(r, 0) = tx
    BY <2>1 DEF Live, StateAfter
  <2>. QED
    BY <2>2, <2>3, AheadNone DEF StartInv
<1>. QED
  BY <1>2, <1>4, <1>5

(* A receiver that opens a frame was in the state it was sealed under, and *)
(* is led where the sender was led.                                        *)
LEMMA PullStep ==
    ASSUME StepInv, NEW f \in OnWire, NEW ad \in Ad, NEW intact \in BOOLEAN,
           PullAccepted(f, ad, intact)
    PROVE  SenderInv' /\ BehindInv' /\ BeyondInv'
<1> USE DEF StepInv
<1>0. PICK r \in Root, n \in Nat, k \in Nat, M \in Nat :
          r = rx.root /\ n = Len(acc) /\ k = Len(rxMarks) /\ M = Len(txMarks[r])
  BY StepTypes
<1>1. /\ Opens(rx, f, ad, intact) /\ rx' = PulledState(rx, f.tag, f.mac) /\ acc' = Append(acc, f)
      /\ UNCHANGED <<tx, issued, log, txMarks, rxMarks>>
  BY DEF PullAccepted
<1>2. n + 1 \in 1..Len(log[r]) /\ f = log[r][n + 1] /\ f.mac = n + 1 /\ f \in Frame /\ f.st = rx
  BY <1>0, <1>1, OpensNext, StepTypes DEF Opens
<1>3. rx' = Led(r, n + 1)
  BY <1>1, <1>2, PulledIsPushed DEF Led
<1>4. rx'.root = r /\ Len(acc') = n + 1
  <2>1. Folded(rx) = 1..n
    BY <1>0 DEF FoldInv, ReceiverFolded
  <2>. QED
    BY <1>0, <1>1, <1>2, <2>1, PulledIsPushed, PushedNext, StepTypes DEF Frame
<1>5. /\ \A i \in 1..k : rxMarks[i] <= n
      /\ \A s, m, j : Upto(s, m, j)' <=> Upto(s, m, j)
      /\ \A s, m : (Live(s, m)' <=> Live(s, m)) /\ StateAfter(s, m)' = StateAfter(s, m)
  BY <1>0, <1>1, SenderKept DEF MarksInv
<1>6. SenderInv'
  <2>1. MarksInv'
    <3>1. \A i \in 1..k : rxMarks[i] <= n + 1
      BY <1>0, <1>5, StepTypes
    <3>. QED
      BY <3>1, <1>0, <1>1, <1>4 DEF MarksInv
  <2>. QED
    BY <2>1, <1>1, SenderKept DEF SenderInv
<1>7. ASSUME NEW m \in Nat, Upto(r, n, k), Upto(r, n + 1, m), Live(r, n + 1)
      PROVE  StateAfter(r, n + 1) = Ahead(rx', m - k)
  <2>1. (n + 1) - 1 = n
    OBVIOUS
  <2>. QED
    BY <1>2, <1>3, <1>7, <2>1 DEF LinkInv
<1>8. txMarks \in [Root -> Seq(Nat)] /\ \A i \in 1..M : txMarks[r][i] \in Nat
  BY <1>0, StepTypes
<1>9. BehindInv'
  <2> SUFFICES ASSUME Behind', Live(r, n + 1), NEW m \in Nat, Upto(r, n + 1, m)
               PROVE  StateAfter(r, n + 1) = Ahead(rx', m - k)
    BY <1>0, <1>1, <1>4, <1>5 DEF BehindInv
  <2>1. /\ k <= M /\ \A i \in 1..k : rxMarks[i] = txMarks[r][i]
        /\ \A i \in (k + 1)..M : txMarks[r][i] >= n + 1
    BY <1>0, <1>1, <1>4 DEF Behind, Agree
  <2>2. Upto(r, n, k)
    <3>1. \A i \in 1..k : txMarks[r][i] <= n
      BY <2>1, <1>5
    <3>2. ASSUME NEW i \in (k + 1)..M
          PROVE  txMarks[r][i] > n
      <4>1. i \in 1..M
        BY <2>1, <3>2
      <4>2. txMarks[r][i] \in Nat /\ txMarks[r][i] >= n + 1
        BY <2>1, <4>1, <1>8
      <4>. QED
        BY <4>2
    <3>. QED
      BY <1>0, <2>1, <3>1, <3>2 DEF Upto
  <2>. QED
    BY <2>2, <1>7
<1>10. BeyondInv'
  <2> SUFFICES ASSUME Beyond'
               PROVE  /\ tx.root = r => rx' = Ahead(tx, k - M)
                      /\ r \in issued
    BY <1>0, <1>1, <1>4 DEF BeyondInv
  <2>1. /\ M <= k /\ \A i \in 1..M : rxMarks[i] = txMarks[r][i]
        /\ \A i \in (M + 1)..k : rxMarks[i] = n + 1
        /\ n + 1 = Len(log[r])
    BY <1>0, <1>1, <1>4 DEF Beyond, Agree
  <2>2. k = M
    BY <2>1, <1>5
  <2>3. Upto(r, n, k) /\ Upto(r, n + 1, k)
    <3>1. \A i \in 1..k : txMarks[r][i] <= n /\ txMarks[r][i] <= n + 1
      BY <2>1, <2>2, <1>5, <1>8
    <3>2. k = Len(txMarks[r])
      BY <2>2, <1>0, Zenon
    <3>3. k \in 0..k
      OBVIOUS
    <3>4. \A i \in (k + 1)..k : i > i
      OBVIOUS
    <3>. QED
      BY <3>1, <3>2, <3>3, <3>4 DEF Upto
  <2>4. tx.root = r => Live(r, n + 1) /\ StateAfter(r, n + 1) = tx
    BY <2>1 DEF Live, StateAfter
  <2>5. r \in issued
    BY <1>2, StepTypes
  <2>6. k - k = 0 /\ k - M = 0
    BY <2>2
  <2>. QED
    BY <2>3, <2>4, <2>5, <2>6, <1>7, AheadNone
<1>. QED
  BY <1>6, <1>9, <1>10

(* A rekeying of the receiver is one that the sender has made there, or    *)
(* may make.                                                               *)
LEMMA RekeyRxStep ==
    ASSUME StepInv, RekeyRx
    PROVE  SenderInv' /\ BehindInv' /\ BeyondInv'
<1> USE DEF StepInv
<1>0. PICK r \in Root, n \in Nat, k \in Nat, M \in Nat :
          r = rx.root /\ n = Len(acc) /\ k = Len(rxMarks) /\ M = Len(txMarks[r])
  BY StepTypes
<1>1. /\ rx' = RekeyedState(rx) /\ rxMarks' = Append(rxMarks, n)
      /\ UNCHANGED <<tx, issued, log, acc, txMarks>>
  BY <1>0 DEF RekeyRx
<1>2. /\ rx \in State /\ rx'.root = r /\ Len(rxMarks') = k + 1 /\ rxMarks'[k + 1] = n
      /\ \A i \in 1..k : rxMarks'[i] = rxMarks[i] /\ rxMarks[i] <= n
  BY <1>0, <1>1, StepTypes, RekeyedFolded DEF MarksInv
<1>3. /\ \A s, m, j : Upto(s, m, j)' <=> Upto(s, m, j)
      /\ \A s, m : (Live(s, m)' <=> Live(s, m)) /\ StateAfter(s, m)' = StateAfter(s, m)
  BY <1>1, SenderKept
<1>4. SenderInv'
  <2>1. MarksInv'
    BY <1>0, <1>1, <1>2 DEF MarksInv
  <2>. QED
    BY <2>1, <1>1, SenderKept DEF SenderInv
<1>5. txMarks \in [Root -> Seq(Nat)] /\ \A i \in 1..M : txMarks[r][i] \in Nat
  BY <1>0, StepTypes
<1>6. ASSUME Agree'
      PROVE  /\ Agree
             /\ k + 1 <= M => txMarks[r][k + 1] = n
  <2>1. \A i \in 1..(k + 1) : i <= M => rxMarks'[i] = txMarks[r][i]
    BY <1>0, <1>1, <1>2, <1>6 DEF Agree
  <2>2. \A i \in 1..k : i <= M => rxMarks[i] = txMarks[r][i]
    BY <2>1, <1>2
  <2>3. k + 1 <= M => txMarks[r][k + 1] = n
    BY <2>1, <1>2
  <2>. QED
    BY <2>2, <2>3, <1>0 DEF Agree
<1>7. ASSUME Agree', k + 1 <= M, \A i \in (k + 2)..M : txMarks[r][i] >= n
      PROVE  Behind
  <2>1. \A i \in (k + 1)..M : txMarks[r][i] >= n
    BY <1>6, <1>7
  <2>. QED
    BY <2>1, <1>0, <1>6, <1>7 DEF Behind
<1>8. ASSUME Behind, NEW m \in Nat, k + 1 <= m, Live(r, n), Upto(r, n, m)
      PROVE  StateAfter(r, n) = Ahead(rx', m - (k + 1))
  <2>1. StateAfter(r, n) = Ahead(rx, m - k)
    BY <1>0, <1>8 DEF BehindInv
  <2>2. m - (k + 1) \in Nat /\ (m - (k + 1)) + 1 = m - k
    BY <1>8
  <2>3. Ahead(RekeyedState(rx), m - (k + 1)) = Ahead(rx, (m - (k + 1)) + 1)
    BY <2>2, <1>2, AheadFirst
  <2>. QED
    BY <2>1, <2>2, <2>3, <1>1
<1>9. BehindInv'
  <2> SUFFICES ASSUME Behind', Live(r, n), NEW m \in Nat, Upto(r, n, m)
               PROVE  StateAfter(r, n) = Ahead(rx', m - (k + 1))
    BY <1>0, <1>1, <1>2, <1>3 DEF BehindInv
  <2>1. Agree' /\ k + 1 <= M /\ \A i \in (k + 2)..M : txMarks[r][i] >= n
    BY <1>0, <1>1, <1>2 DEF Behind
  <2>2. Behind /\ txMarks[r][k + 1] = n
    BY <2>1, <1>6, <1>7
  <2>3. k + 1 <= m
    BY <2>1, <2>2, <1>0, <1>5 DEF Upto
  <2>. QED
    BY <2>2, <2>3, <1>8
<1>10. BeyondInv'
  <2> SUFFICES ASSUME Beyond'
               PROVE  /\ tx.root = r => rx' = Ahead(tx, (k + 1) - M)
                      /\ r \notin issued => rx' = Ahead(OpenedState(r), k + 1)
    BY <1>0, <1>1, <1>2 DEF BeyondInv
  <2>1. /\ Agree' /\ M <= k + 1 /\ n = Len(log[r])
        /\ \A i \in (M + 1)..(k + 1) : rxMarks'[i] = n
    BY <1>0, <1>1, <1>2 DEF Beyond
  <2>2. CASE M <= k
    <3>1. \A i \in (M + 1)..k : rxMarks[i] = n
      BY <2>1, <1>2
    <3>2. Beyond
      BY <2>1, <2>2, <3>1, <1>0, <1>6 DEF Beyond
    <3>3. k - M \in Nat /\ (k - M) + 1 = (k + 1) - M
      BY <2>2
    <3>4. tx.root = r => rx' = Ahead(tx, (k + 1) - M)
      <4>1. tx.root = r => rx = Ahead(tx, k - M)
        BY <3>2, <1>0 DEF BeyondInv
      <4>2. RekeyedState(Ahead(tx, k - M)) = Ahead(tx, (k - M) + 1)
        BY <3>3, StepTypes, AheadLast
      <4>. QED
        BY <3>3, <4>1, <4>2, <1>1
    <3>5. r \notin issued => rx' = Ahead(OpenedState(r), k + 1)
      <4>1. r \notin issued => rx = Ahead(OpenedState(r), k)
        BY <3>2, <1>0 DEF BeyondInv
      <4>2. RekeyedState(Ahead(OpenedState(r), k)) = Ahead(OpenedState(r), k + 1)
        BY OpenedFolded, AheadLast
      <4>. QED
        BY <4>1, <4>2, <1>1
    <3>. QED
      BY <3>4, <3>5
  <2>3. CASE M = k + 1
    <3>1. Behind
      BY <2>1, <2>3, <1>7
    <3>2. Upto(r, n, M)
      BY <2>1, <1>0, UptoAll
    <3>3. tx.root = r => Live(r, n) /\ StateAfter(r, n) = tx
      BY <2>1 DEF Live, StateAfter
    <3>4. tx.root = r => tx = Ahead(rx', M - (k + 1))
      BY <2>3, <3>1, <3>2, <3>3, <1>8
    <3>5. M - (k + 1) = 0 /\ (k + 1) - M = 0
      BY <2>3
    <3>6. r \in issued
      BY <2>3, <1>0 DEF MarksInv
    <3>. QED
      BY <3>4, <3>5, <3>6, AheadNone
  <2>. QED
    BY <2>1, <2>2, <2>3
<1>. QED
  BY <1>4, <1>9, <1>10

(* The invariant holds at the start.                                       *)
LEMMA InitStep == Init => StepInv
<1> SUFFICES ASSUME Init
             PROVE  StepInv
  OBVIOUS
<1>1. FoldInv
  BY InitFold
<1>2. PICK r \in Root : tx = OpenedState(r) /\ issued = {r}
  BY DEF Init
<1>3. PICK s \in Root : rx = OpenedState(s)
  BY DEF Init
<1>4. /\ acc = <<>> /\ rxMarks = <<>> /\ Len(acc) = 0 /\ Len(rxMarks) = 0
      /\ \A q \in Root : log[q] = <<>> /\ txMarks[q] = <<>> /\ Len(log[q]) = 0 /\ Len(txMarks[q]) = 0
  BY DEF Init
<1>5. tx.root = r /\ rx.root = s
  BY <1>2, <1>3, OpenedFolded
<1>6. MarksInv
  BY <1>4 DEF MarksInv
<1>7. \A q \in Root, n \in Nat, m \in Nat : Live(q, n) /\ Upto(q, n, m) =>
          q = r /\ m = 0 /\ StateAfter(q, n) = OpenedState(q)
  BY <1>2, <1>4, <1>5 DEF Live, Upto, StateAfter
<1>8. StartInv /\ LinkInv
  BY <1>4, <1>7, AheadNone DEF StartInv, LinkInv
<1>9. BehindInv
  <2> SUFFICES ASSUME Live(s, 0), NEW m \in Nat, Upto(s, 0, m)
               PROVE  StateAfter(s, 0) = Ahead(rx, m - 0)
    BY <1>4, <1>5 DEF BehindInv
  <2>1. m = 0 /\ m - 0 = 0 /\ StateAfter(s, 0) = OpenedState(s)
    BY <1>7
  <2>. QED
    BY <2>1, <1>3, AheadNone
<1>10. BeyondInv
  <2>1. 0 - 0 = 0
    OBVIOUS
  <2>. QED
    BY <2>1, <1>2, <1>3, <1>4, <1>5, AheadNone DEF BeyondInv
<1>. QED
  BY <1>1, <1>6, <1>8, <1>9, <1>10 DEF StepInv

(* StepInv is inductive.                                                   *)
LEMMA StepStep == StepInv /\ [Next]_vars => StepInv'
<1> SUFFICES ASSUME StepInv, [Next]_vars
             PROVE  StepInv'
  OBVIOUS
<1>1. FoldInv'
  BY StepFold DEF StepInv
<1>2. ASSUME UNCHANGED <<tx, rx, issued, log, acc, txMarks, rxMarks>>
      PROVE  SenderInv' /\ BehindInv' /\ BeyondInv'
  <2>1. StartInv' /\ LinkInv' /\ MarksInv'
    BY <1>2, SenderKept DEF StepInv, MarksInv
  <2>2. BehindInv'
    BY <1>2 DEF StepInv, BehindInv, Behind, Agree, Live, Upto, StateAfter
  <2>3. BeyondInv'
    BY <1>2 DEF StepInv, BeyondInv, Beyond, Agree
  <2>. QED
    BY <2>1, <2>2, <2>3 DEF SenderInv
<1>3. SenderInv' /\ BehindInv' /\ BeyondInv'
  <2>1. ASSUME NEW r \in Root, OpenPush(r) \/ OpenPull(r)
        PROVE  SenderInv' /\ BehindInv' /\ BeyondInv'
    BY <2>1, OpenPushStep, OpenPullStep
  <2>2. ASSUME NEW tag \in Byte, NEW ad \in Ad, Push(tag, ad)
        PROVE  SenderInv' /\ BehindInv' /\ BeyondInv'
    BY <2>2, PushStep
  <2>3. ASSUME NEW f \in OnWire, NEW ad \in Ad, NEW intact \in BOOLEAN,
               PullAccepted(f, ad, intact)
        PROVE  SenderInv' /\ BehindInv' /\ BeyondInv'
    BY <2>3, PullStep
  <2>4. ASSUME NEW f \in OnWire, NEW ad \in Ad, NEW intact \in BOOLEAN,
               PullRejected(f, ad, intact)
        PROVE  SenderInv' /\ BehindInv' /\ BeyondInv'
    BY <2>4, <1>2 DEF PullRejected
  <2>5. CASE PullShort \/ TooLong \/ UNCHANGED vars
    BY <2>5, <1>2 DEF PullShort, TooLong, vars
  <2>6. CASE RekeyTx \/ RekeyRx
    BY <2>6, RekeyTxStep, RekeyRxStep
  <2>. QED
    BY <2>1, <2>2, <2>3, <2>4, <2>5, <2>6 DEF Next
<1>. QED
  BY <1>1, <1>3 DEF StepInv, SenderInv

(* A receiver that has made the sender's explicit rekeyings at the same    *)
(* places is in the state that the next frame is sealed under, or will be: *)
(* rejected frames, automatic rekeyings, tags that Swift does not know and *)
(* rekeyings that one end makes before the other leave both ends in step.  *)
THEOREM StaysInStep == Spec => []InStep
<1>1. ASSUME StepInv
      PROVE  InStep
  <2> SUFFICES ASSUME SameMarks, Len(acc) < Len(log[rx.root]) \/ tx.root = rx.root
               PROVE  rx = StateAfter(rx.root, Len(acc))
    BY DEF InStep
  <2>1. PICK r \in Root, n \in Nat, k \in Nat, M \in Nat :
            r = rx.root /\ n = Len(acc) /\ k = Len(rxMarks) /\ M = Len(txMarks[r])
    BY <1>1, StepTypes DEF StepInv
  <2>2. /\ k <= M /\ \A i \in 1..k : rxMarks[i] = txMarks[r][i] /\ rxMarks[i] <= n
        /\ \A i \in (k + 1)..M : txMarks[r][i] > n
    BY <1>1, <2>1 DEF SameMarks, StepInv, MarksInv
  <2>3. \A i \in 1..M : txMarks[r][i] \in Nat
    BY <1>1, <2>1, StepTypes DEF StepInv
  <2>4. Upto(r, n, k)
    BY <2>1, <2>2 DEF Upto
  <2>5. Behind
    BY <2>1, <2>2, <2>3 DEF Behind, Agree
  <2>6. Live(r, n)
    BY <2>1 DEF Live
  <2>7. StateAfter(r, n) = Ahead(rx, k - k) /\ k - k = 0
    BY <1>1, <2>1, <2>4, <2>5, <2>6 DEF StepInv, BehindInv
  <2>. QED
    BY <2>1, <2>7, AheadNone
<1>. QED
  BY <1>1, InitStep, StepStep, PTL DEF Spec
=============================================================================
