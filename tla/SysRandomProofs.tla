-------------------------- MODULE SysRandomProofs --------------------------
(***************************************************************************)
(* Proofs about SysRandom, for every set of threads, every size of the     *)
(* descriptor table and both kinds of kernel.                              *)
(***************************************************************************)
EXTENDS SysRandom, WellFoundedInduction, TLAPS

(* With getrandom no thread ever holds a descriptor, so that nothing a     *)
(* close does can reach another call.                                      *)
Devices == {"open", "store", "fetch", "read", "load", "close", "forget", "reset"}

GetrandomInv ==
    kernel = "getrandom" =>
        /\ fd = None
        /\ process = "running" /\ ~robbed
        /\ initialized => getrandom
        /\ \A t \in Thread : /\ pc[t] \notin Devices
                             /\ pc[t] \in {"mark", "take"} => getrandom
                             /\ got[t] # "foreign"

(* While no close has run beside another call: who closes is alone.        *)
Alone == \A s, t \in Thread : op[s] = "close" /\ s # t => op[t] = "none"

(* The descriptor of the stream is open on the device, from the store to   *)
(* the close, and so is what a thread holds in a register.                 *)
OpenInv ==
    /\ fd # None /\ (\A t \in Thread : pc[t] # "forget") => table[fd] = "device"
    /\ \A t \in Thread : pc[t] \in {"store", "read"} => hand[t] \in Descriptor /\ table[hand[t]] = "device"
    /\ \A t \in Thread : pc[t] \in {"load", "close", "forget"} => fd # None /\ kernel = "device"
    /\ \A t \in Thread : pc[t] = "close" => hand[t] = fd
    /\ \A t \in Thread : pc[t] = "reset" => fd = None /\ kernel = "device"

(* The flag says that the stream is open, but for a thread between the two *)
(* stores.                                                                 *)
Backed == getrandom \/ fd # None

FlagInv ==
    /\ getrandom => kernel = "getrandom"
    /\ initialized => Backed \/ \E t \in Thread : pc[t] = "reset"
    /\ Backed => initialized \/ \E t \in Thread : pc[t] = "mark"
    /\ \A t \in Thread : /\ pc[t] = "mark" => Backed
                         /\ pc[t] \in {"take", "fetch", "read"} => initialized
                         /\ pc[t] \in {"open", "store", "fetch", "read"} => kernel = "device"

Served ==
    /\ process = "misuse" => crowded
    /\ ~robbed
    /\ \A t \in Thread : got[t] # "foreign"

ServesInv == Alone /\ OpenInv /\ FlagInv /\ Served

(* While moreover no two threads have been opening the stream at once.     *)
OneOpens ==
    /\ \A s, t \in Thread : pc[s] \in Opening /\ pc[t] \in Opening => s = t
    /\ \A t \in Thread : pc[t] \in {"probe", "open", "store"} => fd = None
    /\ \A d \in Descriptor : table[d] = "device" =>
          /\ d = fd \/ \E t \in Thread : pc[t] = "store" /\ hand[t] = d
          /\ \A t \in Thread : pc[t] \notin {"forget", "reset"}

SysInv ==
    /\ TypeOK
    /\ GetrandomInv
    /\ ~stormed => ServesInv
    /\ ~stormed /\ ~raced => OneOpens
-----------------------------------------------------------------------------
(* The kernel gives the lowest free number: there is one.                  *)
LEMMA LowestFree == Free # {} => Lowest(Free) \in Free
<1> SUFFICES ASSUME Free # {}
             PROVE  Lowest(Free) \in Free
  OBVIOUS
<1>1. Free \subseteq Nat
  BY DescriptorsAssumption DEF Free, Descriptor
<1> DEFINE less == OpToRel(<, Nat)
<1>2. IsWellFoundedOn(less, Nat)
  BY NatLessThanWellFounded
<1>3. \A d, e \in Nat : <<e, d>> \in less <=> e < d
  BY DEF OpToRel
<1> HIDE DEF less
<1>4. PICK d \in Free : \A e \in Free : <<e, d>> \notin less
  BY <1>1, <1>2, WFMin
<1>5. \A e \in Free : d <= e
  <2> SUFFICES ASSUME NEW e \in Free
               PROVE  d <= e
    OBVIOUS
  <2>1. d \in Nat /\ e \in Nat
    BY <1>1
  <2>2. ~(e < d)
    BY <1>3, <1>4, <2>1, Zenon
  <2>. QED
    BY <2>1, <2>2
<1>. QED
  BY <1>5 DEF Lowest

(* Every step keeps the types.                                             *)
LEMMA TypeStep == TypeOK /\ [Next]_vars => TypeOK'
<1> SUFFICES ASSUME TypeOK, [Next]_vars
             PROVE  TypeOK'
  OBVIOUS
<1> USE DescriptorsAssumption, ChoicesAssumption
        DEF TypeOK, Opening, Closing, Reading, None, At, Go, Misuse, Call, Finish,
            AfterStir, Fill,
            kernels, stream, threads, hist
<1>1. ASSUME NEW t \in Thread, Calling(t)
      PROVE  TypeOK'
  <2>1. CASE CallStir(t)
    BY <2>1 DEF CallStir
  <2>2. CASE CallBuf(t)
    BY <2>2 DEF CallBuf
  <2>3. CASE CallClose(t)
    BY <2>3 DEF CallClose
  <2>. QED
    BY <1>1, <2>1, <2>2, <2>3 DEF Calling
<1>2. ASSUME NEW t \in Thread, Working(t)
      PROVE  TypeOK'
  <2>1. CASE Dispatch(t)
    BY <2>1 DEF Dispatch
  <2>2. CASE StirTest(t)
    <3>1. CASE initialized /\ op[t] = "buf"
      BY <2>2, <3>1 DEF StirTest
    <3>2. CASE initialized /\ op[t] # "buf"
      BY <2>2, <3>2 DEF StirTest
    <3>3. CASE ~initialized
      BY <2>2, <3>3 DEF StirTest
    <3>. QED
      BY <3>1, <3>2, <3>3
  <2>3. CASE Probe(t)
    BY <2>3 DEF Probe
  <2>4. CASE OpenDevice(t)
    <3>1. CASE Free = {}
      BY <2>4, <3>1 DEF OpenDevice
    <3>2. CASE Free # {}
      <4>1. Lowest(Free) \in Descriptor
        BY <3>2, LowestFree DEF Free
      <4>. QED
        BY <2>4, <3>2, <4>1 DEF OpenDevice
    <3>. QED
      BY <3>1, <3>2
  <2>5. CASE StoreFd(t)
    BY <2>5 DEF StoreFd
  <2>6. CASE Mark(t)
    BY <2>6 DEF Mark
  <2>7. CASE Needed(t)
    BY <2>7 DEF Needed
  <2>8. CASE Take(t)
    BY <2>8 DEF Take
  <2>9. CASE Fetch(t)
    BY <2>9 DEF Fetch
  <2>10. CASE Read(t)
    BY <2>10 DEF Read
  <2>11. CASE CloseTest(t)
    BY <2>11 DEF CloseTest
  <2>12. CASE CloseLoad(t)
    BY <2>12 DEF CloseLoad
  <2>13. CASE Close(t)
    <3>1. CASE hand[t] \in Descriptor \ Free
      BY <2>13, <3>1 DEF Close
    <3>2. CASE hand[t] \notin Descriptor \ Free
      BY <2>13, <3>2 DEF Close
    <3>. QED
      BY <3>1, <3>2
  <2>14. CASE Forget(t)
    BY <2>14 DEF Forget
  <2>15. CASE Reset(t)
    BY <2>15 DEF Reset
  <2>. QED
    BY <1>2, <2>1, <2>2, <2>3, <2>4, <2>5, <2>6, <2>7, <2>8, <2>9, <2>10, <2>11,
        <2>12, <2>13,
       <2>14, <2>15 DEF Working
<1>3. CASE OpenFile
  BY <1>3 DEF OpenFile
<1>4. CASE CloseFile
  BY <1>4 DEF CloseFile
<1>5. CASE UNCHANGED vars
  BY <1>5 DEF vars
<1>. QED
  BY <1>1, <1>2, <1>3, <1>4, <1>5 DEF Next

(* With getrandom, no step brings a descriptor in.                         *)
LEMMA GetrandomStep == TypeOK /\ GetrandomInv /\ [Next]_vars => GetrandomInv'
<1> SUFFICES ASSUME TypeOK, GetrandomInv, [Next]_vars
             PROVE  GetrandomInv'
  OBVIOUS
<1> USE DEF TypeOK, Opening, Closing, Reading, None, At, Go, Misuse, Call, Finish,
    AfterStir, Fill,
            kernels, stream, threads, hist, GetrandomInv, Devices
<1>1. ASSUME NEW t \in Thread, Calling(t)
      PROVE  GetrandomInv'
  <2>1. CASE CallStir(t)
    BY <2>1 DEF CallStir
  <2>2. CASE CallBuf(t)
    BY <2>2 DEF CallBuf
  <2>3. CASE CallClose(t)
    BY <2>3 DEF CallClose
  <2>. QED
    BY <1>1, <2>1, <2>2, <2>3 DEF Calling
<1>2. ASSUME NEW t \in Thread, Working(t)
      PROVE  GetrandomInv'
  <2>1. CASE Dispatch(t)
    BY <2>1 DEF Dispatch
  <2>2. CASE StirTest(t)
    BY <2>2 DEF StirTest
  <2>3. CASE Probe(t)
    BY <2>3 DEF Probe
  <2>4. CASE OpenDevice(t)
    BY <2>4 DEF OpenDevice
  <2>5. CASE StoreFd(t)
    BY <2>5 DEF StoreFd
  <2>6. CASE Mark(t)
    BY <2>6 DEF Mark
  <2>7. CASE Needed(t)
    BY <2>7 DEF Needed
  <2>8. CASE Take(t)
    BY <2>8 DEF Take
  <2>9. CASE Fetch(t)
    BY <2>9 DEF Fetch
  <2>10. CASE Read(t)
    BY <2>10 DEF Read
  <2>11. CASE CloseTest(t)
    BY <2>11 DEF CloseTest
  <2>12. CASE CloseLoad(t)
    BY <2>12 DEF CloseLoad
  <2>13. CASE Close(t)
    BY <2>13 DEF Close
  <2>14. CASE Forget(t)
    BY <2>14 DEF Forget
  <2>15. CASE Reset(t)
    BY <2>15 DEF Reset
  <2>. QED
    BY <1>2, <2>1, <2>2, <2>3, <2>4, <2>5, <2>6, <2>7, <2>8, <2>9, <2>10, <2>11,
        <2>12, <2>13,
       <2>14, <2>15 DEF Working
<1>3. CASE OpenFile
  BY <1>3 DEF OpenFile
<1>4. CASE CloseFile
  BY <1>4 DEF CloseFile
<1>5. CASE UNCHANGED vars
  BY <1>5 DEF vars
<1>. QED
  BY <1>1, <1>2, <1>3, <1>4, <1>5 DEF Next

(* No step but a close that storms puts a call beside a close.             *)
LEMMA AloneStep == TypeOK /\ Alone /\ [Next]_vars /\ ~stormed' => Alone'
<1> SUFFICES ASSUME TypeOK, Alone, [Next]_vars, ~stormed'
             PROVE  Alone'
  OBVIOUS
<1> USE DEF TypeOK, Opening, Closing, Reading, None, At, Go, Misuse, Call, Finish,
    AfterStir, Fill,
            kernels, stream, threads, hist, Alone
<1>1. ASSUME NEW t \in Thread, Calling(t)
      PROVE  Alone'
  <2>1. CASE CallStir(t)
    BY <2>1 DEF CallStir
  <2>2. CASE CallBuf(t)
    BY <2>2 DEF CallBuf
  <2>3. CASE CallClose(t)
    BY <2>3 DEF CallClose
  <2>. QED
    BY <1>1, <2>1, <2>2, <2>3 DEF Calling
<1>2. ASSUME NEW t \in Thread, Working(t)
      PROVE  Alone'
  <2>1. CASE Dispatch(t)
    BY <2>1 DEF Dispatch
  <2>2. CASE StirTest(t)
    BY <2>2 DEF StirTest
  <2>3. CASE Probe(t)
    BY <2>3 DEF Probe
  <2>4. CASE OpenDevice(t)
    BY <2>4 DEF OpenDevice
  <2>5. CASE StoreFd(t)
    BY <2>5 DEF StoreFd
  <2>6. CASE Mark(t)
    BY <2>6 DEF Mark
  <2>7. CASE Needed(t)
    BY <2>7 DEF Needed
  <2>8. CASE Take(t)
    BY <2>8 DEF Take
  <2>9. CASE Fetch(t)
    BY <2>9 DEF Fetch
  <2>10. CASE Read(t)
    BY <2>10 DEF Read
  <2>11. CASE CloseTest(t)
    BY <2>11 DEF CloseTest
  <2>12. CASE CloseLoad(t)
    BY <2>12 DEF CloseLoad
  <2>13. CASE Close(t)
    BY <2>13 DEF Close
  <2>14. CASE Forget(t)
    BY <2>14 DEF Forget
  <2>15. CASE Reset(t)
    BY <2>15 DEF Reset
  <2>. QED
    BY <1>2, <2>1, <2>2, <2>3, <2>4, <2>5, <2>6, <2>7, <2>8, <2>9, <2>10, <2>11,
        <2>12, <2>13,
       <2>14, <2>15 DEF Working
<1>3. CASE OpenFile
  BY <1>3 DEF OpenFile
<1>4. CASE CloseFile
  BY <1>4 DEF CloseFile
<1>5. CASE UNCHANGED vars
  BY <1>5 DEF vars
<1>. QED
  BY <1>1, <1>2, <1>3, <1>4, <1>5 DEF Next

(* The stored descriptor, and what the threads hold of it, stays open on   *)
(* the device.                                                             *)
LEMMA OpenStep ==
    TypeOK /\ GetrandomInv /\ Alone /\ OpenInv /\ FlagInv /\ [Next]_vars
       /\ ~stormed'
    => OpenInv'
<1> SUFFICES ASSUME TypeOK, GetrandomInv, Alone, OpenInv, FlagInv, [Next]_vars,
                    ~stormed'
             PROVE  OpenInv'
  OBVIOUS
<1> USE ChoicesAssumption
        DEF TypeOK, Opening, Closing, Reading, None, At, Go, Misuse, Call, Finish,
            AfterStir, Fill,
            kernels, stream, threads, hist,
            GetrandomInv, Alone, OpenInv, FlagInv, Backed, Descriptor
<1>1. ASSUME NEW t \in Thread, Calling(t)
      PROVE  OpenInv'
  <2>1. CASE CallStir(t)
    BY <2>1 DEF CallStir
  <2>2. CASE CallBuf(t)
    BY <2>2 DEF CallBuf
  <2>3. CASE CallClose(t)
    BY <2>3 DEF CallClose
  <2>. QED
    BY <1>1, <2>1, <2>2, <2>3 DEF Calling
<1>2. ASSUME NEW t \in Thread, Working(t)
      PROVE  OpenInv'
  <2>1. CASE Dispatch(t)
    BY <2>1 DEF Dispatch
  <2>2. CASE StirTest(t)
    BY <2>2 DEF StirTest
  <2>3. CASE Probe(t)
    BY <2>3 DEF Probe
  <2>4. CASE OpenDevice(t)
    <3>1. CASE Free = {}
      BY <2>4, <3>1 DEF OpenDevice
    <3>2. CASE Free # {}
      <4>1. Lowest(Free) \in Free
        BY <3>2, LowestFree
      <4>2. /\ table' = [table EXCEPT ![Lowest(Free)] = "device"]
            /\ hand' = [hand EXCEPT ![t] = Lowest(Free)]
            /\ pc[t] = "open" /\ pc' = [pc EXCEPT ![t] = "store"]
            /\ UNCHANGED <<kernel, fd>>
        BY <2>4, <3>2 DEF OpenDevice
      <4>3. Lowest(Free) \in Descriptor
        BY <4>1 DEF Free
      <4>. HIDE DEF Descriptor
      <4>. QED
        BY <4>2, <4>3
    <3>. QED
      BY <3>1, <3>2
  <2>5. CASE StoreFd(t)
    BY <2>5 DEF StoreFd
  <2>6. CASE Mark(t)
    BY <2>6 DEF Mark
  <2>7. CASE Needed(t)
    BY <2>7 DEF Needed
  <2>8. CASE Take(t)
    BY <2>8 DEF Take
  <2>9. CASE Fetch(t)
    BY <2>9 DEF Fetch
  <2>10. CASE Read(t)
    BY <2>10 DEF Read
  <2>11. CASE CloseTest(t)
    BY <2>11 DEF CloseTest
  <2>12. CASE CloseLoad(t)
    BY <2>12 DEF CloseLoad
  <2>13. CASE Close(t)
    <3>1. /\ pc[t] = "close" /\ hand[t] = fd /\ fd \in Descriptor /\ table[fd] = "device"
          /\ \A u \in Thread : u # t => pc[u] = "idle"
      BY <2>13 DEF Close
    <3>2. /\ pc' = [pc EXCEPT ![t] = "forget"]
          /\ UNCHANGED <<kernel, fd>>
      BY <2>13, <3>1 DEF Close, Free
    <3>. QED
      BY <3>1, <3>2
  <2>14. CASE Forget(t)
    BY <2>14 DEF Forget
  <2>15. CASE Reset(t)
    BY <2>15 DEF Reset
  <2>. QED
    BY <1>2, <2>1, <2>2, <2>3, <2>4, <2>5, <2>6, <2>7, <2>8, <2>9, <2>10, <2>11,
        <2>12, <2>13,
       <2>14, <2>15 DEF Working
<1>3. CASE OpenFile
  <2>1. Lowest(Free) \in Free
    BY <1>3, LowestFree DEF OpenFile
  <2>. QED
    BY <1>3, <2>1 DEF OpenFile, Free
<1>4. CASE CloseFile
  BY <1>4 DEF CloseFile
<1>5. CASE UNCHANGED vars
  BY <1>5 DEF vars
<1>. QED
  BY <1>1, <1>2, <1>3, <1>4, <1>5 DEF Next

(* The flag keeps saying that there is a stream, between two stores at     *)
(* most.                                                                   *)
LEMMA FlagStep ==
    TypeOK /\ GetrandomInv /\ Alone /\ OpenInv /\ FlagInv /\ [Next]_vars
       /\ ~stormed'
    => FlagInv'
<1> SUFFICES ASSUME TypeOK, GetrandomInv, Alone, OpenInv, FlagInv, [Next]_vars,
                    ~stormed'
             PROVE  FlagInv'
  OBVIOUS
<1> USE ChoicesAssumption
        DEF TypeOK, Opening, Closing, Reading, None, At, Go, Misuse, Call, Finish,
            AfterStir, Fill,
            kernels, stream, threads, hist,
            GetrandomInv, Alone, OpenInv, FlagInv, Backed, Descriptor
<1>1. ASSUME NEW t \in Thread, Calling(t)
      PROVE  FlagInv'
  <2>1. CASE CallStir(t)
    BY <2>1 DEF CallStir
  <2>2. CASE CallBuf(t)
    BY <2>2 DEF CallBuf
  <2>3. CASE CallClose(t)
    BY <2>3 DEF CallClose
  <2>. QED
    BY <1>1, <2>1, <2>2, <2>3 DEF Calling
<1>2. ASSUME NEW t \in Thread, Working(t)
      PROVE  FlagInv'
  <2>1. CASE Dispatch(t)
    BY <2>1 DEF Dispatch
  <2>2. CASE StirTest(t)
    BY <2>2 DEF StirTest
  <2>3. CASE Probe(t)
    BY <2>3, ZenonT(30) DEF Probe
  <2>4. CASE OpenDevice(t)
    BY <2>4 DEF OpenDevice
  <2>5. CASE StoreFd(t)
    BY <2>5 DEF StoreFd
  <2>6. CASE Mark(t)
    BY <2>6 DEF Mark
  <2>7. CASE Needed(t)
    BY <2>7 DEF Needed
  <2>8. CASE Take(t)
    BY <2>8 DEF Take
  <2>9. CASE Fetch(t)
    BY <2>9 DEF Fetch
  <2>10. CASE Read(t)
    BY <2>10 DEF Read
  <2>11. CASE CloseTest(t)
    BY <2>11 DEF CloseTest
  <2>12. CASE CloseLoad(t)
    BY <2>12 DEF CloseLoad
  <2>13. CASE Close(t)
    BY <2>13 DEF Close
  <2>14. CASE Forget(t)
    BY <2>14 DEF Forget
  <2>15. CASE Reset(t)
    BY <2>15 DEF Reset
  <2>. QED
    BY <1>2, <2>1, <2>2, <2>3, <2>4, <2>5, <2>6, <2>7, <2>8, <2>9, <2>10, <2>11,
        <2>12, <2>13,
       <2>14, <2>15 DEF Working
<1>3. CASE OpenFile
  BY <1>3 DEF OpenFile
<1>4. CASE CloseFile
  BY <1>4 DEF CloseFile
<1>5. CASE UNCHANGED vars
  BY <1>5 DEF vars
<1>. QED
  BY <1>1, <1>2, <1>3, <1>4, <1>5 DEF Next

(* What is read, is read from the device, and nothing ends in misuse while *)
(* there are descriptors.                                                  *)
LEMMA ServedStep ==
    TypeOK /\ GetrandomInv /\ Alone /\ OpenInv /\ FlagInv /\ Served
       /\ [Next]_vars /\ ~stormed'
    => Served'
<1> SUFFICES ASSUME TypeOK, GetrandomInv, Alone, OpenInv, FlagInv, Served,
                    [Next]_vars, ~stormed'
             PROVE  Served'
  OBVIOUS
<1> USE ChoicesAssumption
        DEF TypeOK, Opening, Closing, Reading, None, At, Go, Misuse, Call, Finish,
            AfterStir, Fill,
            kernels, stream, threads, hist,
            GetrandomInv, Alone, OpenInv, FlagInv, Backed, Served
<1>1. ASSUME NEW t \in Thread, Calling(t)
      PROVE  Served'
  <2>1. CASE CallStir(t)
    BY <2>1 DEF CallStir
  <2>2. CASE CallBuf(t)
    BY <2>2 DEF CallBuf
  <2>3. CASE CallClose(t)
    BY <2>3 DEF CallClose
  <2>. QED
    BY <1>1, <2>1, <2>2, <2>3 DEF Calling
<1>2. ASSUME NEW t \in Thread, Working(t)
      PROVE  Served'
  <2>1. CASE Dispatch(t)
    BY <2>1 DEF Dispatch
  <2>2. CASE StirTest(t)
    BY <2>2 DEF StirTest
  <2>3. CASE Probe(t)
    BY <2>3 DEF Probe
  <2>4. CASE OpenDevice(t)
    BY <2>4 DEF OpenDevice
  <2>5. CASE StoreFd(t)
    BY <2>5 DEF StoreFd
  <2>6. CASE Mark(t)
    BY <2>6 DEF Mark
  <2>7. CASE Needed(t)
    BY <2>7 DEF Needed
  <2>8. CASE Take(t)
    BY <2>8 DEF Take
  <2>9. CASE Fetch(t)
    BY <2>9 DEF Fetch
  <2>10. CASE Read(t)
    BY <2>10 DEF Read
  <2>11. CASE CloseTest(t)
    BY <2>11 DEF CloseTest
  <2>12. CASE CloseLoad(t)
    BY <2>12 DEF CloseLoad
  <2>13. CASE Close(t)
    <3>1. hand[t] \in Descriptor /\ table[hand[t]] = "device"
      BY <2>13 DEF Close
    <3>. QED
      BY <2>13, <3>1 DEF Close
  <2>14. CASE Forget(t)
    BY <2>14 DEF Forget
  <2>15. CASE Reset(t)
    BY <2>15 DEF Reset
  <2>. QED
    BY <1>2, <2>1, <2>2, <2>3, <2>4, <2>5, <2>6, <2>7, <2>8, <2>9, <2>10, <2>11,
        <2>12, <2>13,
       <2>14, <2>15 DEF Working
<1>3. CASE OpenFile
  BY <1>3 DEF OpenFile
<1>4. CASE CloseFile
  BY <1>4 DEF CloseFile
<1>5. CASE UNCHANGED vars
  BY <1>5 DEF vars
<1>. QED
  BY <1>1, <1>2, <1>3, <1>4, <1>5 DEF Next

(* Where first uses do not race, every open device is the one stored or    *)
(* about to be.                                                            *)
LEMMA OneOpensStep ==
    TypeOK /\ GetrandomInv /\ Alone /\ OpenInv /\ FlagInv /\ OneOpens
       /\ [Next]_vars /\ ~stormed' /\ ~raced'
    => OneOpens'
<1> SUFFICES ASSUME TypeOK, GetrandomInv, Alone, OpenInv, FlagInv, OneOpens,
                    [Next]_vars, ~stormed', ~raced'
             PROVE  OneOpens'
  OBVIOUS
<1> USE ChoicesAssumption
        DEF TypeOK, Opening, Closing, Reading, None, At, Go, Misuse, Call, Finish,
            AfterStir, Fill,
            kernels, stream, threads, hist,
            GetrandomInv, Alone, OpenInv, FlagInv, Backed, OneOpens
<1>1. ASSUME NEW t \in Thread, Calling(t)
      PROVE  OneOpens'
  <2>1. CASE CallStir(t)
    BY <2>1 DEF CallStir
  <2>2. CASE CallBuf(t)
    BY <2>2 DEF CallBuf
  <2>3. CASE CallClose(t)
    BY <2>3 DEF CallClose
  <2>. QED
    BY <1>1, <2>1, <2>2, <2>3 DEF Calling
<1>2. ASSUME NEW t \in Thread, Working(t)
      PROVE  OneOpens'
  <2>1. CASE Dispatch(t)
    BY <2>1 DEF Dispatch
  <2>2. CASE StirTest(t)
    <3>1. CASE initialized
      BY <2>2, <3>1 DEF StirTest
    <3>2. CASE ~initialized
      <4>1. ~raced /\ \A u \in Thread : pc[u] \notin Opening
        BY <2>2, <3>2 DEF StirTest
      <4>2. fd = None
        BY <3>2, <4>1
      <4>. QED
        BY <2>2, <3>2, <4>1, <4>2 DEF StirTest
    <3>. QED
      BY <3>1, <3>2
  <2>3. CASE Probe(t)
    BY <2>3 DEF Probe
  <2>4. CASE OpenDevice(t)
    BY <2>4 DEF OpenDevice
  <2>5. CASE StoreFd(t)
    <3>1. fd = None /\ \A u \in Thread : pc[u] \in Opening => u = t
      BY <2>5 DEF StoreFd
    <3>2. \A d \in Descriptor : d # None
      BY DEF Descriptor
    <3>3. \A d \in Descriptor : table[d] = "device" => d = hand[t]
      BY <2>5, <3>1, <3>2 DEF StoreFd
    <3>. QED
      BY <2>5, <3>1, <3>3 DEF StoreFd
  <2>6. CASE Mark(t)
    BY <2>6 DEF Mark
  <2>7. CASE Needed(t)
    BY <2>7 DEF Needed
  <2>8. CASE Take(t)
    BY <2>8 DEF Take
  <2>9. CASE Fetch(t)
    BY <2>9 DEF Fetch
  <2>10. CASE Read(t)
    BY <2>10 DEF Read
  <2>11. CASE CloseTest(t)
    BY <2>11 DEF CloseTest
  <2>12. CASE CloseLoad(t)
    BY <2>12 DEF CloseLoad
  <2>13. CASE Close(t)
    BY <2>13 DEF Close
  <2>14. CASE Forget(t)
    BY <2>14 DEF Forget
  <2>15. CASE Reset(t)
    BY <2>15 DEF Reset
  <2>. QED
    BY <1>2, <2>1, <2>2, <2>3, <2>4, <2>5, <2>6, <2>7, <2>8, <2>9, <2>10, <2>11,
        <2>12, <2>13,
       <2>14, <2>15 DEF Working
<1>3. CASE OpenFile
  BY <1>3 DEF OpenFile
<1>4. CASE CloseFile
  BY <1>4 DEF CloseFile
<1>5. CASE UNCHANGED vars
  BY <1>5 DEF vars
<1>. QED
  BY <1>1, <1>2, <1>3, <1>4, <1>5 DEF Next

(* Nothing undoes a close beside another call, or a race.                  *)
LEMMA HistoryStays ==
    TypeOK /\ [Next]_vars => (stormed => stormed') /\ (raced => raced')
<1> SUFFICES ASSUME TypeOK, [Next]_vars
             PROVE  (stormed => stormed') /\ (raced => raced')
  OBVIOUS
<1> USE DEF TypeOK, kernels, stream, threads, hist
<1>1. ASSUME NEW t \in Thread, Calling(t)
      PROVE  (stormed => stormed') /\ (raced => raced')
  BY <1>1 DEF Calling, CallStir, CallBuf, CallClose, Call
<1>2. ASSUME NEW t \in Thread, Working(t)
      PROVE  (stormed => stormed') /\ (raced => raced')
  BY <1>2 DEF Working, Dispatch, StirTest, Probe, OpenDevice, StoreFd, Mark, Needed,
      Take, Fetch, Read,
              CloseTest, CloseLoad, Close, Forget, Reset
<1>. QED
  BY <1>1, <1>2 DEF Next, OpenFile, CloseFile, vars

-----------------------------------------------------------------------------
(* The invariant holds before the first call.                              *)
LEMMA InitSys == Init => SysInv
<1> SUFFICES ASSUME Init
             PROVE  SysInv
  OBVIOUS
<1> USE DEF Init
<1>1. TypeOK
  BY ChoicesAssumption DEF TypeOK, Opening, Closing, Reading
<1>2. GetrandomInv
  BY DEF GetrandomInv, Devices
<1>3. Alone /\ OpenInv /\ FlagInv /\ Served
  BY DEF Alone, OpenInv, FlagInv, Backed, Served
<1>4. OneOpens
  BY DEF OneOpens, Opening
<1>. QED
  BY <1>1, <1>2, <1>3, <1>4 DEF SysInv, ServesInv

(* SysInv is inductive.                                                    *)
LEMMA StepSys == SysInv /\ [Next]_vars => SysInv'
  BY TypeStep, GetrandomStep, AloneStep, OpenStep, FlagStep, ServedStep,
      OneOpensStep, HistoryStays
     DEF SysInv, ServesInv

(* SysInv holds of the specification.                                      *)
LEMMA Sys == Spec => []SysInv
  BY InitSys, StepSys, PTL DEF Spec

(* With getrandom nothing that threads do to each other, closing included, *)
(* makes randombytes_buf fail or return other bytes, and the library never *)
(* closes a file of the program.                                           *)
THEOREM GetrandomSafe == Spec => []GetrandomSuffices
<1>1. SysInv => GetrandomSuffices
  BY DEF SysInv, GetrandomInv, GetrandomSuffices
<1>. QED
  BY <1>1, Sys, PTL

(* With the device the same is true while no close runs beside another     *)
(* call, but for a misuse when the table of descriptors is full.           *)
THEOREM DeviceSafe == Spec => []DeviceServes
<1>1. SysInv => DeviceServes
  BY DEF SysInv, ServesInv, Served, DeviceServes
<1>. QED
  BY <1>1, Sys, PTL

(* Once no thread is inside the library, the flag says that there is an    *)
(* open device, or getrandom.                                              *)
THEOREM FlagTells == Spec => []InitializedIsOpen
<1>1. SysInv => InitializedIsOpen
  <2> SUFFICES ASSUME SysInv, ~stormed, \A t \in Thread : op[t] = "none"
               PROVE  initialized <=> getrandom \/ (fd # None /\ table[fd] = "device")
    BY DEF InitializedIsOpen
  <2>1. \A t \in Thread : pc[t] = "idle"
    BY DEF SysInv, TypeOK
  <2>. QED
    BY <2>1 DEF SysInv, ServesInv, OpenInv, FlagInv, Backed
<1>. QED
  BY <1>1, Sys, PTL

(* And then no other device is open, if no first uses met.                 *)
THEOREM NoLeak == Spec => []NothingLeaks
<1>1. SysInv => NothingLeaks
  BY DEF SysInv, OneOpens, TypeOK, NothingLeaks
<1>. QED
  BY <1>1, Sys, PTL
=============================================================================
