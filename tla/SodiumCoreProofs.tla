-------------------------- MODULE SodiumCoreProofs --------------------------
(***************************************************************************)
(* Proofs about SodiumCore, for every set of threads, every place misuse   *)
(* may come from, and every outcome of an unlock of another's mutex.       *)
(*                                                                         *)
(* What holds whatever happens to the section is that the library is never *)
(* taken down: parts are set up and never forgotten, in the order of the   *)
(* body, so that a thread which publishes has seen them all (SetUpInv).    *)
(* All else holds while nobody outside the section has called              *)
(* sodium_misuse, and hangs on one sentence: the owner of the mutex is the *)
(* thread that stands in the section (HeldInv).                            *)
(***************************************************************************)
EXTENDS SodiumCore, TLAPS

(* Only sodium_init tests the flag, and only sodium_set_misuse_handler     *)
(* stores a handler.                                                       *)
TypeInv ==
    /\ TypeOK
    /\ \A t \in Thread : /\ pc[t] = "check" => call[t] \in {"init", "nested"}
                         /\ pc[t] = "store" => call[t] = "set"

(* The parts that a thread at a step of the body has set up, or some       *)
(* thread before it.                                                       *)
SetUpBefore(step) ==
    CASE step = "alloc"                -> {"random"}
      [] step \in {"pick", "upgrade"}  -> {"random", "alloc"}
      [] step = "publish"              -> Part
      [] OTHER                         -> {}

SetUpInv ==
    /\ \A t \in Thread : SetUpBefore(pc[t]) \subseteq ready
    /\ initialized => ready = Part
    /\ \A t \in Thread : call[t] = "init" /\ pc[t] \in Leave => initialized
    /\ inited # {} => initialized

(* A thread stands in the section from the mutex to its unlock; misuse     *)
(* from inside keeps it there, and so does a handler that runs, calls back *)
(* or is about to end the process.                                         *)
Stands(t) ==
    \/ InSection(t)
    \/ pc[t] = "abort"
    \/ pc[t] = "lock" /\ call[t] = "nested"

HeldInv ==
    /\ \A t \in Thread : Stands(t) <=> owner = t
    /\ \A t \in Thread : call[t] = "nested" => pc[t] = "lock"
    /\ locked <=> \E t \in Thread : owner = t /\ pc[t] \notin {"mark", "unlock"}
    /\ process # "assert"
    /\ failed = {}

(* Once initialised, nobody is in the body; before, the pointer that the   *)
(* body leaves behind is the best one.                                     *)
PickedInv ==
    /\ initialized => (impl = "sse2" /\ \A t \in Thread : pc[t] \notin Body)
    /\ \A t \in Thread : pc[t] = "publish" => impl = "sse2"

CoreInv ==
    /\ TypeInv
    /\ SetUpInv
    /\ ~misused => HeldInv /\ PickedInv

MacInv ==
    ~misused => \A t \in Thread : mac[t] # "none" => mac[t] = "sse2" /\ initialized
-----------------------------------------------------------------------------
(* Every step keeps the types.                                             *)
LEMMA TypeStep == TypeInv /\ [Next]_vars => TypeInv'
<1> SUFFICES ASSUME TypeInv, [Next]_vars
             PROVE  TypeInv'
  OBVIOUS
<1> USE ThreadAssumption, ChoicesAssumption
        DEF TypeInv, TypeOK, Step, Body, Leave, Part, At, Go, Return, Call, Inside,
            NotYet, SetUp,
            lock, lib, told, hist
<1>1. ASSUME NEW t \in Thread, Calling(t)
      PROVE  TypeInv'
  <2>1. CASE CallInit(t)
    BY <2>1 DEF CallInit
  <2>2. CASE CallSetHandler(t)
    BY <2>2 DEF CallSetHandler
  <2>3. CASE CallMisuse(t)
    BY <2>3 DEF CallMisuse
  <2>4. CASE MacInit(t)
    BY <2>4 DEF MacInit
  <2>5. CASE MacUpdate(t)
    BY <2>5 DEF MacUpdate, MacContinues
  <2>6. CASE MacFinal(t)
    BY <2>6 DEF MacFinal, MacContinues
  <2>. QED
    BY <1>1, <2>1, <2>2, <2>3, <2>4, <2>5, <2>6 DEF Calling
<1>2. ASSUME NEW t \in Thread, Lock(t)
      PROVE  TypeInv'
  BY <1>2 DEF Lock, MayEnter
<1>3. ASSUME NEW t \in Thread, Working(t)
      PROVE  TypeInv'
  <2>1. CASE MisuseInside(t)
    BY <2>1 DEF MisuseInside
  <2>2. CASE Mark(t)
    BY <2>2, ZenonT(30) DEF Mark
  <2>3. CASE LeaveTest(t)
    BY <2>3 DEF LeaveTest
  <2>4. CASE LeaveClear(t)
    BY <2>4 DEF LeaveClear
  <2>5. CASE LeaveUnlock(t)
    <3>1. \E ok \in BOOLEAN : Return(t, ok)
      BY <2>5 DEF LeaveUnlock
    <3>2. /\ owner' \in Thread \union {NoThread} /\ refused' \in BOOLEAN
          /\ pc[t] = "unlock"
          /\ UNCHANGED <<locked, initialized, ready, impl, handler, result, mac, misused, process>>
      BY <2>5 DEF LeaveUnlock
    <3>3. /\ call' \in [Thread -> {"none", "init", "set", "misuse", "nested"}]
          /\ pc' \in [Thread -> Step \union {"idle"}]
          /\ inited' \subseteq Thread /\ failed' \subseteq Thread
      BY <3>1
    <3>4. \A u \in Thread : /\ pc'[u] = "idle" <=> call'[u] = "none"
                            /\ pc'[u] \in Body \union {"check"} => call'[u] \in {"init", "nested"}
                            /\ pc'[u] = "store" => call'[u] = "set"
      BY <3>1, <3>2
    <3>. QED
      BY <3>2, <3>3, <3>4
  <2>6. CASE Check(t)
    BY <2>6 DEF Check
  <2>7. CASE Stir(t)
    BY <2>7 DEF Stir
  <2>8. CASE AllocInit(t)
    BY <2>8 DEF AllocInit
  <2>9. CASE Pick(t)
    BY <2>9 DEF Pick
  <2>10. CASE Upgrade(t)
    BY <2>10 DEF Upgrade
  <2>11. CASE Publish(t)
    BY <2>11 DEF Publish
  <2>12. CASE StoreHandler(t)
    BY <2>12 DEF StoreHandler
  <2>13. CASE RunHandler(t)
    BY <2>13 DEF RunHandler
  <2>14. CASE Abort(t)
    BY <2>14 DEF Abort
  <2>. QED
    BY <1>3, <2>1, <2>2, <2>3, <2>4, <2>5, <2>6, <2>7, <2>8, <2>9, <2>10, <2>11,
        <2>12, <2>13, <2>14
       DEF Working
<1>4. CASE UNCHANGED vars
  BY <1>4 DEF vars
<1>. QED
  BY <1>1, <1>2, <1>3, <1>4 DEF Next
(* Every step keeps the order of the set-up, whatever misuse does.         *)
LEMMA SetUpStep == TypeInv /\ SetUpInv /\ [Next]_vars => SetUpInv'
<1> SUFFICES ASSUME TypeInv, SetUpInv, [Next]_vars
             PROVE  SetUpInv'
  OBVIOUS
<1> USE ThreadAssumption, ChoicesAssumption
        DEF TypeInv, TypeOK, Step, Body, Leave, Part, At, Go, Return, Call, Inside,
            NotYet, SetUp,
            lock, lib, told, hist,
            SetUpInv, SetUpBefore
<1>1. ASSUME NEW t \in Thread, Calling(t)
      PROVE  SetUpInv'
  <2>1. CASE CallInit(t)
    BY <2>1 DEF CallInit
  <2>2. CASE CallSetHandler(t)
    BY <2>2 DEF CallSetHandler
  <2>3. CASE CallMisuse(t)
    BY <2>3 DEF CallMisuse
  <2>4. CASE MacInit(t)
    BY <2>4 DEF MacInit
  <2>5. CASE MacUpdate(t)
    BY <2>5 DEF MacUpdate, MacContinues
  <2>6. CASE MacFinal(t)
    BY <2>6 DEF MacFinal, MacContinues
  <2>. QED
    BY <1>1, <2>1, <2>2, <2>3, <2>4, <2>5, <2>6 DEF Calling
<1>2. ASSUME NEW t \in Thread, Lock(t)
      PROVE  SetUpInv'
  BY <1>2 DEF Lock, MayEnter
<1>3. ASSUME NEW t \in Thread, Working(t)
      PROVE  SetUpInv'
  <2>1. CASE MisuseInside(t)
    BY <2>1 DEF MisuseInside
  <2>2. CASE Mark(t)
    BY <2>2 DEF Mark
  <2>3. CASE LeaveTest(t)
    BY <2>3 DEF LeaveTest
  <2>4. CASE LeaveClear(t)
    BY <2>4 DEF LeaveClear
  <2>5. CASE LeaveUnlock(t)
    BY <2>5 DEF LeaveUnlock
  <2>6. CASE Check(t)
    BY <2>6 DEF Check
  <2>7. CASE Stir(t)
    BY <2>7 DEF Stir
  <2>8. CASE AllocInit(t)
    BY <2>8 DEF AllocInit
  <2>9. CASE Pick(t)
    BY <2>9 DEF Pick
  <2>10. CASE Upgrade(t)
    BY <2>10 DEF Upgrade
  <2>11. CASE Publish(t)
    BY <2>11 DEF Publish
  <2>12. CASE StoreHandler(t)
    BY <2>12 DEF StoreHandler
  <2>13. CASE RunHandler(t)
    BY <2>13 DEF RunHandler
  <2>14. CASE Abort(t)
    BY <2>14 DEF Abort
  <2>. QED
    BY <1>3, <2>1, <2>2, <2>3, <2>4, <2>5, <2>6, <2>7, <2>8, <2>9, <2>10, <2>11,
        <2>12, <2>13, <2>14
       DEF Working
<1>4. CASE UNCHANGED vars
  BY <1>4 DEF vars
<1>. QED
  BY <1>1, <1>2, <1>3, <1>4 DEF Next

(* The owner of the mutex is the thread in the section after every step    *)
(* that leaves the library free of misuse from outside.                    *)
LEMMA HeldStep == TypeInv /\ HeldInv /\ [Next]_vars /\ ~misused' => HeldInv'
<1> SUFFICES ASSUME TypeInv, HeldInv, [Next]_vars, ~misused'
             PROVE  HeldInv'
  OBVIOUS
<1> USE ThreadAssumption, ChoicesAssumption
        DEF TypeInv, TypeOK, Step, Body, Leave, Part, At, Go, Return, Call, Inside,
            NotYet, SetUp,
            lock, lib, told, hist,
            HeldInv, Stands, InSection
<1>1. ASSUME NEW t \in Thread, Calling(t)
      PROVE  HeldInv'
  <2>1. CASE CallInit(t)
    BY <2>1 DEF CallInit
  <2>2. CASE CallSetHandler(t)
    BY <2>2 DEF CallSetHandler
  <2>3. CASE CallMisuse(t)
    BY <2>3 DEF CallMisuse
  <2>4. CASE MacInit(t)
    BY <2>4 DEF MacInit
  <2>5. CASE MacUpdate(t)
    BY <2>5 DEF MacUpdate, MacContinues
  <2>6. CASE MacFinal(t)
    BY <2>6 DEF MacFinal, MacContinues
  <2>. QED
    BY <1>1, <2>1, <2>2, <2>3, <2>4, <2>5, <2>6 DEF Calling
<1>2. ASSUME NEW t \in Thread, Lock(t)
      PROVE  HeldInv'
  BY <1>2 DEF Lock, MayEnter
<1>3. ASSUME NEW t \in Thread, Working(t)
      PROVE  HeldInv'
  <2>1. CASE MisuseInside(t)
    BY <2>1 DEF MisuseInside
  <2>2. CASE Mark(t)
    BY <2>2 DEF Mark
  <2>3. CASE LeaveTest(t)
    BY <2>3 DEF LeaveTest
  <2>4. CASE LeaveClear(t)
    BY <2>4 DEF LeaveClear
  <2>5. CASE LeaveUnlock(t)
    BY <2>5 DEF LeaveUnlock
  <2>6. CASE Check(t)
    BY <2>6 DEF Check
  <2>7. CASE Stir(t)
    BY <2>7 DEF Stir
  <2>8. CASE AllocInit(t)
    BY <2>8 DEF AllocInit
  <2>9. CASE Pick(t)
    BY <2>9 DEF Pick
  <2>10. CASE Upgrade(t)
    BY <2>10 DEF Upgrade
  <2>11. CASE Publish(t)
    BY <2>11 DEF Publish
  <2>12. CASE StoreHandler(t)
    BY <2>12 DEF StoreHandler
  <2>13. CASE RunHandler(t)
    BY <2>13 DEF RunHandler
  <2>14. CASE Abort(t)
    BY <2>14 DEF Abort
  <2>. QED
    BY <1>3, <2>1, <2>2, <2>3, <2>4, <2>5, <2>6, <2>7, <2>8, <2>9, <2>10, <2>11,
        <2>12, <2>13, <2>14
       DEF Working
<1>4. CASE UNCHANGED vars
  BY <1>4 DEF vars
<1>. QED
  BY <1>1, <1>2, <1>3, <1>4 DEF Next

(* No step but the body changes the implementation pointer, and the body   *)
(* ends with the best one.                                                 *)
LEMMA PickedStep == TypeInv /\ HeldInv /\ PickedInv /\ [Next]_vars => PickedInv'
<1> SUFFICES ASSUME TypeInv, HeldInv, PickedInv, [Next]_vars
             PROVE  PickedInv'
  OBVIOUS
<1> USE ThreadAssumption, ChoicesAssumption
        DEF TypeInv, TypeOK, Step, Body, Leave, Part, At, Go, Return, Call, Inside,
            NotYet, SetUp,
            lock, lib, told, hist,
            HeldInv, PickedInv, Stands, InSection
<1>1. ASSUME NEW t \in Thread, Calling(t)
      PROVE  PickedInv'
  <2>1. CASE CallInit(t)
    BY <2>1 DEF CallInit
  <2>2. CASE CallSetHandler(t)
    BY <2>2 DEF CallSetHandler
  <2>3. CASE CallMisuse(t)
    BY <2>3 DEF CallMisuse
  <2>4. CASE MacInit(t)
    BY <2>4 DEF MacInit
  <2>5. CASE MacUpdate(t)
    BY <2>5 DEF MacUpdate, MacContinues
  <2>6. CASE MacFinal(t)
    BY <2>6 DEF MacFinal, MacContinues
  <2>. QED
    BY <1>1, <2>1, <2>2, <2>3, <2>4, <2>5, <2>6 DEF Calling
<1>2. ASSUME NEW t \in Thread, Lock(t)
      PROVE  PickedInv'
  BY <1>2 DEF Lock, MayEnter
<1>3. ASSUME NEW t \in Thread, Working(t)
      PROVE  PickedInv'
  <2>1. CASE MisuseInside(t)
    BY <2>1 DEF MisuseInside
  <2>2. CASE Mark(t)
    BY <2>2 DEF Mark
  <2>3. CASE LeaveTest(t)
    BY <2>3 DEF LeaveTest
  <2>4. CASE LeaveClear(t)
    BY <2>4 DEF LeaveClear
  <2>5. CASE LeaveUnlock(t)
    BY <2>5 DEF LeaveUnlock
  <2>6. CASE Check(t)
    BY <2>6 DEF Check
  <2>7. CASE Stir(t)
    BY <2>7 DEF Stir
  <2>8. CASE AllocInit(t)
    BY <2>8 DEF AllocInit
  <2>9. CASE Pick(t)
    BY <2>9 DEF Pick
  <2>10. CASE Upgrade(t)
    BY <2>10 DEF Upgrade
  <2>11. CASE Publish(t)
    BY <2>11 DEF Publish
  <2>12. CASE StoreHandler(t)
    BY <2>12 DEF StoreHandler
  <2>13. CASE RunHandler(t)
    BY <2>13 DEF RunHandler
  <2>14. CASE Abort(t)
    BY <2>14 DEF Abort
  <2>. QED
    BY <1>3, <2>1, <2>2, <2>3, <2>4, <2>5, <2>6, <2>7, <2>8, <2>9, <2>10, <2>11,
        <2>12, <2>13, <2>14
       DEF Working
<1>4. CASE UNCHANGED vars
  BY <1>4 DEF vars
<1>. QED
  BY <1>1, <1>2, <1>3, <1>4 DEF Next
(* When the pointer is used only after sodium_init told the caller, a MAC  *)
(* started is started with the best implementation.                        *)
LEMMA MacStep ==
    ASSUME ~MacBeforeInit
    PROVE  TypeInv /\ SetUpInv /\ HeldInv /\ PickedInv /\ MacInv /\ ~misused /\ [Next]_vars => MacInv'
<1> SUFFICES ASSUME TypeInv, SetUpInv, HeldInv, PickedInv, MacInv, ~misused,
                    [Next]_vars
             PROVE  MacInv'
  OBVIOUS
<1> USE ThreadAssumption, ChoicesAssumption, ~MacBeforeInit
        DEF TypeInv, TypeOK, Step, Body, Leave, Part, At, Go, Return, Call, Inside,
            NotYet, SetUp,
            lock, lib, told, hist,
            SetUpInv, PickedInv, MacInv, MayCompute
<1>1. ASSUME NEW t \in Thread, Calling(t)
      PROVE  MacInv'
  <2>1. CASE CallInit(t)
    BY <2>1 DEF CallInit
  <2>2. CASE CallSetHandler(t)
    BY <2>2 DEF CallSetHandler
  <2>3. CASE CallMisuse(t)
    BY <2>3 DEF CallMisuse
  <2>4. CASE MacInit(t)
    BY <2>4 DEF MacInit
  <2>5. CASE MacUpdate(t)
    BY <2>5 DEF MacUpdate, MacContinues
  <2>6. CASE MacFinal(t)
    BY <2>6 DEF MacFinal, MacContinues
  <2>. QED
    BY <1>1, <2>1, <2>2, <2>3, <2>4, <2>5, <2>6 DEF Calling
<1>2. ASSUME NEW t \in Thread, Lock(t)
      PROVE  MacInv'
  BY <1>2 DEF Lock, MayEnter
<1>3. ASSUME NEW t \in Thread, Working(t)
      PROVE  MacInv'
  <2>1. CASE MisuseInside(t)
    BY <2>1 DEF MisuseInside
  <2>2. CASE Mark(t)
    BY <2>2 DEF Mark
  <2>3. CASE LeaveTest(t)
    BY <2>3 DEF LeaveTest
  <2>4. CASE LeaveClear(t)
    BY <2>4 DEF LeaveClear
  <2>5. CASE LeaveUnlock(t)
    BY <2>5 DEF LeaveUnlock
  <2>6. CASE Check(t)
    BY <2>6 DEF Check
  <2>7. CASE Stir(t)
    BY <2>7 DEF Stir
  <2>8. CASE AllocInit(t)
    BY <2>8 DEF AllocInit
  <2>9. CASE Pick(t)
    BY <2>9 DEF Pick
  <2>10. CASE Upgrade(t)
    BY <2>10 DEF Upgrade
  <2>11. CASE Publish(t)
    BY <2>11 DEF Publish
  <2>12. CASE StoreHandler(t)
    BY <2>12 DEF StoreHandler
  <2>13. CASE RunHandler(t)
    BY <2>13 DEF RunHandler
  <2>14. CASE Abort(t)
    BY <2>14 DEF Abort
  <2>. QED
    BY <1>3, <2>1, <2>2, <2>3, <2>4, <2>5, <2>6, <2>7, <2>8, <2>9, <2>10, <2>11,
        <2>12, <2>13, <2>14
       DEF Working
<1>4. CASE UNCHANGED vars
  BY <1>4 DEF vars
<1>. QED
  BY <1>1, <1>2, <1>3, <1>4 DEF Next

(* Nothing undoes a misuse from outside the section.                       *)
LEMMA MisusedStays == [Next]_vars /\ misused => misused'
<1> SUFFICES ASSUME [Next]_vars, misused
             PROVE  misused'
  OBVIOUS
<1> USE DEF lock, lib, told, hist
<1>1. ASSUME NEW t \in Thread, Calling(t)
      PROVE  misused'
  BY <1>1 DEF Calling, CallInit, CallSetHandler, CallMisuse, MacInit, MacUpdate,
      MacFinal, MacContinues
<1>2. ASSUME NEW t \in Thread, Lock(t)
      PROVE  misused'
  BY <1>2 DEF Lock
<1>3. ASSUME NEW t \in Thread, Working(t)
      PROVE  misused'
  BY <1>3 DEF Working, MisuseInside, Mark, LeaveTest, LeaveClear, LeaveUnlock, Check,
      Stir, AllocInit, Pick,
              Upgrade, Publish, SetUp, StoreHandler, RunHandler, Abort
<1>. QED
  BY <1>1, <1>2, <1>3 DEF Next, vars

-----------------------------------------------------------------------------
(* The invariants hold before the first call.                              *)
LEMMA InitCore == Init => CoreInv /\ MacInv
<1> SUFFICES ASSUME Init
             PROVE  CoreInv /\ MacInv
  OBVIOUS
<1> USE DEF Init, Step, Body, Leave
<1>1. TypeInv
  BY DEF TypeInv, TypeOK
<1>2. SetUpInv
  BY DEF SetUpInv, SetUpBefore
<1>3. HeldInv
  BY ThreadAssumption DEF HeldInv, Stands, InSection
<1>4. PickedInv /\ MacInv
  BY DEF PickedInv, MacInv
<1>. QED
  BY <1>1, <1>2, <1>3, <1>4 DEF CoreInv

(* CoreInv is inductive.                                                   *)
LEMMA StepCore == CoreInv /\ [Next]_vars => CoreInv'
  BY TypeStep, SetUpStep, HeldStep, PickedStep, MisusedStays DEF CoreInv

(* CoreInv holds of the specification.                                     *)
LEMMA Core == Spec => []CoreInv
  BY InitCore, StepCore, PTL DEF Spec

(* Whatever misuse does to the section, a thread that sodium_init told 0   *)
(* or 1 finds the library set up, whole; and nobody is told -1 before a    *)
(* misuse outside the section.                                             *)
THEOREM Ready == Spec => []ReadyWhenTold
<1>1. CoreInv => ReadyWhenTold
  BY DEF CoreInv, SetUpInv, HeldInv, ReadyWhenTold
<1>. QED
  BY <1>1, Core, PTL

(* While misuse comes only from inside, the section excludes, its flag     *)
(* and owner tell who is in it, the library is not set up a second time,   *)
(* and the assertion of sodium_crit_enter holds; every variable has its    *)
(* type.                                                                   *)
THEOREM Exclusion == Spec => []SectionExcludes
<1>1. CoreInv => SectionExcludes
  <2> SUFFICES ASSUME CoreInv
               PROVE  SectionExcludes
    OBVIOUS
  <2>1. CASE misused
    BY <2>1 DEF CoreInv, TypeInv, SectionExcludes
  <2>2. CASE ~misused
    BY <2>2, ThreadAssumption DEF CoreInv, TypeInv, HeldInv, PickedInv, Stands,
        SectionExcludes
  <2>. QED
    BY <2>1, <2>2
<1>. QED
  BY <1>1, Core, PTL

(* Threads that compute MACs only after sodium_init has told them so never *)
(* finish one with another implementation than they began it with, while   *)
(* nobody misuses the library from outside the section.                    *)
THEOREM NoMixing ==
    ASSUME ~MacBeforeInit
    PROVE  Spec => []NoMixedMac
<1>1. CoreInv /\ MacInv /\ [Next]_vars => MacInv'
  BY MacStep, MisusedStays DEF CoreInv, MacInv
<1>2. MacInv => NoMixedMac
  BY DEF MacInv, NoMixedMac
<1>. QED
  BY <1>1, <1>2, InitCore, Core, PTL DEF Spec
=============================================================================
