----------------------------- MODULE SodiumCore -----------------------------
(***************************************************************************)
(* sodium_init, the critical section it runs in, the misuse path that      *)
(* breaks out of that section, and the implementation pointers that        *)
(* sodium_init writes and every other function reads without a lock.       *)
(*                                                                         *)
(* The POSIX build: a pthread mutex _sodium_lock and a flag "locked" that  *)
(* says the section is occupied.  Threads call sodium_init (what Swift's   *)
(* Sodium.initialize does), sodium_set_misuse_handler and, on a misuse,    *)
(* sodium_misuse, which first leaves the section, on the chance that its   *)
(* caller is inside it, and then enters it to read the handler.  A caller  *)
(* that is not inside clears a flag and unlocks a mutex that belong to     *)
(* another thread.  POSIX leaves that unlock undefined: ForeignUnlock      *)
(* lists what it may do.                                                   *)
(*                                                                         *)
(* One of the pointers is modelled as such: Poly1305's implementation.     *)
(* init, update and final each read it anew, and the donna and SSE2        *)
(* implementations lay out the state between these calls differently.      *)
(***************************************************************************)
EXTENDS Naturals, FiniteSets

CONSTANTS
    Thread, NoThread,
    MisuseFrom,     \* subset of {"inside", "outside"}: where misuse arises
    ForeignUnlock,  \* subset of {"releases", "refused"}: unlocking another's mutex
    Handler,        \* subset of {"returns", "reenters"}: handlers applications set
    MacBeforeInit   \* may a thread compute a MAC that never called sodium_init?

ASSUME ThreadAssumption  == NoThread \notin Thread
ASSUME ChoicesAssumption ==
    /\ MisuseFrom \subseteq {"inside", "outside"}
    /\ ForeignUnlock \subseteq {"releases", "refused"}
    /\ Handler \subseteq {"returns", "reenters"}
    /\ MacBeforeInit \in BOOLEAN

VARIABLES
    owner,        \* the thread that holds _sodium_lock, or NoThread
    locked,       \* the flag
    initialized,  \* the flag
    ready,        \* the parts of the library that have been set up
    impl,         \* Poly1305's implementation pointer
    handler,      \* _misuse_handler
    call,         \* call[t]: the function t is in; "nested" is sodium_init
                  \* called by the misuse handler
    pc,           \* pc[t]: its next step there
    result,       \* result[t]: what t's sodium_init is about to return
    inited,       \* the threads that sodium_init has told 0 or 1
    failed,       \* the threads that sodium_init has told -1
    mac,          \* mac[t]: the implementation whose state t's MAC is in, or
                  \* "mixed" if two have worked on t's last one
    misused,      \* has a thread outside the section called sodium_misuse?
    refused,      \* has an unlock been refused?
    process       \* "running", "aborted" or "assert"

lock == <<owner, locked>>
lib  == <<initialized, ready, impl, handler>>
told == <<inited, failed>>
hist == <<misused, refused>>
vars == <<lock, lib, call, pc, result, told, mac, hist, process>>
-----------------------------------------------------------------------------
Part  == {"random", "alloc", "picks"}
Body  == {"stir", "alloc", "pick", "upgrade", "publish"}
Leave == {"test", "clear", "unlock"}
Step  == {"lock", "mark", "check", "store", "handler", "abort"} \union Body \union Leave

Init ==
    /\ owner = NoThread /\ locked = FALSE
    /\ initialized = FALSE /\ ready = {} /\ impl = "donna" /\ handler = "null"
    /\ call = [t \in Thread |-> "none"]
    /\ pc = [t \in Thread |-> "idle"]
    /\ result = [t \in Thread |-> 0]
    /\ inited = {} /\ failed = {}
    /\ mac = [t \in Thread |-> "none"]
    /\ misused = FALSE /\ refused = FALSE
    /\ process = "running"

At(t, step) == process = "running" /\ pc[t] = step
Go(t, step) == pc' = [pc EXCEPT ![t] = step]

Call(t, function, step) ==
    /\ At(t, "idle") /\ mac[t] \in {"none", "mixed"}
    /\ call' = [call EXCEPT ![t] = function]
    /\ Go(t, step)

CallInit(t) ==
    /\ Call(t, "init", "lock")
    /\ UNCHANGED <<lock, lib, result, told, mac, hist, process>>

CallSetHandler(t) ==
    /\ Call(t, "set", "lock")
    /\ UNCHANGED <<lock, lib, result, told, mac, hist, process>>

CallMisuse(t) ==
    /\ "outside" \in MisuseFrom
    /\ Call(t, "misuse", "test")
    /\ misused' = TRUE
    /\ UNCHANGED <<lock, lib, result, told, mac, refused, process>>

(* randombytes_stir finds no source of randomness, or _sodium_alloc_init   *)
(* no usable page size: misuse by the thread that is inside the section.   *)
MisuseInside(t) ==
    /\ "inside" \in MisuseFrom
    /\ At(t, "stir") \/ At(t, "alloc")
    /\ call' = [call EXCEPT ![t] = "misuse"]
    /\ Go(t, "test")
    /\ UNCHANGED <<lock, lib, result, told, mac, hist, process>>
-----------------------------------------------------------------------------
(* sodium_crit_enter: the mutex is not recursive.                          *)
EnterAnyway(t) == TRUE  \* Mutant: no mutual exclusion.

MayEnter(t) == owner = NoThread

Lock(t) ==
    /\ At(t, "lock") /\ MayEnter(t)
    /\ owner' = t
    /\ Go(t, "mark")
    /\ UNCHANGED <<locked, lib, call, result, told, mac, hist, process>>

(* Mutant: a misuse enters the section as sodium_init does.                *)
MisuseAsInit(function) == IF function = "set" THEN "store" ELSE "check"

Inside(function) ==
    CASE function \in {"init", "nested"} -> "check"
      [] function = "set"                -> "store"
      [] function = "misuse"             -> "handler"

(* Mutant: the flag is not set.                                            *)
MarkForgotten(t) ==
    /\ At(t, "mark")
    /\ Go(t, Inside(call[t]))
    /\ UNCHANGED <<lock, lib, call, result, told, mac, hist, process>>

(* assert(locked == 0); locked = 1;  The build defines no NDEBUG.          *)
Mark(t) ==
    /\ At(t, "mark")
    /\ IF locked
         THEN process' = "assert" /\ UNCHANGED <<locked, pc>>
         ELSE locked' = TRUE /\ Go(t, Inside(call[t])) /\ UNCHANGED process
    /\ UNCHANGED <<owner, lib, call, result, told, mac, hist>>

(* The end of a call: what its caller is told, and where its thread goes.  *)
Return(t, ok) ==
    /\ Go(t, CASE call[t] = "misuse" -> "lock"
               [] call[t] = "nested" -> "abort"
               [] OTHER              -> "idle")
    /\ call' = [call EXCEPT ![t] = IF @ \in {"misuse", "nested"} THEN @ ELSE "none"]
    /\ inited' = IF call[t] = "init" /\ ok THEN inited \union {t} ELSE inited
    /\ failed' = IF call[t] = "init" /\ ~ok THEN failed \union {t} ELSE failed

(* sodium_crit_leave: test the flag, clear it, unlock the mutex.           *)
LeaveTest(t) ==
    /\ At(t, "test")
    /\ IF locked
         THEN Go(t, "clear") /\ UNCHANGED <<call, told>>
         ELSE Return(t, FALSE)
    /\ UNCHANGED <<lock, lib, result, mac, hist, process>>

LeaveClear(t) ==
    /\ At(t, "clear")
    /\ locked' = FALSE
    /\ Go(t, "unlock")
    /\ UNCHANGED <<owner, lib, call, result, told, mac, hist, process>>

LeaveUnlock(t) ==
    /\ At(t, "unlock")
    /\ \/ /\ owner = t \/ "releases" \in ForeignUnlock
          /\ owner' = NoThread
          /\ Return(t, TRUE)
          /\ UNCHANGED refused
       \/ /\ owner # t /\ "refused" \in ForeignUnlock
          /\ refused' = TRUE
          /\ Return(t, FALSE)
          /\ UNCHANGED owner
    /\ UNCHANGED <<locked, lib, result, mac, misused, process>>
-----------------------------------------------------------------------------
(* sodium_init, inside the section                                         *)

InitEveryTime == TRUE  \* Mutant: no test of the flag.

NotYet == ~initialized

(* Mutant: the early return forgets to leave the section.                  *)
CheckStays(t) ==
    /\ At(t, "check")
    /\ result' = [result EXCEPT ![t] = IF NotYet THEN 0 ELSE 1]
    /\ IF NotYet THEN Go(t, "stir") /\ UNCHANGED <<call, told>> ELSE Return(t, TRUE)
    /\ UNCHANGED <<lock, lib, mac, hist, process>>

Check(t) ==
    /\ At(t, "check")
    /\ IF NotYet
         THEN Go(t, "stir") /\ result' = [result EXCEPT ![t] = 0]
         ELSE Go(t, "test") /\ result' = [result EXCEPT ![t] = 1]
    /\ UNCHANGED <<lock, lib, call, told, mac, hist, process>>

SetUp(t, step, part, next) ==
    /\ At(t, step)
    /\ ready' = ready \union {part}
    /\ Go(t, next)
    /\ UNCHANGED <<lock, initialized, handler, call, result, told, mac, hist, process>>

(* Mutant: the library is declared initialised before it is.               *)
StirAndPublish(t) ==
    /\ At(t, "stir")
    /\ ready' = ready \union {"random"}
    /\ initialized' = TRUE
    /\ Go(t, "alloc")
    /\ UNCHANGED <<lock, impl, handler, call, result, told, mac, hist, process>>

Stir(t)      == SetUp(t, "stir", "random", "alloc") /\ UNCHANGED impl
AllocInit(t) == SetUp(t, "alloc", "alloc", "pick") /\ UNCHANGED impl

(* pick_best: first the default, then the best the processor runs.         *)
Pick(t) ==
    /\ At(t, "pick")
    /\ impl' = "donna"
    /\ Go(t, "upgrade")
    /\ UNCHANGED <<lock, initialized, ready, handler, call, result, told, mac, hist, process>>

Upgrade(t) == SetUp(t, "upgrade", "picks", "publish") /\ impl' = "sse2"

Publish(t) ==
    /\ At(t, "publish")
    /\ initialized' = TRUE
    /\ Go(t, "test")
    /\ UNCHANGED <<lock, ready, impl, handler, call, result, told, mac, hist, process>>

StoreHandler(t) ==
    /\ At(t, "store")
    /\ \E h \in Handler : handler' = h
    /\ Go(t, "test")
    /\ UNCHANGED <<lock, initialized, ready, impl, call, result, told, mac, hist, process>>
-----------------------------------------------------------------------------
(* sodium_misuse, inside the section: the handler runs with it occupied.   *)

RunHandler(t) ==
    /\ At(t, "handler")
    /\ IF handler = "reenters"
         THEN call' = [call EXCEPT ![t] = "nested"] /\ Go(t, "lock")
         ELSE UNCHANGED call /\ Go(t, "abort")
    /\ UNCHANGED <<lock, lib, result, told, mac, hist, process>>

Abort(t) ==
    /\ At(t, "abort")
    /\ process' = "aborted"
    /\ UNCHANGED <<lock, lib, call, pc, result, told, mac, hist>>
-----------------------------------------------------------------------------
(* A MAC: onetimeauth_poly1305_init, then updates and the final, each of   *)
(* them through the pointer as it then is.  A thread ends its MAC before   *)
(* it calls anything else, so that only other threads come between.        *)

MayCompute(t) == MacBeforeInit \/ t \in inited

MacInit(t) ==
    /\ At(t, "idle") /\ mac[t] \in {"none", "mixed"} /\ MayCompute(t)
    /\ mac' = [mac EXCEPT ![t] = impl]
    /\ UNCHANGED <<lock, lib, call, pc, result, told, hist, process>>

MacContinues(t, next) ==
    /\ At(t, "idle") /\ mac[t] \in {"donna", "sse2"}
    /\ mac' = [mac EXCEPT ![t] = IF impl = @ THEN next ELSE "mixed"]
    /\ UNCHANGED <<lock, lib, call, pc, result, told, hist, process>>

MacUpdate(t) == MacContinues(t, mac[t])
MacFinal(t)  == MacContinues(t, "none")
-----------------------------------------------------------------------------
(* The steps of a thread inside a call                                     *)
Working(t) ==
    \/ MisuseInside(t)
    \/ Mark(t) \/ LeaveTest(t) \/ LeaveClear(t) \/ LeaveUnlock(t)
    \/ Check(t) \/ Stir(t) \/ AllocInit(t) \/ Pick(t) \/ Upgrade(t) \/ Publish(t)
    \/ StoreHandler(t) \/ RunHandler(t) \/ Abort(t)

Calling(t) ==
    \/ CallInit(t) \/ CallSetHandler(t) \/ CallMisuse(t)
    \/ MacInit(t) \/ MacUpdate(t) \/ MacFinal(t)

Next == \E t \in Thread : Calling(t) \/ Lock(t) \/ Working(t)

(* A thread inside a call keeps running, and one that waits for the mutex  *)
(* gets it if it is released again and again.  Nothing obliges a thread to *)
(* make a call.                                                            *)
Fairness == \A t \in Thread : WF_vars(Working(t)) /\ SF_vars(Lock(t))

Spec == Init /\ [][Next]_vars /\ Fairness
-----------------------------------------------------------------------------
InSection(t) == pc[t] \in {"mark", "check", "store", "handler"} \union Body \union Leave

(* Every variable has its type; only sodium_init runs the body.            *)
TypeOK ==
    /\ owner \in Thread \union {NoThread}
    /\ locked \in BOOLEAN /\ initialized \in BOOLEAN
    /\ ready \subseteq Part
    /\ impl \in {"donna", "sse2"}
    /\ handler \in Handler \union {"null"}
    /\ call \in [Thread -> {"none", "init", "set", "misuse", "nested"}]
    /\ pc \in [Thread -> Step \union {"idle"}]
    /\ \A t \in Thread : /\ pc[t] = "idle" <=> call[t] = "none"
                         /\ pc[t] \in Body => call[t] \in {"init", "nested"}
    /\ result \in [Thread -> {0, 1}]
    /\ inited \subseteq Thread /\ failed \subseteq Thread
    /\ mac \in [Thread -> {"none", "donna", "sse2", "mixed"}]
    /\ misused \in BOOLEAN /\ refused \in BOOLEAN
    /\ process \in {"running", "aborted", "assert"}

(* What sodium_init tells.  Whatever misuse does to the section, a thread  *)
(* that was told 0 or 1 finds the whole library set up; it says -1, and    *)
(* Swift throws cannotInitialize, only after a misuse outside the section  *)
(* took the flag away from under a thread.                                 *)
ReadyWhenTold ==
    /\ inited # {} => initialized /\ ready = Part
    /\ failed # {} => misused

(* As long as misuse comes from inside the section only, the section       *)
(* excludes, its flag says who is in it, sodium_init sets the library up   *)
(* no second time, and the assertion of sodium_crit_enter holds.           *)
SectionExcludes ==
    /\ TypeOK
    /\ ~misused =>
        /\ \A t \in Thread : InSection(t) /\ pc[t] # "test" => owner = t
        /\ \A s, t \in Thread : InSection(s) /\ InSection(t) => s = t
        /\ initialized => \A t \in Thread : pc[t] \notin Body \/ pc[t] = "publish"
        /\ locked => owner # NoThread
        /\ process # "assert"

(* A MAC is finished with the implementation it was begun with.            *)
NoMixedMac == ~misused => \A t \in Thread : mac[t] # "mixed"

(* Every call ends, in a return or with the process, unless a handler      *)
(* calls back into the library or an unlock is refused.                    *)
EveryCallEnds ==
    [](handler # "reenters" /\ ~refused) =>
        \A t \in Thread : pc[t] # "idle" ~> (pc[t] = "idle" \/ process # "running")
=============================================================================
