----------------------------- MODULE SysRandom -----------------------------
(***************************************************************************)
(* randombytes with its default implementation, randombytes_sysrandom: the *)
(* process-wide stream that every thread opens on first use, reads without *)
(* a lock and may close.                                                   *)
(*                                                                         *)
(* Where the kernel has getrandom (Linux) the stream is a flag.  Elsewhere *)
(* (the Apple platforms) it is a descriptor of /dev/urandom, a number that *)
(* the kernel gives to the next file once it is closed.  Each load, store  *)
(* and system call is a step; loads and stores are taken to be atomic and  *)
(* in program order.                                                       *)
(***************************************************************************)
EXTENDS Integers, FiniteSets

CONSTANTS
    Thread,
    Descriptors,  \* the process may have 0 .. Descriptors - 1 open
    Kernels,      \* subset of {"getrandom", "device"}
    MayClose      \* may applications call randombytes_close?

ASSUME DescriptorsAssumption == Descriptors \in Nat \ {0}
ASSUME ChoicesAssumption ==
    /\ Kernels \subseteq {"getrandom", "device"} /\ Kernels # {}
    /\ MayClose \in BOOLEAN

VARIABLES
    kernel,          \* what this machine's kernel offers
    table,           \* table[d]: what descriptor d is open on, or "free"
    implementation,  \* has the pointer been set?
    fd,              \* stream.random_data_source_fd
    initialized,     \* stream.initialized
    getrandom,       \* stream.getrandom_available
    op,              \* op[t]: the function t has called, or "none"
    pc,              \* pc[t]: its next step there
    hand,            \* hand[t]: the descriptor t holds in a register
    got,             \* got[t]: what t's last call of buf was filled with
    process,         \* "running" or "misuse"
    stormed,         \* has a close run beside another call?
    raced,           \* have two threads been opening the stream at once?
    crowded,         \* has the table been full when the library opened?
    robbed           \* has the library closed a file that is not its own?

kernels == <<kernel, table>>
stream  == <<implementation, fd, initialized, getrandom>>
threads == <<op, pc, hand, got>>
hist    == <<stormed, raced, crowded, robbed>>
vars    == <<kernels, stream, threads, process, hist>>
-----------------------------------------------------------------------------
Descriptor == 0 .. Descriptors - 1
None       == -1
Free       == {d \in Descriptor : table[d] = "free"}
Lowest(S)  == CHOOSE d \in S : \A e \in S : d <= e

Opening == {"probe", "open", "store", "mark"}
Closing == {"test", "load", "close", "forget", "reset"}
Reading == {"needed", "take", "fetch", "read"}

Init ==
    /\ kernel \in Kernels
    /\ table = [d \in Descriptor |-> "free"]
    /\ implementation = FALSE
    /\ fd = None /\ initialized = FALSE /\ getrandom = FALSE
    /\ op = [t \in Thread |-> "none"]
    /\ pc = [t \in Thread |-> "idle"]
    /\ hand = [t \in Thread |-> None]
    /\ got = [t \in Thread |-> "nothing"]
    /\ process = "running"
    /\ stormed = FALSE /\ raced = FALSE /\ crowded = FALSE /\ robbed = FALSE

At(t, step) == process = "running" /\ pc[t] = step
Go(t, step) == pc' = [pc EXCEPT ![t] = step]
Misuse(t)   == process' = "misuse" /\ UNCHANGED pc

-----------------------------------------------------------------------------
(* randombytes_buf and randombytes_stir call randombytes_init_if_needed;   *)
(* randombytes_close does nothing before there is an implementation.       *)

Call(t, function) ==
    /\ At(t, "idle")
    /\ op' = [op EXCEPT ![t] = function]
    /\ got' = [got EXCEPT ![t] = "nothing"]
    /\ stormed' = (stormed \/ \E u \in Thread \ {t} :
                     op[u] # "none" /\ "close" \in {function, op[u]})
    /\ UNCHANGED <<kernels, stream, hand, process, raced, crowded, robbed>>

CallStir(t) == Call(t, "stir") /\ Go(t, "dispatch")
CallBuf(t)  == Call(t, "buf")  /\ Go(t, "dispatch")

CallClose(t) ==
    /\ MayClose /\ implementation
    /\ Call(t, "close")
    /\ Go(t, "test")

Dispatch(t) ==
    /\ At(t, "dispatch")
    /\ implementation' = TRUE
    /\ Go(t, IF implementation /\ op[t] = "buf" THEN "needed" ELSE "stir")
    /\ UNCHANGED <<kernels, fd, initialized, getrandom, op, hand, got, process, hist>>

Finish(t) ==
    /\ op' = [op EXCEPT ![t] = "none"]
    /\ Go(t, "idle")
-----------------------------------------------------------------------------
(* randombytes_sysrandom_stir                                              *)

AfterStir(t) == IF op[t] = "buf" THEN Go(t, "needed") /\ UNCHANGED op ELSE Finish(t)

(* Mutant: the stream is marked initialised before it is opened.           *)
StirMarksFirst(t) ==
    /\ At(t, "stir")
    /\ IF initialized THEN AfterStir(t) ELSE Go(t, "probe") /\ UNCHANGED op
    /\ initialized' = TRUE
    /\ UNCHANGED <<kernels, implementation, fd, getrandom, hand, got, process, hist>>

(* Mutant: every stir opens the stream.                                    *)
StirAlways(t) ==
    /\ At(t, "stir")
    /\ Go(t, "probe")
    /\ raced' = (raced \/ \E u \in Thread \ {t} : pc[u] \in Opening)
    /\ UNCHANGED <<kernels, stream, op, hand, got, process, stormed, crowded, robbed>>

StirTest(t) ==
    /\ At(t, "stir")
    /\ IF initialized THEN AfterStir(t) /\ UNCHANGED raced
       ELSE /\ Go(t, "probe")
            /\ raced' = (raced \/ \E u \in Thread \ {t} : pc[u] \in Opening)
            /\ UNCHANGED op
    /\ UNCHANGED <<kernels, stream, hand, got, process, stormed, crowded, robbed>>

Probe(t) ==
    /\ At(t, "probe")
    /\ getrandom' = (kernel = "getrandom")
    /\ Go(t, IF kernel = "getrandom" THEN "mark" ELSE "open")
    /\ UNCHANGED <<kernels, implementation, fd, initialized, op, hand, got, process, hist>>

OpenDevice(t) ==
    /\ At(t, "open")
    /\ IF Free = {}
         THEN Misuse(t) /\ crowded' = TRUE /\ UNCHANGED <<table, hand>>
         ELSE /\ table' = [table EXCEPT ![Lowest(Free)] = "device"]
              /\ hand' = [hand EXCEPT ![t] = Lowest(Free)]
              /\ Go(t, "store")
              /\ UNCHANGED <<process, crowded>>
    /\ UNCHANGED <<kernel, stream, op, got, stormed, raced, robbed>>

StoreFd(t) ==
    /\ At(t, "store")
    /\ fd' = hand[t]
    /\ hand' = [hand EXCEPT ![t] = None]
    /\ Go(t, "mark")
    /\ UNCHANGED <<kernels, implementation, initialized, getrandom, op, got, process, hist>>

Mark(t) ==
    /\ At(t, "mark")
    /\ initialized' = TRUE
    /\ AfterStir(t)
    /\ UNCHANGED <<kernels, implementation, fd, getrandom, hand, got, process, hist>>
-----------------------------------------------------------------------------
(* randombytes_sysrandom_buf                                               *)

Needed(t) ==
    /\ At(t, "needed")
    /\ Go(t, IF initialized THEN "take" ELSE "stir")
    /\ UNCHANGED <<kernels, stream, op, hand, got, process, hist>>

Fill(t, bytes) == got' = [got EXCEPT ![t] = bytes] /\ Finish(t)

Take(t) ==
    /\ At(t, "take")
    /\ IF getrandom
         THEN Fill(t, "random") /\ UNCHANGED process
         ELSE /\ UNCHANGED <<op, got>>
              /\ IF fd = None THEN Misuse(t) ELSE Go(t, "fetch") /\ UNCHANGED process
    /\ UNCHANGED <<kernels, stream, hand, hist>>

Fetch(t) ==
    /\ At(t, "fetch")
    /\ hand' = [hand EXCEPT ![t] = fd]
    /\ Go(t, "read")
    /\ UNCHANGED <<kernels, stream, op, got, process, hist>>

(* A read of a file that is too short is a misuse as well.                 *)
Read(t) ==
    /\ At(t, "read")
    /\ hand' = [hand EXCEPT ![t] = None]
    /\ \/ /\ hand[t] \in Descriptor \ Free
          /\ Fill(t, IF table[hand[t]] = "device" THEN "random" ELSE "foreign")
          /\ UNCHANGED process
       \/ /\ hand[t] \notin {d \in Descriptor : table[d] = "device"}
          /\ Misuse(t)
          /\ UNCHANGED <<op, got>>
    /\ UNCHANGED <<kernels, stream, hist>>
-----------------------------------------------------------------------------
(* randombytes_sysrandom_close                                             *)

CloseTest(t) ==
    /\ At(t, "test")
    /\ IF fd = None THEN Finish(t) ELSE Go(t, "load") /\ UNCHANGED op
    /\ UNCHANGED <<kernels, stream, hand, got, process, hist>>

CloseLoad(t) ==
    /\ At(t, "load")
    /\ hand' = [hand EXCEPT ![t] = fd]
    /\ Go(t, "close")
    /\ UNCHANGED <<kernels, stream, op, got, process, hist>>

Close(t) ==
    /\ At(t, "close")
    /\ hand' = [hand EXCEPT ![t] = None]
    /\ IF hand[t] \in Descriptor \ Free
         THEN /\ table' = [table EXCEPT ![hand[t]] = "free"]
              /\ robbed' = (robbed \/ table[hand[t]] = "file")
              /\ Go(t, "forget")
              /\ UNCHANGED op
         ELSE Finish(t) /\ UNCHANGED <<table, robbed>>
    /\ UNCHANGED <<kernel, stream, got, process, stormed, raced, crowded>>

(* Mutant: the stream keeps the number of the descriptor it closed.        *)
CloseOnly(t) ==
    /\ At(t, "forget")
    /\ Go(t, "reset")
    /\ UNCHANGED <<kernels, stream, op, hand, got, process, hist>>

Forget(t) ==
    /\ At(t, "forget")
    /\ fd' = None
    /\ Go(t, "reset")
    /\ UNCHANGED <<kernels, implementation, initialized, getrandom, op, hand, got, process, hist>>

(* Mutant: the stream stays initialised when it is closed.                 *)
StaysInitialized(t) ==
    /\ At(t, "reset")
    /\ Finish(t)
    /\ UNCHANGED <<kernels, stream, hand, got, process, hist>>

Reset(t) ==
    /\ At(t, "reset")
    /\ initialized' = FALSE
    /\ Finish(t)
    /\ UNCHANGED <<kernels, implementation, fd, getrandom, hand, got, process, hist>>
-----------------------------------------------------------------------------
(* The rest of the program opens and closes files of its own.              *)

OpenFile ==
    /\ process = "running" /\ Free # {}
    /\ table' = [table EXCEPT ![Lowest(Free)] = "file"]
    /\ UNCHANGED <<kernel, stream, threads, process, hist>>

CloseFile ==
    /\ process = "running"
    /\ \E d \in Descriptor : table[d] = "file" /\ table' = [table EXCEPT ![d] = "free"]
    /\ UNCHANGED <<kernel, stream, threads, process, hist>>
-----------------------------------------------------------------------------
Working(t) ==
    \/ Dispatch(t) \/ StirTest(t) \/ Probe(t) \/ OpenDevice(t) \/ StoreFd(t) \/ Mark(t)
    \/ Needed(t) \/ Take(t) \/ Fetch(t) \/ Read(t)
    \/ CloseTest(t) \/ CloseLoad(t) \/ Close(t) \/ Forget(t) \/ Reset(t)

Calling(t) == CallStir(t) \/ CallBuf(t) \/ CallClose(t)

Next ==
    \/ \E t \in Thread : Calling(t) \/ Working(t)
    \/ OpenFile
    \/ CloseFile

Spec == Init /\ [][Next]_vars
-----------------------------------------------------------------------------
(* Every variable has its type, and a thread at a step of a function has   *)
(* called that function.                                                   *)
TypeOK ==
    /\ kernel \in Kernels
    /\ table \in [Descriptor -> {"free", "device", "file"}]
    /\ implementation \in BOOLEAN /\ initialized \in BOOLEAN /\ getrandom \in BOOLEAN
    /\ fd \in Descriptor \union {None}
    /\ op \in [Thread -> {"none", "stir", "buf", "close"}]
    /\ pc \in [Thread -> {"idle", "dispatch", "stir"} \union Opening \union Reading \union Closing]
    /\ \A t \in Thread : /\ op[t] = "none" <=> pc[t] = "idle"
                         /\ pc[t] \in Reading => op[t] = "buf"
                         /\ pc[t] \in Closing <=> op[t] = "close"
    /\ hand \in [Thread -> Descriptor \union {None}]
    /\ got \in [Thread -> {"nothing", "random", "foreign"}]
    /\ process \in {"running", "misuse"}
    /\ stormed \in BOOLEAN /\ raced \in BOOLEAN /\ crowded \in BOOLEAN /\ robbed \in BOOLEAN

(* Where the kernel has getrandom, nothing that threads do to each other   *)
(* makes randombytes_buf fail or return anything but random bytes, and     *)
(* every variable keeps its type (randombytes_sysrandom_buf).              *)
GetrandomSuffices ==
    /\ TypeOK
    /\ kernel = "getrandom" =>
        /\ process = "running" /\ ~robbed
        /\ \A t \in Thread : got[t] # "foreign"

(* With the device, first uses by several threads at once are harmless to  *)
(* each of them, and so is a close that has the library to itself: buf     *)
(* returns random bytes and no file of the program is read or closed.      *)
DeviceServes ==
    ~stormed =>
        /\ process = "misuse" => crowded
        /\ ~robbed
        /\ \A t \in Thread : got[t] # "foreign"

(* A stream that stands initialised has an open device behind it, or the   *)
(* kernel's getrandom, once no thread is inside the library.               *)
InitializedIsOpen ==
    ~stormed /\ (\A t \in Thread : op[t] = "none") =>
        (initialized <=> getrandom \/ (fd # None /\ table[fd] = "device"))

(* Only first uses that meet leave a device open that nobody will close.   *)
NothingLeaks ==
    ~raced /\ ~stormed /\ process = "running" /\ (\A t \in Thread : op[t] = "none") =>
        \A d \in Descriptor : table[d] = "device" => d = fd
=============================================================================
