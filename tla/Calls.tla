------------------------------- MODULE Calls -------------------------------
(***************************************************************************)
(* A call of a function of the library that neither keeps state between    *)
(* calls nor shares any with other threads: the caller chooses the         *)
(* function and its arguments, the function answers once, and the caller   *)
(* goes on.  The modules that model such functions extend this one, give   *)
(* the calls that may be made as Ask actions and the answers as one action *)
(* per function, and compare the answer with what the function promises.   *)
(***************************************************************************)
EXTENDS Integers, SequencesExt

VARIABLES stage,   \* "idle", "called" or "answered"
          call,    \* the function called and its arguments, a record
          answer   \* what it returned or wrote

callVars == <<stage, call, answer>>

Idle == [fn |-> "none"]

CallInit == stage = "idle" /\ call = Idle /\ answer = Idle

Ask(c) == stage = "idle" /\ stage' = "called" /\ call' = c /\ UNCHANGED answer

Called(fn) == stage = "called" /\ call.fn = fn

Answer(a) == stage' = "answered" /\ answer' = a /\ UNCHANGED call

Return == stage = "answered" /\ stage' = "idle" /\ call' = Idle /\ answer' = Idle

(* The element of a set of one.  Only({f(r) : r \in {e}}) is f of e with e *)
(* computed once, whatever f makes of it.                                  *)
Only(set) == CHOOSE element \in set : TRUE

(* The body for one element of seq after the other, from a first result on *)
Loop(body(_, _), first, seq) ==
    LET upTo[n \in 0 .. Len(seq)] ==
            IF n = 0 THEN first ELSE Only({body(r, seq[n]) : r \in {upTo[n - 1]}})
    IN upTo[Len(seq)]

(* The state in which the property of a function looks at its answer. *)
Answered(fns) == stage = "answered" /\ call.fn \in fns
=============================================================================
