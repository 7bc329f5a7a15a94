--------------------------- MODULE OrderedChannel ---------------------------
(***************************************************************************)
(* What the secret stream promises its two ends, with no cryptography in   *)
(* it: each session is a sequence of frames that only grows, and a receiver *)
(* attached to a session takes delivery of them one after the other, from   *)
(* the first, with none skipped, repeated, altered or taken from another   *)
(* session.  Losing, repeating or altering frames underneath may delay     *)
(* delivery for ever, but never makes it wrong.                            *)
(***************************************************************************)
EXTENDS Naturals, Sequences

CONSTANTS Session,   \* the identities of sessions
          Frame      \* what may be sent

VARIABLES sent,      \* sent[s]: the frames sent on session s, in order
          session,   \* the session the receiver is attached to
          received   \* the frames it has taken delivery of since it attached

chVars == <<sent, session, received>>

ChTypeOK ==
    /\ sent \in [Session -> Seq(Frame)]
    /\ session \in Session
    /\ received \in Seq(Frame)

ChInit ==
    /\ sent = [s \in Session |-> <<>>]
    /\ session \in Session
    /\ received = <<>>

(* The frame is named by the state it leads to: Frame may be infinite, and *)
(* nothing has to enumerate it.                                            *)
Send(s) ==
    LET f == sent'[s][Len(sent'[s])]
    IN  /\ sent'[s] # <<>> /\ f \in Frame
        /\ sent' = [sent EXCEPT ![s] = Append(@, f)]
        /\ UNCHANGED <<session, received>>

(* A receiver is (re)opened: it starts again from the first frame.         *)
Attach(s) ==
    /\ session' = s
    /\ received' = <<>>
    /\ UNCHANGED sent

Deliver ==
    /\ Len(received) < Len(sent[session])
    /\ received' = Append(received, sent[session][Len(received) + 1])
    /\ UNCHANGED <<sent, session>>

ChNext ==
    \/ \E s \in Session : Send(s) \/ Attach(s)
    \/ Deliver

ChSpec == ChInit /\ [][ChNext]_chVars
=============================================================================
