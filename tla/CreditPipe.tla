----------------------------- MODULE CreditPipe -----------------------------
(***************************************************************************)
(* What the SEQ mechanism of a channel promises, with no sequence numbers, *)
(* no frames and no wires: a pipe of octets whose reader grants credit.    *)
(* The sender never passes the credit, the credit never passes what the    *)
(* reader has taken by more than MaxWindow, and every time the reader      *)
(* takes octets it leaves the sender some credit, so nobody waits for ever.*)
(***************************************************************************)
EXTENDS Integers

CONSTANTS Bytes, MaxWindow

VARIABLES sent, received, granted

pipe == <<sent, received, granted>>

PipeInit ==
    /\ sent = 0 /\ received = 0
    /\ granted \in 1 .. MaxWindow

\* One frame: any positive amount within the credit.
Send ==
    /\ sent' \in sent + 1 .. Bytes
    /\ sent' <= granted
    /\ UNCHANGED <<received, granted>>

\* The reader takes a frame and may raise the credit.
Receive ==
    \E r \in received + 1 .. sent, g \in granted .. granted + MaxWindow :
        /\ g > r /\ g <= r + MaxWindow
        /\ received' = r /\ granted' = g
        /\ UNCHANGED sent

PipeNext == Send \/ Receive

PipeSpec == PipeInit /\ [][PipeNext]_pipe /\ WF_pipe(Send) /\ WF_pipe(Receive)

\* The receiver never has to hold more octets than the largest window.
BufferBounded == sent - received <= MaxWindow
=============================================================================
