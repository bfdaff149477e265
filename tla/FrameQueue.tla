----------------------------- MODULE FrameQueue -----------------------------
(***************************************************************************)
(* What the sequencer promises to one channel: the messages queued on it   *)
(* leave as frames in the order they were queued, each message's octets    *)
(* once and together (no frame of another message in between), and never   *)
(* more octets than the peer has granted.                                  *)
(***************************************************************************)
EXTENDS Integers, Sequences

CONSTANT Closers    \* TRUE: a message may be cut short, closed by an empty frame

VARIABLES
    queue,      \* messages not completely sent: [no, left]
    sent,       \* octets handed to the connection
    granted,    \* octets the peer allows so far
    open        \* number of the message whose last frame said "more", or 0

output == <<queue, sent, granted, open>>

QueueInit == queue = <<>> /\ sent = 0 /\ granted \in Nat /\ open = 0

Put ==
    /\ queue' # <<>> /\ SubSeq(queue', 1, Len(queue') - 1) = queue
    /\ queue'[Len(queue')] \in [no : Nat \ {0}, left : Nat]
    /\ UNCHANGED <<sent, granted, open>>

\* A frame of the first message, its last one or not.  It carries no more
\* octets than the message has left and the peer allows; the last frame
\* carries all of them, unless the message is cut short.
Emit ==
    /\ queue # <<>>
    /\ LET m == Head(queue)
           size == sent' - sent
       IN  /\ open \in {0, m.no}
           /\ size \in 0 .. m.left /\ sent' <= granted
           /\ \/ /\ open' = m.no
                 /\ queue' = [queue EXCEPT ![1].left = @ - size]
              \/ /\ open' = 0
                 /\ size = m.left \/ (Closers /\ size = 0)
                 /\ queue' = Tail(queue)
    /\ UNCHANGED granted

Grant ==
    /\ granted' > granted
    /\ UNCHANGED <<queue, sent, open>>

QueueNext == Put \/ Emit \/ Grant

QueueSpec == QueueInit /\ [][QueueNext]_output
=============================================================================
