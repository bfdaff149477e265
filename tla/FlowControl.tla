---------------------------- MODULE FlowControl ----------------------------
(***************************************************************************)
(* Flow control of one direction of a BEEP channel: the sequence-number    *)
(* window the receiver advertises with SEQ frames and the sender spends.   *)
(*                                                                         *)
(* The variables named after fields of struct _VortexChannel hold what the *)
(* C fields hold, 32-bit wrap included (SeqMod stands for MAX_SEQ_MOD).    *)
(* sent, received, acked and consumed are histories: the octet counts that *)
(* last_seq_no, last_seq_no_expected, remote_consumed_seq_no and           *)
(* consumed_seqno would hold if they never wrapped.  No guard of the       *)
(* protocol reads them; the amount of work and the moment of a window      *)
(* change are bounded with them.                                           *)
(*                                                                         *)
(* Frames and SEQ frames of one direction travel on one TCP stream each    *)
(* way; each wire is a FIFO.  A frame's field "at" is history as well.     *)
(***************************************************************************)
EXTENDS Integers, Sequences

CONSTANTS
    SeqMod,         \* MAX_SEQ_MOD: 2^32 in the code
    InitialWindow,  \* the window both sides start with: 4096 in the code
    Windows,        \* window sizes the application may ask for
    MaxWindow,      \* a bound on them
    MaxFrame,       \* largest frame the default segmentation builds: 4096
    Bytes,          \* octets the application hands to the channel
    ChangeUntil     \* window changes are asked for during these first octets

\* A window is a positive C int, so it fits in half of the sequence space.
FlowAssumption ==
    /\ SeqMod \in Nat /\ MaxFrame \in Nat \ {0}
    /\ Bytes \in Nat /\ ChangeUntil \in Nat
    /\ InitialWindow \in Windows
    /\ MaxWindow \in Nat /\ 2 * MaxWindow < SeqMod
    /\ Windows \subseteq 1 .. MaxWindow
ASSUME FlowAssumption

VARIABLES
    \* sending side
    last_seq_no, remote_consumed_seq_no, remote_window,
    building,               \* the sequencer is between reading the window
                            \* and using what it read
    max_seq_no_accepted,    \* what it read
    \* receiving side
    last_seq_no_expected, consumed_seqno, seq_no_window,
    window_size, desired_window_size,
    \* between them
    data, seqs, conn_ok,
    \* histories
    sent, received, acked, consumed

senderVars   == <<last_seq_no, remote_consumed_seq_no, remote_window,
                  building, max_seq_no_accepted, sent, acked>>
receiverVars == <<last_seq_no_expected, consumed_seqno, seq_no_window,
                  window_size, desired_window_size, received, consumed>>
vars == <<senderVars, receiverVars, data, seqs, conn_ok>>

-----------------------------------------------------------------------------
(* C arithmetic *)

\* The int a 32-bit (or wider) result is stored into.
AsInt(x) == LET u == x % SeqMod
            IN  IF 2 * u < SeqMod THEN u ELSE u - SeqMod

Least(a, b) == IF a <= b THEN a ELSE b      \* VORTEX_MIN

-----------------------------------------------------------------------------
(* Sending side *)

\* Mutant: the end of the window does not wrap.
IsStalledNoWrap == last_seq_no = remote_consumed_seq_no + remote_window

\* vortex_channel_is_stalled
IsStalled == last_seq_no = (remote_consumed_seq_no + remote_window) % SeqMod

\* Mutant: one octet beyond the window.
MaxSeqNoRemoteBeyond == (remote_consumed_seq_no + remote_window) % SeqMod

\* vortex_channel_get_max_seq_no_remote_accepted
MaxSeqNoRemoteAccepted == (remote_consumed_seq_no + remote_window - 1) % SeqMod

\* Octets from next to max, both included: the remote_buffer_available of
\* vortex_channel_get_next_frame_size.
RemoteBufferAvailable(next, max) ==
    AsInt(IF next <= max THEN max - next + 1 ELSE (SeqMod - next) + max + 1)

\* vortex_channel_get_next_frame_size without a user handler.  own is the
\* window_size of the opposite direction, which the C function uses too.
NextFrameSize(next, message_size, max, own) ==
    Least(RemoteBufferAvailable(next, max),
          Least(own, Least(message_size, MaxFrame)))

\* The sequencer found the channel ready and not stalled; the first line of
\* vortex_sequencer_build_packet_to_send reads the limit.
ReadLimit ==
    /\ conn_ok /\ ~building /\ sent < Bytes /\ ~IsStalled
    /\ building' = TRUE
    /\ max_seq_no_accepted' = MaxSeqNoRemoteAccepted
    /\ UNCHANGED <<last_seq_no, remote_consumed_seq_no, remote_window, sent, acked,
                   receiverVars, data, seqs, conn_ok>>

\* The rest of the round, with the limit read before: SEQ frames may have been
\* applied in between.  A size that does not fit the message closes the
\* connection, otherwise last_seq_no advances (vortex_channel_update_status)
\* and the frame goes out.
SendFrame ==
    /\ conn_ok /\ building
    /\ building' = FALSE
    /\ \E message_size \in 1 .. Bytes - sent, own \in Windows :
         LET size == NextFrameSize(last_seq_no, message_size, max_seq_no_accepted, own)
         IN  IF size > message_size \/ size <= 0
             THEN /\ conn_ok' = FALSE
                  /\ UNCHANGED <<last_seq_no, sent, data>>
             ELSE /\ last_seq_no' = (last_seq_no + size) % SeqMod
                  /\ sent' = sent + size
                  /\ data' = Append(data, [seqno |-> last_seq_no, size |-> size, at |-> sent])
                  /\ UNCHANGED conn_ok
    /\ UNCHANGED <<remote_consumed_seq_no, remote_window, max_seq_no_accepted, acked,
                   receiverVars, seqs>>

\* The window_available of vortex_channel_update_remote_incoming_buffer.
WindowAvailable(ackno) ==
    AsInt(IF remote_consumed_seq_no <= ackno
          THEN remote_window - (ackno - remote_consumed_seq_no)
          ELSE remote_window - (SeqMod - remote_consumed_seq_no) - ackno)

\* The reader applies a SEQ frame, or closes the connection when it takes back
\* window or acknowledges what is out of the window.
RecvSeq ==
    /\ conn_ok /\ seqs # <<>>
    /\ LET s == Head(seqs)
           available == WindowAvailable(s.ackno)
       IN  IF available >= 0 /\ s.window > available
           THEN /\ remote_consumed_seq_no' = s.ackno
                /\ remote_window' = s.window
                /\ acked' = s.at
                /\ UNCHANGED conn_ok
           ELSE /\ conn_ok' = FALSE
                /\ UNCHANGED <<remote_consumed_seq_no, remote_window, acked>>
    /\ seqs' = Tail(seqs)
    /\ UNCHANGED <<last_seq_no, building, max_seq_no_accepted, sent, receiverVars, data>>

-----------------------------------------------------------------------------
(* Receiving side *)

\* vortex_channel_check_incoming_seqno
CheckIncomingSeqno(f) ==
    IF f.seqno >= consumed_seqno
    THEN (f.seqno - consumed_seqno + f.size) % SeqMod <= seq_no_window
    ELSE (SeqMod - consumed_seqno) + f.seqno + f.size <= seq_no_window

\* Mutant: the frame's own octets are forgotten after a wrap.
BytesAvailableBeforeFrame(f) ==
    AsInt(IF f.seqno < consumed_seqno
          THEN seq_no_window - (SeqMod - consumed_seqno) - f.seqno
          ELSE seq_no_window - (f.seqno - consumed_seqno) - f.size)

\* vortex_channel_incoming_bytes_available
IncomingBytesAvailable(f) ==
    AsInt(IF f.seqno < consumed_seqno
          THEN seq_no_window - (SeqMod - consumed_seqno) - f.seqno - f.size
          ELSE seq_no_window - (f.seqno - consumed_seqno) - f.size)

\* vortex_channel_get_max_seq_no_accepted
MaxSeqNoAccepted == (consumed_seqno + seq_no_window - 1) % SeqMod

\* The comparison that keeps a changed window inside what was already
\* advertised from being announced.
InsideAdvertised(consumedNow, window) ==
    (consumedNow + window - 1) % SeqMod < MaxSeqNoAccepted

\* The SEQ frame, and what it leaves behind.
Announce(f, window, used, consumedNow) ==
    /\ window_size' = desired_window_size
    /\ consumed_seqno' = consumedNow
    /\ seq_no_window' = used
    /\ consumed' = f.at + f.size
    /\ seqs' = Append(seqs, [ackno |-> consumedNow, window |-> window, at |-> f.at + f.size])

KeepBuffer == UNCHANGED <<window_size, consumed_seqno, seq_no_window, consumed, seqs>>

\* Mutant: a changed window is announced at once.
AnnounceChangeAtOnce(f) ==
    IF /\ window_size = desired_window_size
       /\ IncomingBytesAvailable(f) % SeqMod > seq_no_window \div 2
    THEN KeepBuffer
    ELSE Announce(f, desired_window_size, desired_window_size, (f.seqno + f.size) % SeqMod)

\* Mutant: the number acknowledged does not wrap.
AnnounceNoWrap(f) ==
    IF IncomingBytesAvailable(f) % SeqMod > seq_no_window \div 2
    THEN KeepBuffer
    ELSE Announce(f, desired_window_size, desired_window_size, f.seqno + f.size)

\* vortex_channel_update_incoming_buffer, and the SEQ frame the reader sends
\* when it returns true.  A wait for half of the window comes first: the C
\* comparison is unsigned.
UpdateIncomingBuffer(f) ==
    LET consumedNow == (f.seqno + f.size) % SeqMod
    IN  IF \/ IncomingBytesAvailable(f) % SeqMod > seq_no_window \div 2
           \/ /\ window_size # desired_window_size
              /\ InsideAdvertised(consumedNow, desired_window_size)
        THEN UNCHANGED <<window_size, consumed_seqno, seq_no_window, consumed, seqs>>
        ELSE /\ window_size' = desired_window_size
             /\ consumed_seqno' = consumedNow
             /\ seq_no_window' = desired_window_size
             /\ consumed' = f.at + f.size
             /\ seqs' = Append(seqs, [ackno |-> consumedNow, window |-> desired_window_size,
                                      at |-> f.at + f.size])

\* The reader takes a frame of the channel: the size check while the header is
\* read, the buffer update and its SEQ, then the sequence check and the status
\* update (vortex_channel_update_status_received).
RecvFrame ==
    /\ conn_ok /\ data # <<>>
    /\ data' = Tail(data)
    /\ LET f == Head(data)
       IN  IF CheckIncomingSeqno(f)
           THEN /\ UpdateIncomingBuffer(f)
                /\ IF f.seqno = last_seq_no_expected
                   THEN /\ last_seq_no_expected' = (last_seq_no_expected + f.size) % SeqMod
                        /\ received' = received + f.size
                        /\ UNCHANGED conn_ok
                   ELSE /\ conn_ok' = FALSE
                        /\ UNCHANGED <<last_seq_no_expected, received>>
           ELSE /\ conn_ok' = FALSE
                /\ UNCHANGED <<last_seq_no_expected, received, window_size,
                               consumed_seqno, seq_no_window, consumed, seqs>>
    /\ UNCHANGED <<senderVars, desired_window_size>>

\* vortex_channel_set_window_size, from any application thread
SetWindowSize ==
    /\ conn_ok /\ received <= ChangeUntil
    /\ desired_window_size' \in Windows
    /\ UNCHANGED <<senderVars, last_seq_no_expected, consumed_seqno, seq_no_window,
                   window_size, received, consumed, data, seqs, conn_ok>>

-----------------------------------------------------------------------------

Init ==
    /\ last_seq_no = 0 /\ remote_consumed_seq_no = 0 /\ remote_window = InitialWindow
    /\ building = FALSE /\ max_seq_no_accepted = 0
    /\ last_seq_no_expected = 0 /\ consumed_seqno = 0 /\ seq_no_window = InitialWindow
    /\ window_size = InitialWindow /\ desired_window_size = InitialWindow
    /\ data = <<>> /\ seqs = <<>> /\ conn_ok = TRUE
    /\ sent = 0 /\ received = 0 /\ acked = 0 /\ consumed = 0

\* Everything was delivered, or the connection was closed.
Stopped == (~conn_ok \/ received = Bytes) /\ UNCHANGED vars

Next == ReadLimit \/ SendFrame \/ RecvSeq \/ RecvFrame \/ SetWindowSize \/ Stopped

\* The sequencer and the two readers are threads that loop for ever; the
\* application owes no window change.
Fairness ==
    /\ WF_vars(ReadLimit) /\ WF_vars(SendFrame)
    /\ WF_vars(RecvSeq) /\ WF_vars(RecvFrame)

Spec == Init /\ [][Next]_vars /\ Fairness

-----------------------------------------------------------------------------
(* Properties *)

Frame == [seqno : 0 .. SeqMod - 1, size : Nat \ {0}, at : Nat]
SeqFrame == [ackno : 0 .. SeqMod - 1, window : Windows, at : Nat]

\* Every field stays in the range of its C type, every frame well formed.
TypeOK ==
    /\ last_seq_no \in 0 .. SeqMod - 1 /\ remote_consumed_seq_no \in 0 .. SeqMod - 1
    /\ remote_window \in Windows /\ building \in BOOLEAN
    /\ max_seq_no_accepted \in 0 .. SeqMod - 1
    /\ last_seq_no_expected \in 0 .. SeqMod - 1 /\ consumed_seqno \in 0 .. SeqMod - 1
    /\ seq_no_window \in Windows /\ window_size \in Windows
    /\ desired_window_size \in Windows
    /\ data \in Seq(Frame) /\ seqs \in Seq(SeqFrame) /\ conn_ok \in BOOLEAN
    /\ sent \in Nat /\ received \in Nat /\ acked \in Nat /\ consumed \in Nat

\* Window changes that do no harm: none, or changes by less than half of the
\* window while no limit in use is past the end of the sequence space.
SafeChanges ==
    \A v, w \in Windows : v # w => /\ w > v \div 2
                                  /\ ChangeUntil + v + w <= SeqMod

\* What the sender believes it may send never exceeds what the receiver will
\* accept, and the sender stays inside: credit in flight is only ever old
\* (vortex_channel_update_remote_incoming_buffer against
\* vortex_channel_update_incoming_buffer, across any wrap).
CreditNeverExceeded ==
    /\ sent <= acked + remote_window
    /\ acked + remote_window <= consumed + seq_no_window

\* Two Vortex peers never accuse each other: none of the four checks that shut
\* the connection down (frame size out of window, unexpected seqno, window
\* taken back, no room for the next frame) ever fires.
NoProtocolViolation == conn_ok

\* Every 32-bit field is its history modulo the sequence space, and so are the
\* numbers the frames on the wires carry.
FieldsFollow ==
    /\ last_seq_no = sent % SeqMod
    /\ remote_consumed_seq_no = acked % SeqMod
    /\ last_seq_no_expected = received % SeqMod
    /\ consumed_seqno = consumed % SeqMod
    /\ window_size = seq_no_window
    /\ \A i \in 1 .. Len(data) : data[i].seqno = data[i].at % SeqMod
    /\ \A i \in 1 .. Len(seqs) : seqs[i].ackno = seqs[i].at % SeqMod

\* The frames in flight carry the octets from received to sent, in order.
DataInOrder ==
    /\ data = <<>> => received = sent
    /\ data # <<>> => data[1].at = received
    /\ \A i \in 1 .. Len(data) :
         /\ received <= data[i].at
         /\ data[i].at + data[i].size <= sent
         /\ data[i].at + data[i].size = IF i = Len(data) THEN sent ELSE data[i + 1].at
    /\ \A i, j \in 1 .. Len(data) : i < j => data[i].at + data[i].size <= data[j].at

\* The SEQ frames in flight lead from what the sender knows to what the
\* receiver granted, each acknowledging and granting more than the last.
SeqsInOrder ==
    /\ seqs = <<>> => acked = consumed /\ remote_window = seq_no_window
    /\ seqs # <<>> => /\ seqs[Len(seqs)].at = consumed
                      /\ seqs[Len(seqs)].window = seq_no_window
    /\ \A i \in 1 .. Len(seqs) :
         /\ acked < seqs[i].at /\ seqs[i].at <= consumed
         /\ acked + remote_window < seqs[i].at + seqs[i].window
         /\ seqs[i].at + seqs[i].window <= consumed + seq_no_window
    /\ \A i, j \in 1 .. Len(seqs) : i < j =>
         /\ seqs[i].at < seqs[j].at
         /\ seqs[i].at + seqs[i].window < seqs[j].at + seqs[j].window

\* The limit a round works with is one the sender still has.
LimitRead ==
    building => \E n \in 1 .. MaxWindow :
                   /\ sent + n <= acked + remote_window /\ sent < Bytes
                   /\ max_seq_no_accepted = (sent + n - 1) % SeqMod

\* The inductive invariant: what holds between the two ends and the wires.
IInv ==
    /\ TypeOK /\ FieldsFollow /\ DataInOrder /\ SeqsInOrder /\ LimitRead
    /\ acked <= consumed /\ consumed <= received /\ received <= sent /\ sent <= Bytes
    /\ CreditNeverExceeded /\ NoProtocolViolation
    /\ received < consumed + seq_no_window
    /\ desired_window_size # window_size => consumed <= ChangeUntil

\* The limit the receiver enforces never goes back: octets it allowed stay
\* allowed (vortex_channel_update_incoming_buffer).
LimitNeverShrinks ==
    [][consumed' + seq_no_window' >= consumed + seq_no_window]_vars

\* The octet pipe with credit that all of the above implements.
Pipe == INSTANCE CreditPipe WITH granted <- consumed + seq_no_window
ImplementsPipe == Pipe!PipeSpec
=============================================================================
