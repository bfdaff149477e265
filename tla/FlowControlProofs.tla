-------------------------- MODULE FlowControlProofs --------------------------
(***************************************************************************)
(* Proofs about FlowControl for every modulus, window, frame size and      *)
(* amount of data.                                                         *)
(***************************************************************************)
EXTENDS FlowControl, TLAPS

-----------------------------------------------------------------------------
(* Counters that wrap modulo M (sequence numbers modulo MAX_SEQ_MOD), for    *)
(* every modulus.                                                            *)

\* Division with remainder.
LEMMA ModSplit ==
    ASSUME NEW M \in Nat, M > 0, NEW a \in Int
    PROVE  /\ a \div M \in Int
           /\ a % M \in 0 .. M - 1
           /\ a = M * (a \div M) + (a % M)
OBVIOUS

\* A remainder is determined by any quotient that fits.
LEMMA ModUnique ==
    ASSUME NEW M \in Nat, M > 0, NEW a \in Int, NEW q \in Int, NEW r \in 0 .. M - 1,
           a = M * q + r
    PROVE  a % M = r
OBVIOUS

\* What fits does not wrap.
LEMMA ModSmall ==
    ASSUME NEW M \in Nat, M > 0, NEW a \in 0 .. M - 1
    PROVE  a % M = a
OBVIOUS

\* Wrapping before an addition changes nothing: the way last_seq_no and its
\* relatives advance.
LEMMA ModAdd ==
    ASSUME NEW M \in Nat, M > 0, NEW a \in Int, NEW b \in Int
    PROVE  ((a % M) + b) % M = (a + b) % M
<1> DEFINE q == a \div M
           p == ((a % M) + b) \div M
           r == ((a % M) + b) % M
<1>1. q \in Int /\ a % M \in Int /\ a = M * q + (a % M)
  BY ModSplit
<1>2. (a % M) + b \in Int
  BY <1>1
<1>3. p \in Int /\ r \in 0 .. M - 1 /\ (a % M) + b = M * p + r
  BY <1>2, ModSplit
<1>4. a + b = M * q + (M * p + r)
  BY <1>1, <1>3
<1>5. M * q + (M * p + r) = M * (q + p) + r
  <2> HIDE DEF q, p, r
  <2> QED BY <1>1, <1>3
<1>6. q + p \in Int /\ a + b = M * (q + p) + r
  BY <1>1, <1>3, <1>4, <1>5
<1> HIDE DEF q, p, r
<1>7. (a + b) % M = r
  BY <1>3, <1>6, ModUnique
<1> QED BY <1>7 DEF r

\* The two branches the code computes a distance with, before and past the
\* wrap, both give the distance of the unwrapped counters.
LEMMA Distance ==
    ASSUME NEW M \in Nat, M > 0, NEW a \in Int, NEW b \in Int, a <= b, b < a + M
    PROVE  /\ (a % M) <= (b % M) => (b % M) - (a % M) = b - a
           /\ (b % M) < (a % M) => (M - (a % M)) + (b % M) = b - a
<1> DEFINE qa == a \div M
           qb == b \div M
           ra == a % M
           rb == b % M
           d  == qb - qa
<1>1. /\ qa \in Int /\ ra \in 0 .. M - 1 /\ a = M * qa + ra
      /\ qb \in Int /\ rb \in 0 .. M - 1 /\ b = M * qb + rb
  BY ModSplit
<1> HIDE DEF qa, qb, ra, rb
<1>2. d \in Int /\ b - a = M * d + (rb - ra)
  BY <1>1
<1> HIDE DEF d
<1>3. d = 0 \/ d = 1
  <2>1. CASE d <= -1
    <3>1. M * d <= -M
      BY <1>2, <2>1
    <3> QED BY <1>1, <1>2, <3>1
  <2>2. CASE d >= 2
    <3>1. M * d >= 2 * M
      BY <1>2, <2>2
    <3> QED BY <1>1, <1>2, <3>1
  <2> QED BY <1>2, <2>1, <2>2
<1>4. CASE d = 0
  BY <1>1, <1>2, <1>4 DEF ra, rb
<1>5. CASE d = 1
  BY <1>1, <1>2, <1>5 DEF ra, rb
<1> QED BY <1>3, <1>4, <1>5

\* The same, one branch at a time.
LEMMA DistanceAhead ==
    ASSUME NEW M \in Nat, M > 0, NEW a \in Int, NEW b \in Int, a <= b, b < a + M,
           (a % M) <= (b % M)
    PROVE  (b % M) - (a % M) = b - a
BY Distance

\* The same when the counter went past zero between the two.
LEMMA DistanceWrapped ==
    ASSUME NEW M \in Nat, M > 0, NEW a \in Int, NEW b \in Int, a <= b, b < a + M,
           (b % M) < (a % M)
    PROVE  (M - (a % M)) + (b % M) = b - a
BY Distance

\* Counters closer than the modulus are told apart by their wrapped values.
LEMMA ModInjective ==
    ASSUME NEW M \in Nat, M > 0, NEW a \in Int, NEW b \in Int,
           a <= b, b < a + M, a % M = b % M
    PROVE  a = b
BY Distance, ModSplit

-----------------------------------------------------------------------------
(* What the 32-bit computations of the code yield in octet counts. *)

\* The assumptions as the proofs use them.
LEMMA Sizes ==
    /\ SeqMod \in Nat /\ SeqMod > 0 /\ MaxWindow \in Nat /\ 2 * MaxWindow < SeqMod
    /\ Windows \subseteq 1 .. MaxWindow /\ InitialWindow \in Windows
    /\ Bytes \in Nat /\ ChangeUntil \in Nat
    /\ MaxFrame \in Nat /\ MaxFrame > 0
BY FlowAssumption DEF FlowAssumption

\* A result that fits in an int is stored unchanged.
LEMMA AsIntFits ==
    ASSUME NEW x \in Nat, 2 * x < SeqMod
    PROVE  AsInt(x) = x
<1>1. x % SeqMod = x
  BY Sizes, ModSmall
<1> QED BY <1>1, Sizes DEF AsInt

\* Sequence numbers advance modulo SeqMod.
LEMMA WrapAdd ==
    ASSUME NEW a \in Int, NEW b \in Int
    PROVE  ((a % SeqMod) + b) % SeqMod = (a + b) % SeqMod
<1>1. SeqMod \in Nat /\ SeqMod > 0
  BY Sizes
<1> QED BY <1>1, ModAdd, Zenon

\* A sum reduced is a sequence number.
LEMMA WrapRange ==
    ASSUME NEW a \in Int
    PROVE  a % SeqMod \in 0 .. SeqMod - 1
BY Sizes, ModSplit

\* The distance past the wrap.
LEMMA WrapDistance ==
    ASSUME NEW a \in Int, NEW b \in Int, a <= b, b < a + SeqMod,
           b % SeqMod < a % SeqMod
    PROVE  (SeqMod - (a % SeqMod)) + (b % SeqMod) = b - a
<1>1. SeqMod \in Nat /\ SeqMod > 0
  BY Sizes
<1> QED BY <1>1, DistanceWrapped, Zenon

\* The room left from a wrapped sequence number to a wrapped limit.
LEMMA RoomLeft ==
    ASSUME NEW a \in Nat, NEW n \in 1 .. MaxWindow
    PROVE  RemoteBufferAvailable(a % SeqMod, (a + n - 1) % SeqMod) = n
<1> DEFINE b == a + n - 1
<1>1. b \in Int /\ a <= b /\ b < a + SeqMod /\ b - a + 1 = n
  BY Sizes
<1> HIDE DEF b
<1>2. a % SeqMod \in 0 .. SeqMod - 1 /\ b % SeqMod \in 0 .. SeqMod - 1
  BY <1>1, Sizes, ModSplit
<1>3. AsInt(n) = n
  BY Sizes, AsIntFits
<1>4. CASE a % SeqMod <= b % SeqMod
  <2>1. (b % SeqMod) - (a % SeqMod) = b - a
    BY <1>1, <1>4, Sizes, DistanceAhead
  <2>2. (b % SeqMod) - (a % SeqMod) + 1 = n
    BY <1>1, <1>2, <2>1
  <2> QED BY <1>3, <1>4, <2>2 DEF RemoteBufferAvailable, b
<1>5. CASE b % SeqMod < a % SeqMod
  <2>1. (SeqMod - (a % SeqMod)) + (b % SeqMod) = b - a
    BY <1>1, <1>5, WrapDistance
  <2>2. (SeqMod - (a % SeqMod)) + (b % SeqMod) + 1 = n
    BY <1>1, <1>2, <2>1
  <2>3. ~(a % SeqMod <= b % SeqMod)
    BY <1>2, <1>5
  <2> QED BY <1>3, <2>2, <2>3 DEF RemoteBufferAvailable, b
<1> QED BY <1>2, <1>4, <1>5

\* vortex_channel_update_remote_incoming_buffer computes the room that is left
\* of the old window after the acknowledged octets.
LEMMA WindowLeft ==
    ASSUME acked \in Nat, remote_window \in 1 .. MaxWindow,
           remote_consumed_seq_no = acked % SeqMod,
           NEW at \in Nat, acked <= at, at <= acked + remote_window
    PROVE  WindowAvailable(at % SeqMod) = remote_window - (at - acked)
<1>1. at < acked + SeqMod
  BY Sizes
<1>2. acked % SeqMod \in 0 .. SeqMod - 1 /\ at % SeqMod \in 0 .. SeqMod - 1
  BY Sizes, ModSplit
<1> DEFINE left == remote_window - (at - acked)
<1>3. left \in Nat /\ 2 * left < SeqMod
  BY Sizes
<1>4. AsInt(left) = left
  BY <1>3, AsIntFits
<1>5. CASE acked % SeqMod <= at % SeqMod
  <2>1. (at % SeqMod) - (acked % SeqMod) = at - acked
    BY <1>1, <1>5, Sizes, DistanceAhead
  <2> QED BY <1>4, <1>5, <2>1 DEF WindowAvailable
<1>6. CASE at % SeqMod < acked % SeqMod
  <2>1. (SeqMod - (acked % SeqMod)) + (at % SeqMod) = at - acked
    BY <1>1, <1>6, WrapDistance
  <2>2. remote_window - (SeqMod - (acked % SeqMod)) - (at % SeqMod) = left
    BY <1>2, <2>1, Sizes
  <2>3. ~(acked % SeqMod <= at % SeqMod)
    BY <1>2, <1>6
  <2> QED BY <1>4, <2>2, <2>3 DEF WindowAvailable
<1> QED BY <1>2, <1>5, <1>6

\* A channel that is_stalled does not report as stalled has room.
LEMMA NotStalled ==
    ASSUME sent \in Nat, acked \in Nat, remote_window \in 1 .. MaxWindow,
           last_seq_no = sent % SeqMod, remote_consumed_seq_no = acked % SeqMod,
           sent <= acked + remote_window, ~IsStalled
    PROVE  sent < acked + remote_window
<1>1. ((acked % SeqMod) + remote_window) % SeqMod = (acked + remote_window) % SeqMod
  <2>1. acked \in Int /\ remote_window \in Int
    BY Sizes
  <2> QED BY <2>1, WrapAdd
<1>2. SUFFICES ASSUME sent = acked + remote_window PROVE FALSE
  BY Sizes
<1> QED BY <1>1, <1>2 DEF IsStalled

\* The limit the sequencer reads, as an octet count.
LEMMA LimitIs ==
    ASSUME acked \in Nat, remote_window \in 1 .. MaxWindow,
           remote_consumed_seq_no = acked % SeqMod
    PROVE  MaxSeqNoRemoteAccepted = (acked + remote_window - 1) % SeqMod
<1> DEFINE r == remote_window - 1
<1>1. ((acked % SeqMod) + r) % SeqMod = (acked + r) % SeqMod
  <2>1. r \in Int
    BY Sizes
  <2> HIDE DEF r
  <2> QED BY <2>1, WrapAdd
<1>2. acked % SeqMod \in 0 .. SeqMod - 1
  BY Sizes, ModSplit
<1> QED BY <1>1, <1>2, Sizes DEF MaxSeqNoRemoteAccepted

\* A frame inside the advertised window passes the check on its size.
LEMMA FrameAccepted ==
    ASSUME consumed \in Nat, seq_no_window \in 1 .. MaxWindow,
           consumed_seqno = consumed % SeqMod,
           NEW f, f.at \in Nat, f.size \in Nat, f.seqno = f.at % SeqMod,
           consumed <= f.at, f.at + f.size <= consumed + seq_no_window
    PROVE  CheckIncomingSeqno(f)
<1> DEFINE at == f.at
           size == f.size
<1>1. /\ at \in Nat /\ size \in Nat /\ consumed <= at
      /\ at - consumed + size \in 0 .. SeqMod - 1 /\ at - consumed + size <= seq_no_window
  BY Sizes
<1>2. at < consumed + SeqMod
  BY <1>1, Sizes
<1>3. f.seqno = at % SeqMod /\ f.size = size
  OBVIOUS
<1> HIDE DEF at, size
<1>4. consumed % SeqMod \in 0 .. SeqMod - 1 /\ at % SeqMod \in 0 .. SeqMod - 1
  BY <1>1, Sizes, ModSplit
<1>5. CASE consumed % SeqMod <= at % SeqMod
  <2>1. (at % SeqMod) - (consumed % SeqMod) = at - consumed
    BY <1>1, <1>2, <1>5, Sizes, DistanceAhead
  <2>2. (at - consumed + size) % SeqMod = at - consumed + size
    BY <1>1, Sizes, ModSmall
  <2>3. ((at % SeqMod) - (consumed % SeqMod) + size) % SeqMod <= seq_no_window
    BY <1>1, <2>1, <2>2
  <2> QED BY <1>3, <1>5, <2>3 DEF CheckIncomingSeqno
<1>6. CASE at % SeqMod < consumed % SeqMod
  <2>1. (SeqMod - (consumed % SeqMod)) + (at % SeqMod) = at - consumed
    BY <1>1, <1>2, <1>6, WrapDistance
  <2>2. ~(at % SeqMod >= consumed % SeqMod)
    BY <1>4, <1>6
  <2>3. (SeqMod - (consumed % SeqMod)) + (at % SeqMod) + size <= seq_no_window
    BY <1>1, <2>1
  <2> QED BY <1>3, <2>2, <2>3 DEF CheckIncomingSeqno
<1> QED BY <1>4, <1>5, <1>6

\* What is left of the advertised window after a frame inside it.
LEMMA BytesLeft ==
    ASSUME consumed \in Nat, seq_no_window \in 1 .. MaxWindow,
           consumed_seqno = consumed % SeqMod,
           NEW f, f.at \in Nat, f.size \in Nat, f.seqno = f.at % SeqMod,
           consumed <= f.at, f.at + f.size <= consumed + seq_no_window
    PROVE  IncomingBytesAvailable(f) = seq_no_window - (f.at - consumed) - f.size
<1> DEFINE at == f.at
           size == f.size
           left == seq_no_window - (at - consumed) - size
<1>1. /\ at \in Nat /\ size \in Nat /\ consumed <= at
      /\ at < consumed + SeqMod /\ left \in Nat /\ 2 * left < SeqMod
  BY Sizes
<1>2. AsInt(left) = left
  BY <1>1, AsIntFits
<1>3. f.seqno = at % SeqMod /\ f.size = size /\ f.at = at
  OBVIOUS
<1> HIDE DEF at, size
<1>4. consumed % SeqMod \in 0 .. SeqMod - 1 /\ at % SeqMod \in 0 .. SeqMod - 1
  BY <1>1, Sizes, ModSplit
<1>5. CASE consumed % SeqMod <= at % SeqMod
  <2>1. (at % SeqMod) - (consumed % SeqMod) = at - consumed
    BY <1>1, <1>5, Sizes, DistanceAhead
  <2>2. ~(at % SeqMod < consumed % SeqMod)
    BY <1>4, <1>5
  <2> QED BY <1>2, <1>3, <2>1, <2>2 DEF IncomingBytesAvailable
<1>6. CASE at % SeqMod < consumed % SeqMod
  <2>1. (SeqMod - (consumed % SeqMod)) + (at % SeqMod) = at - consumed
    BY <1>1, <1>6, WrapDistance
  <2>2. seq_no_window - (SeqMod - (consumed % SeqMod)) - (at % SeqMod) - size = left
    BY <1>1, <1>4, <2>1, Sizes
  <2> QED BY <1>2, <1>3, <1>6, <2>2 DEF IncomingBytesAvailable
<1> QED BY <1>4, <1>5, <1>6

\* Away from the end of the sequence space the comparison that guards a window
\* change compares octet counts.
LEMMA InsideIs ==
    ASSUME consumed \in Nat, seq_no_window \in 1 .. MaxWindow,
           consumed_seqno = consumed % SeqMod,
           NEW end \in Nat, NEW w \in 1 .. MaxWindow,
           end + w <= SeqMod, consumed + seq_no_window <= SeqMod
    PROVE  InsideAdvertised(end % SeqMod, w) <=> end + w < consumed + seq_no_window
<1>1. consumed % SeqMod = consumed /\ end % SeqMod = end
  BY Sizes, ModSmall
<1>2. /\ (consumed + seq_no_window - 1) % SeqMod = consumed + seq_no_window - 1
      /\ (end + w - 1) % SeqMod = end + w - 1
  BY Sizes, ModSmall
<1> QED BY <1>1, <1>2, Sizes DEF InsideAdvertised, MaxSeqNoAccepted

-----------------------------------------------------------------------------
(* The invariant is inductive: one lemma for each action. *)

\* The invariant holds when the channel is opened.
LEMMA InitIInv == Init => IInv
<1> SUFFICES ASSUME Init PROVE IInv
  OBVIOUS
<1>1. TypeOK
  <2>1. 0 \in 0 .. SeqMod - 1 /\ InitialWindow \in Windows
    BY Sizes
  <2>2. data \in Seq(Frame) /\ seqs \in Seq(SeqFrame)
    BY DEF Init
  <2> QED BY <2>1, <2>2 DEF Init, TypeOK
<1>2. FieldsFollow
  BY Sizes, ModSmall DEF Init, FieldsFollow
<1>3. DataInOrder /\ SeqsInOrder /\ LimitRead
  BY DEF Init, DataInOrder, SeqsInOrder, LimitRead
<1> QED BY <1>1, <1>2, <1>3, Sizes DEF Init, IInv, CreditNeverExceeded, NoProtocolViolation

\* The sequencer takes the limit of the window (vortex_channel_get_max_seq_no_remote_buffer).
LEMMA ReadLimitStep == IInv /\ ReadLimit => IInv'
<1> SUFFICES ASSUME IInv, ReadLimit PROVE IInv'
  OBVIOUS
<1> USE DEF IInv
<1>1. /\ sent \in Nat /\ acked \in Nat /\ remote_window \in 1 .. MaxWindow
      /\ last_seq_no = sent % SeqMod /\ remote_consumed_seq_no = acked % SeqMod
      /\ sent <= acked + remote_window /\ ~IsStalled /\ sent < Bytes
  BY Sizes DEF TypeOK, FieldsFollow, CreditNeverExceeded, ReadLimit
<1>2. sent < acked + remote_window
  BY <1>1, NotStalled
<1>3. max_seq_no_accepted' = (acked + remote_window - 1) % SeqMod
  BY <1>1, LimitIs DEF ReadLimit
<1> DEFINE n == acked + remote_window - sent
<1>4. n \in 1 .. MaxWindow
  BY <1>1, <1>2, Sizes DEF TypeOK, IInv
<1>5. sent + n - 1 = acked + remote_window - 1 /\ sent + n <= acked + remote_window
  BY <1>1
<1>6. LimitRead'
  BY <1>1, <1>3, <1>4, <1>5 DEF LimitRead, ReadLimit
<1>7. max_seq_no_accepted' \in 0 .. SeqMod - 1
  <2>1. acked + remote_window - 1 \in Int
    BY <1>1
  <2> QED BY <2>1, <1>3, Sizes, ModSplit
<1>8. TypeOK'
  BY <1>7 DEF TypeOK, ReadLimit, receiverVars
<1> QED BY <1>6, <1>8 DEF ReadLimit, receiverVars, FieldsFollow, DataInOrder, SeqsInOrder,
                          CreditNeverExceeded, NoProtocolViolation

\* A round with a limit that is still valid builds a frame of at least one
\* octet that fits in the message and in the limit.
LEMMA FrameFits ==
    ASSUME sent \in Nat, last_seq_no = sent % SeqMod,
           NEW n \in 1 .. MaxWindow, max_seq_no_accepted = (sent + n - 1) % SeqMod,
           NEW m \in Nat, m > 0, NEW own \in Windows
    PROVE  /\ NextFrameSize(last_seq_no, m, max_seq_no_accepted, own) \in 1 .. m
           /\ NextFrameSize(last_seq_no, m, max_seq_no_accepted, own) <= n
<1>1. RemoteBufferAvailable(last_seq_no, max_seq_no_accepted) = n
  BY RoomLeft
<1>2. own \in Nat /\ own > 0 /\ n \in Nat /\ n > 0 /\ MaxFrame \in Nat /\ MaxFrame > 0
  BY Sizes
<1> QED BY <1>1, <1>2 DEF NextFrameSize, Least

\* A round also sends at least one octet.
LEMMA SendFrameStep == IInv /\ SendFrame => IInv' /\ sent < sent'
<1> SUFFICES ASSUME IInv, SendFrame PROVE IInv' /\ sent < sent'
  OBVIOUS
<1> USE DEF IInv
<1>1. PICK m \in 1 .. Bytes - sent, own \in Windows :
        LET size == NextFrameSize(last_seq_no, m, max_seq_no_accepted, own)
        IN  IF size > m \/ size <= 0
            THEN /\ conn_ok' = FALSE
                 /\ UNCHANGED <<last_seq_no, sent, data>>
            ELSE /\ last_seq_no' = (last_seq_no + size) % SeqMod
                 /\ sent' = sent + size
                 /\ data' = Append(data, [seqno |-> last_seq_no, size |-> size, at |-> sent])
                 /\ UNCHANGED conn_ok
  BY DEF SendFrame
<1> DEFINE size == NextFrameSize(last_seq_no, m, max_seq_no_accepted, own)
           f == [seqno |-> last_seq_no, size |-> size, at |-> sent]
<1>2. PICK n \in 1 .. MaxWindow :
         /\ sent + n <= acked + remote_window /\ sent < Bytes
         /\ max_seq_no_accepted = (sent + n - 1) % SeqMod
  BY DEF LimitRead, SendFrame
<1>3. /\ sent \in Nat /\ acked \in Nat /\ received \in Nat /\ consumed \in Nat
      /\ remote_window \in Nat /\ seq_no_window \in Nat
      /\ last_seq_no = sent % SeqMod /\ m \in Nat /\ m > 0
      /\ sent + m <= Bytes
  <2>1. sent \in Nat /\ acked \in Nat /\ received \in Nat /\ consumed \in Nat
    BY DEF TypeOK
  <2>2. remote_window \in Nat /\ seq_no_window \in Nat
    BY Sizes DEF TypeOK
  <2>3. m \in Nat /\ m > 0 /\ sent + m <= Bytes
    BY <2>1, Sizes
  <2> QED BY <2>1, <2>2, <2>3 DEF FieldsFollow
<1>4. size \in 1 .. m /\ size <= n
  BY <1>2, <1>3, FrameFits
<1>5. /\ last_seq_no' = (last_seq_no + size) % SeqMod
      /\ sent' = sent + size /\ data' = Append(data, f) /\ conn_ok' = conn_ok
  <2>1. ~(size > m \/ size <= 0)
    BY <1>3, <1>4
  <2> QED BY <1>1, <2>1
<1> HIDE DEF size
<1>6. UNCHANGED <<remote_consumed_seq_no, remote_window, max_seq_no_accepted, acked,
                  receiverVars, seqs>> /\ building' = FALSE
  BY DEF SendFrame
<1>7. sent' <= acked + remote_window /\ sent' <= Bytes /\ sent' \in Nat /\ sent < sent'
  BY <1>2, <1>3, <1>4, <1>5, Sizes
<1>8. last_seq_no' = sent' % SeqMod
  <2>1. sent \in Int /\ size \in Int
    BY <1>3, <1>4
  <2>2. ((sent % SeqMod) + size) % SeqMod = (sent + size) % SeqMod
    BY <2>1, WrapAdd
  <2> QED BY <1>3, <1>5, <2>2
<1>9. last_seq_no' \in 0 .. SeqMod - 1
  <2>1. sent' \in Int
    BY <1>7
  <2> QED BY <2>1, <1>8, WrapRange
<1>10. f \in Frame
  BY <1>3, <1>4, Sizes DEF TypeOK, Frame
<1>11. TypeOK'
  <2>1. data' \in Seq(Frame)
    BY <1>5, <1>10 DEF TypeOK
  <2> QED BY <1>5, <1>6, <1>7, <1>9, <2>1 DEF TypeOK, receiverVars
<1>12. /\ data \in Seq(Frame) /\ Len(data) \in Nat /\ Len(data') = Len(data) + 1
       /\ \A i \in 1 .. Len(data) : data'[i] = data[i]
       /\ data'[Len(data')] = f
  BY <1>5, <1>10 DEF TypeOK
<1>13. f.seqno = sent % SeqMod /\ f.at = sent /\ f.at + f.size = sent'
  BY <1>3, <1>5
<1> HIDE DEF f
<1>14. FieldsFollow'
  <2>1. \A i \in 1 .. Len(data') : data'[i].seqno = data'[i].at % SeqMod
    BY <1>12, <1>13 DEF FieldsFollow
  <2> QED BY <1>6, <1>8, <2>1 DEF FieldsFollow, receiverVars
<1>15. DataInOrder'
  <2>1. data' # <<>> /\ received' = received
    BY <1>6, <1>12 DEF receiverVars
  <2>2. data'[1].at = received
    BY <1>12, <1>13 DEF DataInOrder
  <2>3. ASSUME NEW i \in 1 .. Len(data')
        PROVE  /\ received <= data'[i].at
               /\ data'[i].at + data'[i].size <= sent'
               /\ data'[i].at + data'[i].size = IF i = Len(data') THEN sent' ELSE data'[i + 1].at
    <3>1. CASE i = Len(data')
      BY <1>3, <1>7, <1>12, <1>13, <3>1
    <3>2. CASE i < Len(data')
      <4>1. i \in 1 .. Len(data) /\ data'[i] = data[i] /\ data[i] \in Frame
        BY <1>12, <3>2
      <4>2. /\ received <= data[i].at /\ data[i].at + data[i].size <= sent
            /\ data[i].at + data[i].size = IF i = Len(data) THEN sent ELSE data[i + 1].at
        BY <4>1 DEF DataInOrder
      <4>3. data[i].at + data[i].size \in Nat
        BY <4>1 DEF Frame
      <4>4. data'[i + 1].at = IF i = Len(data) THEN sent ELSE data[i + 1].at
        BY <1>12, <1>13, <3>2, <4>1
      <4> QED BY <1>3, <1>7, <3>2, <4>1, <4>2, <4>3, <4>4
    <3> QED BY <1>12, <3>1, <3>2
  <2>4. ASSUME NEW i \in 1 .. Len(data'), NEW j \in 1 .. Len(data'), i < j
        PROVE  data'[i].at + data'[i].size <= data'[j].at
    <3>1. i \in 1 .. Len(data) /\ data'[i] = data[i]
      BY <1>12, <2>4
    <3>2. CASE j = Len(data')
      BY <1>12, <1>13, <3>1, <3>2 DEF DataInOrder
    <3>3. CASE j \in 1 .. Len(data)
      <4>1. data'[j] = data[j]
        BY <1>12, <3>3
      <4> QED BY <2>4, <3>1, <3>3, <4>1 DEF DataInOrder
    <3> QED BY <1>12, <3>2, <3>3
  <2> QED BY <2>1, <2>2, <2>3, <2>4 DEF DataInOrder
<1>16. SeqsInOrder' /\ LimitRead'
  BY <1>6 DEF SeqsInOrder, LimitRead, receiverVars
<1>17. CreditNeverExceeded' /\ NoProtocolViolation'
  BY <1>5, <1>6, <1>7 DEF CreditNeverExceeded, NoProtocolViolation, receiverVars
<1> QED BY <1>3, <1>6, <1>7, <1>11, <1>14, <1>15, <1>16, <1>17 DEF receiverVars

\* A SEQ frame reaches the sender (vortex_channel_update_remote_incoming_buffer).
LEMMA RecvSeqStep == IInv /\ RecvSeq => IInv'
<1> SUFFICES ASSUME IInv, RecvSeq PROVE IInv'
  OBVIOUS
<1> USE DEF IInv
<1> DEFINE s == Head(seqs)
           k == Len(seqs)
<1>1. /\ seqs \in Seq(SeqFrame) /\ seqs # <<>> /\ k \in Nat /\ k > 0
      /\ s = seqs[1] /\ s \in SeqFrame /\ s.at \in Nat /\ s.window \in Windows
  <2>1. seqs \in Seq(SeqFrame) /\ seqs # <<>>
    BY DEF TypeOK, RecvSeq
  <2>2. k \in Nat /\ k > 0 /\ s = seqs[1] /\ seqs[1] \in SeqFrame
    BY <2>1
  <2> QED BY <2>1, <2>2 DEF SeqFrame
<1>2. /\ sent \in Nat /\ acked \in Nat /\ received \in Nat /\ consumed \in Nat
      /\ remote_window \in 1 .. MaxWindow /\ seq_no_window \in Nat
  BY Sizes DEF TypeOK
<1>3. /\ acked < s.at /\ s.at <= consumed /\ s.ackno = s.at % SeqMod
      /\ acked + remote_window < s.at + s.window
      /\ s.at + s.window <= consumed + seq_no_window
      /\ remote_consumed_seq_no = acked % SeqMod
  BY <1>1 DEF SeqsInOrder, FieldsFollow
<1>4. s.at <= acked + remote_window /\ sent <= acked + remote_window
  BY <1>1, <1>2, <1>3 DEF CreditNeverExceeded
<1>5. WindowAvailable(s.ackno) = remote_window - (s.at - acked)
  <2> DEFINE at == s.at
  <2>1. at \in Nat /\ acked <= at /\ at <= acked + remote_window
    BY <1>1, <1>2, <1>3, <1>4
  <2> HIDE DEF at
  <2>2. WindowAvailable(at % SeqMod) = remote_window - (at - acked)
    BY <1>2, <1>3, <2>1, WindowLeft
  <2> QED BY <1>3, <2>2 DEF at
<1>6. s.window \in Nat
  <2>1. s.window \in 1 .. MaxWindow
    <3> HIDE DEF s
    <3>1. s.window \in Windows
      BY <1>1
    <3> QED BY <3>1, Sizes
  <2> QED BY <2>1
<1>7. WindowAvailable(s.ackno) >= 0 /\ s.window > WindowAvailable(s.ackno)
  BY <1>1, <1>2, <1>3, <1>4, <1>5, <1>6
<1>8. /\ remote_consumed_seq_no' = s.ackno /\ remote_window' = s.window /\ acked' = s.at
      /\ conn_ok' = conn_ok /\ seqs' = Tail(seqs)
      /\ UNCHANGED <<last_seq_no, building, max_seq_no_accepted, sent, receiverVars, data>>
  BY <1>7 DEF RecvSeq
<1>9. /\ seqs' \in Seq(SeqFrame) /\ Len(seqs') = k - 1
      /\ \A i \in 1 .. Len(seqs') : i + 1 \in 1 .. k /\ seqs'[i] = seqs[i + 1]
  BY <1>1, <1>8
<1> HIDE DEF s
<1>10. TypeOK'
  BY <1>1, <1>8, <1>9, Sizes DEF TypeOK, receiverVars, SeqFrame
<1>11. FieldsFollow'
  <2>1. \A i \in 1 .. Len(seqs') : seqs'[i].ackno = seqs'[i].at % SeqMod
    BY <1>9 DEF FieldsFollow
  <2> QED BY <1>3, <1>8, <2>1 DEF FieldsFollow, receiverVars
<1>12. DataInOrder'
  BY <1>8 DEF DataInOrder, receiverVars
<1>13. SeqsInOrder'
  <2>1. CASE k = 1
    <3>1. seqs' = <<>> /\ Len(seqs') = 0
      BY <1>1, <1>8, <1>9, <2>1
    <3>2. s.at = consumed /\ s.window = seq_no_window
      BY <1>1, <2>1 DEF SeqsInOrder
    <3> QED BY <1>8, <3>1, <3>2 DEF SeqsInOrder, receiverVars
  <2>2. CASE k > 1
    <3>1. /\ seqs' # <<>> /\ Len(seqs') \in 1 .. k
          /\ seqs'[Len(seqs')] = seqs[k]
      BY <1>1, <1>9, <2>2
    <3>2. seqs'[Len(seqs')].at = consumed /\ seqs'[Len(seqs')].window = seq_no_window
      BY <1>1, <3>1 DEF SeqsInOrder
    <3>3. ASSUME NEW i \in 1 .. Len(seqs')
          PROVE  /\ s.at < seqs'[i].at /\ seqs'[i].at <= consumed
                 /\ s.at + s.window < seqs'[i].at + seqs'[i].window
                 /\ seqs'[i].at + seqs'[i].window <= consumed + seq_no_window
      <4>1. i + 1 \in 1 .. k /\ seqs'[i] = seqs[i + 1] /\ 1 \in 1 .. k /\ 1 < i + 1
        BY <1>1, <1>9
      <4> QED BY <1>1, <4>1 DEF SeqsInOrder
    <3>4. ASSUME NEW i \in 1 .. Len(seqs'), NEW j \in 1 .. Len(seqs'), i < j
          PROVE  /\ seqs'[i].at < seqs'[j].at
                 /\ seqs'[i].at + seqs'[i].window < seqs'[j].at + seqs'[j].window
      <4>1. /\ i + 1 \in 1 .. k /\ seqs'[i] = seqs[i + 1]
            /\ j + 1 \in 1 .. k /\ seqs'[j] = seqs[j + 1] /\ i + 1 < j + 1
        BY <1>9, <3>4
      <4> QED BY <4>1 DEF SeqsInOrder
    <3> QED BY <1>8, <3>1, <3>2, <3>3, <3>4 DEF SeqsInOrder, receiverVars
  <2>3. k \in Nat /\ k > 0
    BY <1>1
  <2>4. k = 1 \/ k > 1
    <3> HIDE DEF k
    <3> QED BY <2>3
  <2> QED BY <2>1, <2>2, <2>4
<1>14. LimitRead'
  <2>1. SUFFICES ASSUME building PROVE LimitRead'
    BY <1>8 DEF LimitRead
  <2>2. PICK n \in 1 .. MaxWindow :
           /\ sent + n <= acked + remote_window /\ sent < Bytes
           /\ max_seq_no_accepted = (sent + n - 1) % SeqMod
    BY <2>1 DEF LimitRead
  <2>3. sent + n <= s.at + s.window
    BY <1>1, <1>2, <1>3, <1>6, <2>2, Sizes
  <2> QED BY <1>8, <2>2, <2>3 DEF LimitRead
<1>15. CreditNeverExceeded'
  BY <1>1, <1>2, <1>3, <1>4, <1>6, <1>8 DEF CreditNeverExceeded, receiverVars
<1> QED BY <1>3, <1>8, <1>10, <1>11, <1>12, <1>13, <1>14, <1>15
        DEF receiverVars, NoProtocolViolation

\* The application changes the window (vortex_channel_set_window_size).
LEMMA SetWindowSizeStep == IInv /\ SetWindowSize => IInv'
<1> SUFFICES ASSUME IInv, SetWindowSize PROVE IInv'
  OBVIOUS
<1> USE DEF IInv, SetWindowSize, senderVars
<1>1. consumed \in Nat /\ received \in Nat
  BY DEF TypeOK
<1>2. consumed <= ChangeUntil
  BY <1>1, Sizes
<1>3. TypeOK'
  BY DEF TypeOK
<1>4. FieldsFollow' /\ DataInOrder' /\ SeqsInOrder' /\ LimitRead'
  BY DEF FieldsFollow, DataInOrder, SeqsInOrder, LimitRead
<1> QED BY <1>2, <1>3, <1>4 DEF CreditNeverExceeded, NoProtocolViolation

\* What the receiver does with the oldest frame in flight: it is inside the
\* window and the one expected, so nothing is shut down, and either no SEQ is
\* due and some credit is left, or a SEQ grants more than before.
LEMMA FrameTaken ==
    ASSUME SafeChanges, IInv, RecvFrame
    PROVE  LET f == Head(data)
               end == received + f.size
           IN  /\ f \in Frame /\ f.at = received /\ end <= sent /\ received < end
               /\ data' = Tail(data) /\ conn_ok' = conn_ok /\ received' = end
               /\ last_seq_no_expected' = end % SeqMod
               /\ UNCHANGED <<senderVars, desired_window_size>>
               /\ \/ /\ UNCHANGED <<window_size, consumed_seqno, seq_no_window, consumed, seqs>>
                     /\ end < consumed + seq_no_window
                  \/ /\ window_size' = desired_window_size
                     /\ seq_no_window' = desired_window_size
                     /\ consumed' = end /\ consumed_seqno' = end % SeqMod
                     /\ seqs' = Append(seqs, [ackno |-> end % SeqMod,
                                              window |-> desired_window_size, at |-> end])
                     /\ consumed + seq_no_window < end + desired_window_size
<1> USE DEF IInv
<1> DEFINE f == Head(data)
           size == f.size
           end == received + size
           left == consumed + seq_no_window - end
<1>1. data # <<>> /\ data \in Seq(Frame)
  BY DEF TypeOK, RecvFrame
<1>2. f = data[1] /\ f \in Frame /\ 1 \in 1 .. Len(data)
  BY <1>1
<1>3. f.at \in Nat /\ size \in Nat /\ size > 0
  BY <1>2 DEF Frame
<1>4. f.at = received /\ f.at + size <= sent /\ f.seqno = f.at % SeqMod
  BY <1>1, <1>2 DEF DataInOrder, FieldsFollow
<1>5. /\ sent \in Nat /\ acked \in Nat /\ received \in Nat /\ consumed \in Nat
  BY DEF TypeOK
<1>6. /\ remote_window \in 1 .. MaxWindow /\ seq_no_window \in 1 .. MaxWindow
      /\ seq_no_window \in Windows /\ desired_window_size \in Windows
      /\ desired_window_size \in 1 .. MaxWindow
  <2>1. /\ remote_window \in Windows /\ seq_no_window \in Windows
        /\ desired_window_size \in Windows
    BY DEF TypeOK
  <2> QED BY <2>1, Sizes
<1>7. /\ consumed_seqno = consumed % SeqMod /\ window_size = seq_no_window
      /\ last_seq_no_expected = received % SeqMod
  BY DEF FieldsFollow
<1>8. /\ consumed <= received /\ sent <= acked + remote_window
      /\ acked + remote_window <= consumed + seq_no_window
  BY DEF CreditNeverExceeded
<1>9. consumed <= f.at /\ f.at + size <= consumed + seq_no_window
  BY <1>3, <1>4, <1>5, <1>6, <1>8, Sizes
<1>10. CheckIncomingSeqno(f)
  BY <1>3, <1>4, <1>5, <1>6, <1>7, <1>9, FrameAccepted
<1>11. IncomingBytesAvailable(f) = seq_no_window - (f.at - consumed) - f.size
  BY <1>3, <1>4, <1>5, <1>6, <1>7, <1>9, BytesLeft
<1>12. f.seqno = last_seq_no_expected /\ f.at + f.size = end
  BY <1>4, <1>7
<1>13. (last_seq_no_expected + f.size) % SeqMod = end % SeqMod
  <2>1. received \in Int /\ size \in Int
    BY <1>3, <1>5
  <2>2. ((received % SeqMod) + size) % SeqMod = (received + size) % SeqMod
    BY <2>1, WrapAdd
  <2> QED BY <1>7, <2>2
<1>14. (f.seqno + f.size) % SeqMod = end % SeqMod
  BY <1>12, <1>13
<1>15. /\ data' = Tail(data) /\ conn_ok' = conn_ok /\ received' = end
       /\ last_seq_no_expected' = end % SeqMod
       /\ UNCHANGED <<senderVars, desired_window_size>>
       /\ UpdateIncomingBuffer(f)
  BY <1>10, <1>12, <1>13 DEF RecvFrame
<1>16. /\ end \in Nat /\ left \in Nat /\ 2 * left < SeqMod /\ received < end /\ end <= sent
       /\ end <= consumed + seq_no_window
  BY <1>3, <1>4, <1>5, <1>6, <1>9, Sizes
<1>17. IncomingBytesAvailable(f) % SeqMod = left
  <2>1. IncomingBytesAvailable(f) = left
    BY <1>3, <1>4, <1>5, <1>6, <1>11, Sizes
  <2>2. left \in 0 .. SeqMod - 1
    BY <1>16, Sizes
  <2> QED BY <2>1, <2>2, Sizes, ModSmall
<1> HIDE DEF f, size
<1>18. window_size # desired_window_size =>
         /\ desired_window_size > seq_no_window \div 2
         /\ InsideAdvertised(end % SeqMod, desired_window_size)
               <=> end + desired_window_size < consumed + seq_no_window
  <2> SUFFICES ASSUME window_size # desired_window_size
               PROVE  /\ desired_window_size > seq_no_window \div 2
                      /\ InsideAdvertised(end % SeqMod, desired_window_size)
                            <=> end + desired_window_size < consumed + seq_no_window
    OBVIOUS
  <2>1. /\ desired_window_size > seq_no_window \div 2
        /\ ChangeUntil + seq_no_window + desired_window_size <= SeqMod
    BY <1>6, <1>7 DEF SafeChanges
  <2>2. consumed <= ChangeUntil
    OBVIOUS
  <2> HIDE DEF end
  <2>3. end + desired_window_size <= SeqMod /\ consumed + seq_no_window <= SeqMod
    BY <1>5, <1>6, <1>16, <2>1, <2>2, Sizes
  <2>4. InsideAdvertised(end % SeqMod, desired_window_size)
          <=> end + desired_window_size < consumed + seq_no_window
    BY <1>5, <1>6, <1>7, <1>16, <2>3, InsideIs
  <2> QED BY <2>1, <2>4
<1>19. CASE \/ IncomingBytesAvailable(f) % SeqMod > seq_no_window \div 2
            \/ /\ window_size # desired_window_size
               /\ InsideAdvertised(end % SeqMod, desired_window_size)
  <2>1. UNCHANGED <<window_size, consumed_seqno, seq_no_window, consumed, seqs>>
    BY <1>14, <1>15, <1>19 DEF UpdateIncomingBuffer
  <2>2. end < consumed + seq_no_window
    <3>1. CASE IncomingBytesAvailable(f) % SeqMod > seq_no_window \div 2
      <4>1. left > seq_no_window \div 2 /\ seq_no_window \div 2 >= 0
        BY <1>6, <1>17, <3>1, Sizes
      <4> HIDE DEF end
      <4> QED BY <1>5, <1>6, <1>16, <4>1
    <3>2. CASE /\ window_size # desired_window_size
               /\ InsideAdvertised(end % SeqMod, desired_window_size)
      <4>1. end + desired_window_size < consumed + seq_no_window
        BY <1>18, <3>2
      <4> HIDE DEF end
      <4> QED BY <1>5, <1>6, <1>16, <4>1
    <3> QED BY <1>19, <3>1, <3>2
  <2> QED BY <1>2, <1>4, <1>15, <1>16, <2>1, <2>2 DEF f, size
<1>20. CASE ~(\/ IncomingBytesAvailable(f) % SeqMod > seq_no_window \div 2
              \/ /\ window_size # desired_window_size
                 /\ InsideAdvertised(end % SeqMod, desired_window_size))
  <2>1. /\ window_size' = desired_window_size /\ seq_no_window' = desired_window_size
        /\ consumed' = end /\ consumed_seqno' = end % SeqMod
        /\ seqs' = Append(seqs, [ackno |-> end % SeqMod,
                                 window |-> desired_window_size, at |-> end])
    BY <1>12, <1>14, <1>15, <1>20 DEF UpdateIncomingBuffer
  <2>2. left <= seq_no_window \div 2
    BY <1>6, <1>16, <1>17, <1>20
  <2>3. consumed + seq_no_window < end + desired_window_size
    <3>1. CASE window_size = desired_window_size
      <4> HIDE DEF end
      <4> QED BY <1>5, <1>6, <1>7, <1>8, <1>16, <3>1
    <3>2. CASE window_size # desired_window_size
      <4>1. desired_window_size > seq_no_window \div 2
        BY <1>18, <3>2
      <4>2. left < desired_window_size
        BY <1>6, <1>16, <2>2, <4>1
      <4> HIDE DEF end
      <4> QED BY <1>5, <1>6, <1>16, <4>2
    <3> QED BY <3>1, <3>2
  <2> QED BY <1>2, <1>4, <1>15, <1>16, <2>1, <2>3 DEF f, size
<1> QED BY <1>19, <1>20

\* A frame reaches the reader, which may answer with a SEQ frame.
LEMMA RecvFrameStep == SafeChanges /\ IInv /\ RecvFrame => IInv'
<1> SUFFICES ASSUME SafeChanges, IInv, RecvFrame PROVE IInv'
  OBVIOUS
<1> USE DEF IInv
<1> DEFINE f == Head(data)
           end == received + f.size
           k == Len(data)
           s == [ackno |-> end % SeqMod, window |-> desired_window_size, at |-> end]
           Keep == /\ UNCHANGED <<window_size, consumed_seqno, seq_no_window, consumed, seqs>>
                   /\ end < consumed + seq_no_window
           Grant == /\ window_size' = desired_window_size
                    /\ seq_no_window' = desired_window_size
                    /\ consumed' = end /\ consumed_seqno' = end % SeqMod
                    /\ seqs' = Append(seqs, s)
                    /\ consumed + seq_no_window < end + desired_window_size
<1>1. /\ f \in Frame /\ f.at = received /\ end <= sent /\ received < end
      /\ data' = Tail(data) /\ conn_ok' = conn_ok /\ received' = end
      /\ last_seq_no_expected' = end % SeqMod
      /\ UNCHANGED <<senderVars, desired_window_size>>
      /\ Keep \/ Grant
  BY FrameTaken
<1>2. /\ sent \in Nat /\ acked \in Nat /\ received \in Nat /\ consumed \in Nat
      /\ end \in Nat
  BY <1>1 DEF TypeOK, Frame
<1>3. /\ remote_window \in Nat /\ seq_no_window \in Nat /\ desired_window_size \in Nat
      /\ desired_window_size > 0 /\ desired_window_size \in Windows
  <2>1. /\ remote_window \in Windows /\ seq_no_window \in Windows
        /\ desired_window_size \in Windows
    BY DEF TypeOK
  <2> QED BY <2>1, Sizes
<1>4. data \in Seq(Frame) /\ data # <<>>
  BY DEF TypeOK, RecvFrame
<1>5. k \in Nat /\ k > 0
  BY <1>4
<1>6. /\ data' \in Seq(Frame) /\ Len(data') = k - 1
      /\ \A i \in 1 .. Len(data') : i + 1 \in 1 .. k /\ data'[i] = data[i + 1]
  BY <1>1, <1>4
<1>7. f = data[1] /\ 1 \in 1 .. k
  BY <1>4
<1> HIDE DEF f, k
<1>8. end % SeqMod \in 0 .. SeqMod - 1
  <2>1. end \in Int
    BY <1>2
  <2> HIDE DEF end
  <2> QED BY <2>1, WrapRange
<1> HIDE DEF end
<1>9. s \in SeqFrame /\ s.at = end /\ s.window = desired_window_size /\ s.ackno = end % SeqMod
  BY <1>2, <1>3, <1>8 DEF SeqFrame
<1> HIDE DEF s
<1>10. Grant => /\ Len(seqs) \in Nat /\ Len(seqs') = Len(seqs) + 1
                /\ \A i \in 1 .. Len(seqs) : seqs'[i] = seqs[i]
                /\ seqs'[Len(seqs')] = s /\ seqs' \in Seq(SeqFrame)
  BY <1>9 DEF TypeOK
<1>11. TypeOK'
  <2>1. /\ received' \in Nat /\ consumed' \in Nat /\ last_seq_no_expected' \in 0 .. SeqMod - 1
        /\ data' \in Seq(Frame) /\ conn_ok' \in BOOLEAN
    BY <1>1, <1>2, <1>6, <1>8 DEF TypeOK
  <2>2. CASE Keep
    BY <1>1, <2>1, <2>2 DEF TypeOK, senderVars
  <2>3. CASE Grant
    BY <1>1, <1>3, <1>8, <1>10, <2>1, <2>3 DEF TypeOK, senderVars
  <2> QED BY <1>1, <2>2, <2>3
<1>12. FieldsFollow'
  <2>1. \A i \in 1 .. Len(data') : data'[i].seqno = data'[i].at % SeqMod
    BY <1>6 DEF FieldsFollow, k
  <2>2. CASE Keep
    BY <1>1, <2>1, <2>2 DEF FieldsFollow, senderVars
  <2>3. CASE Grant
    <3>1. \A i \in 1 .. Len(seqs') : seqs'[i].ackno = seqs'[i].at % SeqMod
      BY <1>9, <1>10, <2>3 DEF FieldsFollow
    <3> QED BY <1>1, <2>1, <2>3, <3>1 DEF FieldsFollow, senderVars
  <2> QED BY <1>1, <2>2, <2>3
<1>13. DataInOrder'
  <2>1. CASE k = 1
    <3>1. data' = <<>> /\ Len(data') = 0
      BY <1>1, <1>4, <1>6, <2>1 DEF k
    <3>2. end = sent
      BY <1>1, <1>7, <2>1 DEF DataInOrder, end, k
    <3> QED BY <1>1, <3>1, <3>2 DEF DataInOrder, senderVars
  <2>2. CASE k > 1
    <3>1. data' # <<>> /\ Len(data') \in 1 .. k /\ 1 \in 1 .. Len(data')
      BY <1>5, <1>6, <2>2
    <3>2. data'[1].at = end
      <4>1. f.at + f.size = data[2].at /\ data'[1] = data[2]
        BY <1>5, <1>6, <1>7, <2>2, <3>1 DEF DataInOrder, k
      <4> QED BY <1>1, <4>1 DEF end
    <3>3. ASSUME NEW i \in 1 .. Len(data')
          PROVE  /\ data'[i].at + data'[i].size <= sent
                 /\ data'[i].at + data'[i].size =
                      IF i = Len(data') THEN sent ELSE data'[i + 1].at
      <4>1. i + 1 \in 1 .. k /\ data'[i] = data[i + 1]
        BY <1>6
      <4>2. i # Len(data') => i + 1 \in 1 .. Len(data')
        BY <1>5, <1>6
      <4>3. i # Len(data') => data'[i + 1] = data[(i + 1) + 1]
        BY <1>6, <4>2
      <4>4. i = Len(data') <=> i + 1 = k
        BY <1>5, <1>6
      <4> QED BY <4>1, <4>3, <4>4 DEF DataInOrder, k
    <3>4. ASSUME NEW i \in 1 .. Len(data')
          PROVE  end <= data'[i].at
      <4>1. i + 1 \in 1 .. k /\ data'[i] = data[i + 1]
        BY <1>6
      <4>2. 1 \in 1 .. k /\ 1 < i + 1
        BY <1>5, <1>6
      <4>3. f.at + f.size <= data[i + 1].at
        BY <1>7, <4>1, <4>2 DEF DataInOrder, k
      <4> QED BY <1>1, <4>1, <4>3 DEF end
    <3>5. ASSUME NEW i \in 1 .. Len(data'), NEW j \in 1 .. Len(data'), i < j
          PROVE  data'[i].at + data'[i].size <= data'[j].at
      <4>1. /\ i + 1 \in 1 .. k /\ data'[i] = data[i + 1]
            /\ j + 1 \in 1 .. k /\ data'[j] = data[j + 1] /\ i + 1 < j + 1
        BY <1>6, <3>5
      <4> QED BY <4>1 DEF DataInOrder, k
    <3> QED BY <1>1, <3>1, <3>2, <3>3, <3>4, <3>5 DEF DataInOrder, senderVars
  <2>3. k = 1 \/ k > 1
    BY <1>5
  <2> QED BY <2>1, <2>2, <2>3
<1>14. SeqsInOrder'
  <2>1. CASE Keep
    BY <1>1, <2>1 DEF SeqsInOrder, senderVars
  <2>2. CASE Grant
    <3>1. seqs' # <<>>
      BY <1>10, <2>2
    <3>2. acked' = acked /\ remote_window' = remote_window
      BY <1>1 DEF senderVars
    <3>3. acked < end /\ acked + remote_window < end + desired_window_size /\ consumed < end
      BY <1>1, <1>2, <1>3, <2>2 DEF CreditNeverExceeded
    <3>4. ASSUME NEW i \in 1 .. Len(seqs)
          PROVE  /\ seqs[i].at \in Nat /\ seqs[i].window \in Nat
                 /\ acked < seqs[i].at /\ seqs[i].at < end
                 /\ acked + remote_window < seqs[i].at + seqs[i].window
                 /\ seqs[i].at + seqs[i].window < end + desired_window_size
      <4>1. seqs[i] \in SeqFrame
        BY DEF TypeOK
      <4>2. seqs[i].at \in Nat /\ seqs[i].window \in Windows
        BY <4>1 DEF SeqFrame
      <4>3. seqs[i].window \in Nat
        <5>1. seqs[i].window \in 1 .. MaxWindow
          BY <4>2, Sizes
        <5> QED BY <5>1
      <4>4. /\ acked < seqs[i].at /\ seqs[i].at <= consumed
            /\ acked + remote_window < seqs[i].at + seqs[i].window
            /\ seqs[i].at + seqs[i].window <= consumed + seq_no_window
        BY DEF SeqsInOrder
      <4> QED BY <1>2, <1>3, <2>2, <3>3, <4>2, <4>3, <4>4
    <3>5. ASSUME NEW i \in 1 .. Len(seqs')
          PROVE  /\ acked < seqs'[i].at /\ seqs'[i].at <= end
                 /\ acked + remote_window < seqs'[i].at + seqs'[i].window
                 /\ seqs'[i].at + seqs'[i].window <= end + desired_window_size
      <4>1. CASE i = Len(seqs')
        BY <1>2, <1>3, <1>9, <1>10, <2>2, <3>3, <4>1
      <4>2. CASE i \in 1 .. Len(seqs)
        BY <1>2, <1>3, <1>10, <2>2, <3>4, <4>2
      <4> QED BY <1>10, <2>2, <4>1, <4>2
    <3>6. ASSUME NEW i \in 1 .. Len(seqs'), NEW j \in 1 .. Len(seqs'), i < j
          PROVE  /\ seqs'[i].at < seqs'[j].at
                 /\ seqs'[i].at + seqs'[i].window < seqs'[j].at + seqs'[j].window
      <4>1. i \in 1 .. Len(seqs) /\ seqs'[i] = seqs[i]
        BY <1>10, <2>2, <3>6
      <4>2. CASE j = Len(seqs')
        BY <1>9, <1>10, <2>2, <3>4, <4>1, <4>2
      <4>3. CASE j \in 1 .. Len(seqs)
        <5>1. seqs'[j] = seqs[j]
          BY <1>10, <2>2, <4>3
        <5> QED BY <3>6, <4>1, <4>3, <5>1 DEF SeqsInOrder
      <4> QED BY <1>10, <2>2, <4>2, <4>3
    <3> QED BY <1>9, <1>10, <2>2, <3>1, <3>2, <3>5, <3>6 DEF SeqsInOrder
  <2> QED BY <1>1, <2>1, <2>2
<1>15. LimitRead'
  BY <1>1 DEF LimitRead, senderVars
<1>16. CreditNeverExceeded' /\ NoProtocolViolation'
  BY <1>1, <1>2, <1>3 DEF CreditNeverExceeded, NoProtocolViolation, senderVars
<1>17. /\ acked' <= consumed' /\ consumed' <= received' /\ received' <= sent'
       /\ sent' <= Bytes /\ received' < consumed' + seq_no_window'
  BY <1>1, <1>2, <1>3 DEF senderVars
<1>18. desired_window_size' # window_size' => consumed' <= ChangeUntil
  BY <1>1
<1> QED BY <1>11, <1>12, <1>13, <1>14, <1>15, <1>16, <1>17, <1>18

-----------------------------------------------------------------------------
(* The theorems. *)

\* Window changes kept small, the two ends and the wires always agree as IInv
\* says: the fields follow the octet counts through every wrap, frames and SEQ
\* frames in flight are in order, credit only grows.
THEOREM Invariant == SafeChanges => (Spec => []IInv)
<1> SUFFICES ASSUME SafeChanges PROVE Spec => []IInv
  OBVIOUS
<1>1. Init => IInv
  BY InitIInv
<1>2. IInv /\ [Next]_vars => IInv'
  <2> SUFFICES ASSUME IInv, [Next]_vars PROVE IInv'
    OBVIOUS
  <2>1. CASE ReadLimit
    BY <2>1, ReadLimitStep
  <2>2. CASE SendFrame
    BY <2>2, SendFrameStep
  <2>3. CASE RecvSeq
    BY <2>3, RecvSeqStep
  <2>4. CASE RecvFrame
    BY <2>4, RecvFrameStep
  <2>5. CASE SetWindowSize
    BY <2>5, SetWindowSizeStep
  <2>6. CASE UNCHANGED vars
    BY <2>6 DEF IInv, vars, senderVars, receiverVars, TypeOK, FieldsFollow, DataInOrder,
                SeqsInOrder, LimitRead, CreditNeverExceeded, NoProtocolViolation
  <2> QED BY <2>1, <2>2, <2>3, <2>4, <2>5, <2>6 DEF Next, Stopped
<1> QED BY <1>1, <1>2, PTL DEF Spec

\* Every field keeps its range.
THEOREM TypeCorrect == SafeChanges => (Spec => []TypeOK)
<1>1. IInv => TypeOK
  BY DEF IInv
<1> QED BY <1>1, Invariant, PTL

\* The sender never spends, nor believes it has, credit the receiver did not
\* grant.
THEOREM CreditSafe == SafeChanges => (Spec => []CreditNeverExceeded)
<1>1. IInv => CreditNeverExceeded
  BY DEF IInv
<1> QED BY <1>1, Invariant, PTL

\* Two Vortex peers never shut each other down over flow control, at any wrap
\* of the sequence numbers.
THEOREM NoShutdown == SafeChanges => (Spec => []NoProtocolViolation)
<1>1. IInv => NoProtocolViolation
  BY DEF IInv
<1> QED BY <1>1, Invariant, PTL

\* No step takes back an octet of credit.
LEMMA LimitStep ==
    ASSUME SafeChanges, IInv, [Next]_vars
    PROVE  consumed' + seq_no_window' >= consumed + seq_no_window
<1>1. consumed \in Nat /\ seq_no_window \in Windows
  BY DEF IInv, TypeOK
<1>2. seq_no_window \in Nat
  BY <1>1, Sizes
<1>3. CASE RecvFrame
  <2> DEFINE end == received + Head(data).size
  <2>1. \/ UNCHANGED <<seq_no_window, consumed>>
        \/ /\ consumed' = end /\ seq_no_window' = desired_window_size
           /\ consumed + seq_no_window < end + desired_window_size
    BY <1>3, FrameTaken
  <2>2. end \in Nat
    <3>1. received \in Nat /\ Head(data).size \in Nat
      BY <1>3, FrameTaken DEF IInv, TypeOK, Frame
    <3> QED BY <3>1
  <2>3. desired_window_size \in Nat
    <3>1. desired_window_size \in Windows
      BY DEF IInv, TypeOK
    <3> QED BY <3>1, Sizes
  <2> HIDE DEF end
  <2> QED BY <1>1, <1>2, <2>1, <2>2, <2>3
<1>4. CASE ~RecvFrame
  <2>1. UNCHANGED <<consumed, seq_no_window>>
    BY <1>4 DEF Next, ReadLimit, SendFrame, RecvSeq, SetWindowSize, Stopped, vars, receiverVars
  <2> QED BY <1>1, <1>2, <2>1
<1> QED BY <1>3, <1>4

\* The limit the receiver enforces never goes back.
THEOREM LimitGrows == SafeChanges => (Spec => LimitNeverShrinks)
<1> SUFFICES ASSUME SafeChanges PROVE Spec => LimitNeverShrinks
  OBVIOUS
<1>1. IInv /\ [Next]_vars => [consumed' + seq_no_window' >= consumed + seq_no_window]_vars
  BY LimitStep
<1>2. Spec => []IInv
  BY Invariant
<1> QED BY <1>1, <1>2, PTL DEF Spec, LimitNeverShrinks

\* Arithmetic of a frame taken: r octets become r1, consumed and window go
\* from c and w to c1 and w1, the sender knows a and v.
LEMMA CreditArith ==
    ASSUME NEW s \in Nat, NEW r \in Nat, NEW r1 \in Nat, NEW a \in Nat, NEW v \in Nat,
           NEW c \in Nat, NEW w \in Nat, NEW c1 \in Nat, NEW w1 \in Nat, NEW m \in Nat,
           r1 <= s, r < r1, c1 <= r1, r1 < c1 + w1, c1 + w1 >= c + w,
           s <= a + v, a + v <= c + w, w1 <= m
    PROVE  /\ r1 \in r + 1 .. s
           /\ c1 + w1 \in c + w .. (c + w) + m
           /\ c1 + w1 > r1 /\ c1 + w1 <= r1 + m
  OBVIOUS

\* Sequence numbers, frames and SEQ frames implement the octet pipe with
\* credit: every step is a step of CreditPipe or leaves it alone.  In
\* particular a receiver never takes a frame without leaving credit behind.
THEOREM PipeSafety == SafeChanges => (Spec => Pipe!PipeInit /\ [][Pipe!PipeNext]_(Pipe!pipe))
<1> SUFFICES ASSUME SafeChanges
             PROVE  Spec => Pipe!PipeInit /\ [][Pipe!PipeNext]_(Pipe!pipe)
  OBVIOUS
<1>1. Init => Pipe!PipeInit
  <2> SUFFICES ASSUME Init PROVE Pipe!PipeInit
    OBVIOUS
  <2>1. 0 + InitialWindow \in 1 .. MaxWindow
    <3>1. InitialWindow \in 1 .. MaxWindow
      BY Sizes
    <3> QED BY <3>1, Sizes
  <2> QED BY <2>1 DEF Init, Pipe!PipeInit
<1>2. IInv /\ IInv' /\ [Next]_vars => [Pipe!PipeNext]_(Pipe!pipe)
  <2> SUFFICES ASSUME IInv, IInv', [Next]_vars PROVE [Pipe!PipeNext]_(Pipe!pipe)
    OBVIOUS
  <2>1. /\ sent \in Nat /\ received \in Nat /\ consumed \in Nat /\ acked \in Nat
        /\ sent' \in Nat /\ received' \in Nat /\ consumed' \in Nat
    BY DEF IInv, TypeOK
  <2>2. /\ remote_window \in Nat /\ seq_no_window \in Nat /\ seq_no_window' \in Nat
        /\ MaxWindow \in Nat /\ seq_no_window' <= MaxWindow
    <3>1. /\ remote_window \in Windows /\ seq_no_window \in Windows
          /\ seq_no_window' \in Windows
      BY DEF IInv, TypeOK
    <3>2. /\ remote_window \in 1 .. MaxWindow /\ seq_no_window \in 1 .. MaxWindow
          /\ seq_no_window' \in 1 .. MaxWindow
      BY <3>1, Sizes
    <3> QED BY <3>2, Sizes
  <2>3. CASE SendFrame
    <3>1. UNCHANGED <<received, consumed, seq_no_window, acked, remote_window>>
      BY <2>3 DEF SendFrame, receiverVars
    <3>2. sent' <= Bytes /\ sent' <= acked' + remote_window'
          /\ acked' + remote_window' <= consumed' + seq_no_window'
      BY DEF IInv, CreditNeverExceeded
    <3>3. sent' <= consumed + seq_no_window
      BY <2>1, <2>2, <3>1, <3>2
    <3>4. sent < sent'
      BY <2>3, SendFrameStep
    <3>5. sent' \in sent + 1 .. Bytes
      BY <2>1, <3>2, <3>4, Sizes
    <3> QED BY <3>1, <3>3, <3>5 DEF Pipe!PipeNext, Pipe!Send
  <2>4. CASE RecvFrame
    <3>1. /\ received' <= sent /\ received < received' /\ sent' = sent
      BY <2>4, FrameTaken DEF senderVars
    <3>2. consumed' <= received' /\ received' < consumed' + seq_no_window'
      BY DEF IInv
    <3>3. consumed' + seq_no_window' >= consumed + seq_no_window
      BY LimitStep
    <3>4. sent <= acked + remote_window /\ acked + remote_window <= consumed + seq_no_window
      BY DEF IInv, CreditNeverExceeded
    <3>5. /\ received' \in received + 1 .. sent
          /\ consumed' + seq_no_window' \in
                consumed + seq_no_window .. (consumed + seq_no_window) + MaxWindow
          /\ consumed' + seq_no_window' > received'
          /\ consumed' + seq_no_window' <= received' + MaxWindow
      BY <2>1, <2>2, <3>1, <3>2, <3>3, <3>4, CreditArith, Zenon
    <3> QED BY <3>1, <3>5 DEF Pipe!PipeNext, Pipe!Receive
  <2>5. CASE ~SendFrame /\ ~RecvFrame
    <3>1. UNCHANGED <<sent, received, consumed, seq_no_window>>
      BY <2>5 DEF Next, ReadLimit, RecvSeq, SetWindowSize, Stopped, vars, senderVars, receiverVars
    <3> QED BY <3>1 DEF Pipe!pipe
  <2> QED BY <2>3, <2>4, <2>5
<1>3. Spec => []IInv
  BY Invariant
<1> QED BY <1>1, <1>2, <1>3, PTL DEF Spec

\* A receiver never has more than one largest window of octets on its way to
\* it: the buffers on which the SEQ mechanism is there to put a bound.
THEOREM ReceiverHolds == SafeChanges => (Spec => []Pipe!BufferBounded)
<1> SUFFICES ASSUME SafeChanges PROVE Spec => []Pipe!BufferBounded
  OBVIOUS
<1>1. IInv => Pipe!BufferBounded
  <2> SUFFICES ASSUME IInv PROVE sent - received <= MaxWindow
    BY DEF Pipe!BufferBounded
  <2>1. /\ sent \in Nat /\ received \in Nat /\ consumed \in Nat /\ acked \in Nat
        /\ remote_window \in Windows /\ seq_no_window \in Windows
    BY DEF IInv, TypeOK
  <2>2. remote_window \in 1 .. MaxWindow /\ seq_no_window \in 1 .. MaxWindow /\ MaxWindow \in Nat
    BY <2>1, Sizes
  <2>3. sent <= acked + remote_window /\ acked + remote_window <= consumed + seq_no_window
    BY DEF IInv, CreditNeverExceeded
  <2>4. consumed <= received
    BY DEF IInv
  <2> QED BY <2>1, <2>2, <2>3, <2>4
<1>2. Spec => []IInv
  BY Invariant
<1> QED BY <1>1, <1>2, PTL
=============================================================================
