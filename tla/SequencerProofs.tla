--------------------------- MODULE SequencerProofs ---------------------------
(***************************************************************************)
(* Proofs about Sequencer for any channels, messages, windows and frame    *)
(* sizes, feeders paused in both ways included.                            *)
(***************************************************************************)
EXTENDS Sequencer, SequenceTheorems, TLAPS

-----------------------------------------------------------------------------
(* The inductive invariant, in parts *)

\* The mutex of the state is held over a pass and over vortex_sequencer_add_channel.
MutexInv ==
    /\ pc \in {"scan", "after"} => mutex = "sequencer"
    /\ \A c \in Channels : adding[c].queue => mutex = "sender"
    /\ \A c, d \in Channels : adding[c].queue /\ adding[d].queue => c = d

\* The credit is never exceeded: what a round finds under the mutex stays.
CreditInv ==
    /\ \A c \in Channels : sent[c] <= granted[c]
    /\ pc = "build" => sent[cur] < granted[cur]
    /\ pc = "send" => sent[cur] + size <= granted[cur]

\* A message asks for octets until its last frame is prepared, and only a feeder is paused.
InRound(c) == c = cur /\ pc \in {"send", "relock", "after"}
Asks(m) == m.fed \/ m.left > 0
MessageInv ==
    /\ \A c \in Channels : \A i \in DOMAIN pending[c] :
          /\ pending[c][i].status # "go" => pending[c][i].fed
          /\ Asks(pending[c][i]) \/ (i = 1 /\ InRound(c) /\ complete)
    /\ \A c \in Channels : adding[c].queue => Asks(adding[c].message) /\ adding[c].message.status = "go"
    /\ \A c \in Channels : \A m \in paused_feeds[c] : m.fed
    /\ pc = "send" \/ (pc \in {"relock", "after"} /\ complete) => pending[cur] # <<>>

\* A channel left for a stall that has ended is one the reader is about to wake.
AfterInv ==
    pc = "after" /\ was_stalled /\ ~Stalled(cur) /\ pending[cur] # <<>> =>
        reader.channel = cur /\ reader.at \in {"check", "insert"}

IInv == TypeOK /\ MutexInv /\ CreditInv /\ MessageInv /\ SendableIsReady /\ AfterInv /\ NeverWrongSize

-----------------------------------------------------------------------------
(* What the parts of a round do *)

\* The message a round works on.
LEMMA HeadFacts ==
    ASSUME TypeOK, NEW c \in Channels, pending[c] # <<>>
    PROVE  /\ Head(pending[c]) \in Message /\ Head(pending[c]) = pending[c][1]
           /\ Tail(pending[c]) \in Seq(Message) /\ Len(pending[c]) \in Nat \ {0}
           /\ 1 \in DOMAIN pending[c] /\ DOMAIN pending[c] = 1..Len(pending[c])
           /\ \A i \in DOMAIN Tail(pending[c]) :
                 i + 1 \in DOMAIN pending[c] /\ Tail(pending[c])[i] = pending[c][i + 1]
<1>1. pending[c] \in Seq(Message)
  BY DEF TypeOK
<1>2. /\ Head(pending[c]) \in Message /\ Tail(pending[c]) \in Seq(Message)
      /\ Len(pending[c]) \in Nat \ {0} /\ DOMAIN pending[c] = 1..Len(pending[c])
      /\ Len(Tail(pending[c])) = Len(pending[c]) - 1
      /\ \A i \in 1..Len(Tail(pending[c])) : Tail(pending[c])[i] = pending[c][i + 1]
  BY <1>1, HeadTailProperties, EmptySeq, LenProperties
<1>3. DOMAIN Tail(pending[c]) = 1..(Len(pending[c]) - 1)
  BY <1>2, LenProperties
<1>4. 1 \in 1..Len(pending[c]) /\ \A i \in 1..(Len(pending[c]) - 1) : i + 1 \in 1..Len(pending[c])
  BY <1>2
<1>5. Head(pending[c]) = pending[c][1]
  BY <1>1
<1> QED BY <1>2, <1>3, <1>4, <1>5

\* Replacing the first message of a list.
LEMMA ChangeHead ==
    ASSUME NEW q \in Seq(Message), q # <<>>, NEW m \in Message
    PROVE  /\ [q EXCEPT ![1] = m] \in Seq(Message) /\ [q EXCEPT ![1] = m] # <<>>
           /\ Len([q EXCEPT ![1] = m]) = Len(q) /\ DOMAIN [q EXCEPT ![1] = m] = DOMAIN q
           /\ [q EXCEPT ![1] = m][1] = m
           /\ \A i \in DOMAIN q : i # 1 => [q EXCEPT ![1] = m][i] = q[i]
<1>1. Len(q) \in Nat \ {0} /\ DOMAIN q = 1..Len(q)
  BY EmptySeq, LenProperties
<1>2. 1 \in 1..Len(q)
  BY <1>1
<1>3. /\ [q EXCEPT ![1] = m] \in Seq(Message) /\ Len([q EXCEPT ![1] = m]) = Len(q)
      /\ \A j \in 1..Len(q) : [q EXCEPT ![1] = m][j] = IF j = 1 THEN m ELSE q[j]
  BY <1>2, ExceptSeq
<1>4. [q EXCEPT ![1] = m] # <<>>
  BY <1>1, <1>3, EmptySeq
<1> QED BY <1>1, <1>2, <1>3, <1>4

\* The size of a frame is within the credit and what is asked for, and is not zero
\* when neither is (vortex_channel_get_next_frame_size).
LEMMA SizeFacts ==
    ASSUME TypeOK, NEW c \in Channels, NEW m \in Message
    PROVE  /\ FrameSize(c, m) \in Int
           /\ FrameSize(c, m) <= granted[c] - sent[c] /\ FrameSize(c, m) <= Asked(m)
           /\ sent[c] < granted[c] /\ Asks(m) => FrameSize(c, m) > 0
<1>1. sent[c] \in Nat /\ granted[c] \in Nat /\ MaxFrame \in Nat \ {0}
  BY SequencerAssumption DEF TypeOK
<1>2. Asked(m) \in Nat /\ (Asks(m) => Asked(m) > 0)
  BY DEF Asked, Asks, Message
<1> QED BY <1>1, <1>2 DEF FrameSize, Least

\* A round finds no message, prepares a frame of the first message within the credit, or
\* puts a paused feeder aside (__vortex_sequencer_do_send_round).
NoFrame ==
    /\ pending[cur] = <<>> /\ pc' = "relock" /\ complete' = FALSE /\ paused' = FALSE
    /\ UNCHANGED <<pending, paused_feeds, conn_ok, wrong_size, size>>
Framed(m) ==
    /\ pending[cur] # <<>> /\ pc' = "send"
    /\ pending' = [pending EXCEPT ![cur] = [pending[cur] EXCEPT ![1] = m]]
    /\ size' \in Nat /\ size' <= Head(pending[cur]).left
    /\ sent[cur] + size' <= granted[cur] /\ complete' \in BOOLEAN
    /\ m.no = Head(pending[cur]).no /\ m.left = Head(pending[cur]).left - size'
    /\ m.status # "go" => m.fed
    /\ Asks(m) \/ complete'
    /\ complete' => m.left = 0 \/ (size' = 0 /\ m.status = "close")
    /\ m.status = Head(pending[cur]).status \/ \E close \in CloseTransfer : m.status = PauseStatus(close)
    /\ UNCHANGED <<paused, paused_feeds, conn_ok, wrong_size>>
PutAside ==
    /\ pending[cur] # <<>> /\ Head(pending[cur]).status = "pause"
    /\ pc' = "relock" /\ complete' = FALSE /\ paused' = TRUE
    /\ pending' = [pending EXCEPT ![cur] = Tail(@)]
    /\ paused_feeds' = [paused_feeds EXCEPT ![cur] = @ \cup {Head(pending[cur])}]
    /\ UNCHANGED <<conn_ok, wrong_size, size>>

\* What a round does: no frame, a frame of some message, or a feeder put aside.
LEMMA BuildFacts ==
    ASSUME TypeOK, CreditInv, MessageInv, Build
    PROVE  NoFrame \/ (\E m \in Message : Framed(m)) \/ PutAside
<1> DEFINE h == Head(pending[cur])
           n == FrameSize(cur, h)
<1>0. cur \in Channels /\ pc = "build"
  BY DEF TypeOK, Build
<1>1. CASE pending[cur] = <<>>
  BY <1>1 DEF Build, NoFrame
<1>2. CASE pending[cur] # <<>>
  <2>1. h \in Message /\ h = pending[cur][1] /\ 1 \in DOMAIN pending[cur]
    BY <1>0, <1>2, HeadFacts
  <2>2. Asks(h) /\ (h.status # "go" => h.fed)
    BY <1>0, <2>1 DEF MessageInv, InRound
  <2>3. /\ n \in Int /\ n > 0 /\ n <= granted[cur] - sent[cur] /\ n <= Asked(h)
        /\ sent[cur] \in Nat /\ granted[cur] \in Nat
    BY <1>0, <2>1, <2>2, SizeFacts DEF CreditInv, TypeOK
  <2>4. pending[cur] \in Seq(Message) /\ pending \in [Channels -> Seq(Message)]
    BY <1>0 DEF TypeOK
  <2>5. CASE h.status = "pause"
    BY <1>2, <2>3, <2>5 DEF Build, PutAside
  <2>6. ASSUME NEW status \in {"pause", "close"}, PrepareEmpty(status), h.fed,
               status = h.status \/ \E close \in CloseTransfer : status = PauseStatus(close)
        PROVE  \E m \in Message : Framed(m)
    <3> DEFINE m == [h EXCEPT !.status = status]
    <3>1. m \in Message /\ m.no = h.no /\ m.left = h.left /\ m.fed = h.fed /\ m.status = status
      BY <2>1, <2>6 DEF Message
    <3>2. pending' = [pending EXCEPT ![cur] = [pending[cur] EXCEPT ![1] = m]]
      BY <2>1, <2>4, <2>6 DEF PrepareEmpty
    <3>3. size' = 0 /\ pc' = "send" /\ UNCHANGED <<paused, paused_feeds, conn_ok, wrong_size>>
      BY <2>6 DEF PrepareEmpty
    <3>4. complete' \in BOOLEAN /\ (complete' => status = "close")
      BY <2>6 DEF PrepareEmpty
    <3>5. /\ size' \in Nat /\ size' <= h.left /\ sent[cur] + size' <= granted[cur]
          /\ m.left = h.left - size'
      BY <2>1, <2>3, <3>1, <3>3 DEF Message
    <3> HIDE DEF m
    <3>6. Asks(m)
      BY <2>6, <3>1 DEF Asks
    <3>7. Framed(m)
      BY <1>2, <2>6, <3>1, <3>2, <3>3, <3>4, <3>5, <3>6 DEF Framed
    <3> QED BY <3>1, <3>7
  <2>7. ASSUME Prepare(h, n), h.status = "go" PROVE \E m \in Message : Framed(m)
    <3> DEFINE copied == Least(n, h.left)
               m == [h EXCEPT !.left = @ - copied]
    <3>1. /\ h.left \in Nat /\ copied \in Nat
          /\ n <= h.left => copied = n
          /\ n > h.left => copied = h.left
      BY <2>1, <2>3 DEF Least, Message
    <3>2. m \in Message /\ m.no = h.no /\ m.left = h.left - copied /\ m.fed = h.fed /\ m.status = h.status
      BY <2>1, <2>3, <3>1 DEF Message
    <3>3. pending' = [pending EXCEPT ![cur] = [pending[cur] EXCEPT ![1] = m]]
      BY <2>1, <2>4, <2>7 DEF Prepare
    <3>4. size' = copied /\ pc' = "send" /\ UNCHANGED <<paused, paused_feeds, conn_ok, wrong_size>>
      BY <2>7 DEF Prepare
    <3>5. complete' \in BOOLEAN /\ (complete' <=> IF h.fed THEN n > h.left ELSE n = h.left)
      <4>1. CASE h.fed
        <5>1. complete' = (n > h.left)
          BY <2>7, <4>1 DEF Prepare
        <5>2. (n > h.left) \in BOOLEAN
          BY <2>3, <3>1
        <5> QED BY <4>1, <5>1, <5>2, Zenon
      <4>2. CASE ~h.fed
        <5>1. complete' = (n = h.left)
          BY <2>7, <4>2 DEF Prepare
        <5> QED BY <4>2, <5>1
      <4> QED BY <4>1, <4>2
    <3>6. ~h.fed => n <= h.left
      BY <2>3 DEF Asked
    <3> HIDE DEF m, n, copied
    <3>7. /\ size' \in Nat /\ size' <= h.left /\ sent[cur] + size' <= granted[cur]
          /\ m.left = h.left - size'
      BY <2>3, <3>1, <3>2, <3>4
    <3>8. complete' => m.left = 0
      BY <2>3, <3>1, <3>2, <3>5
    <3>9. Asks(m) \/ complete'
      BY <2>3, <3>1, <3>2, <3>5, <3>6 DEF Asks
    <3>10. Framed(m)
      BY <1>2, <2>7, <3>2, <3>3, <3>4, <3>5, <3>7, <3>8, <3>9 DEF Framed
    <3> QED BY <3>2, <3>10
  <2>8. CASE h.status = "close"
    <3>1. PrepareEmpty("close")
      BY <1>2, <2>3, <2>8 DEF Build
    <3> QED BY <2>2, <2>6, <2>8, <3>1
  <2>9. CASE h.status = "go"
    <3>1. Prepare(h, n) \/ \E close \in CloseTransfer : h.fed /\ PrepareEmpty(PauseStatus(close))
      BY <1>2, <2>3, <2>9 DEF Build
    <3>2. ASSUME NEW close \in CloseTransfer, h.fed, PrepareEmpty(PauseStatus(close))
          PROVE  \E m \in Message : Framed(m)
      <4>1. close \in BOOLEAN
        BY SequencerAssumption
      <4>2. PauseStatus(close) \in {"pause", "close"}
        BY <4>1 DEF PauseStatus
      <4> QED BY <2>6, <3>2, <4>2
    <3> QED BY <2>7, <2>9, <3>1, <3>2
  <2> QED BY <2>1, <2>5, <2>8, <2>9 DEF Message
<1> QED BY <1>1, <1>2

\* A message is handed over as it is queued: not paused, asking for octets.
LEMMA SendFacts ==
    ASSUME TypeOK, MessageInv, NEW c \in Channels, Send(c)
    PROVE  \E m \in Message :
              /\ m.status = "go" /\ Asks(m) /\ AddChannel(c, m)
              /\ queued' \in [Channels -> Nat]
              /\ \E S : paused_feeds' = [paused_feeds EXCEPT ![c] = @ \ S]
<1>1. PICK n \in NewMessages(c) \cup paused_feeds[c] :
         /\ AddChannel(c, [n EXCEPT !.status = "go"])
         /\ queued' = [queued EXCEPT ![c] = IF n \in paused_feeds[c] THEN @ ELSE n.no]
         /\ paused_feeds' = [paused_feeds EXCEPT ![c] = @ \ {n}]
  BY DEF Send
<1>2. n \in Message /\ Asks(n)
  <2>1. CASE n \in paused_feeds[c]
    BY <2>1 DEF TypeOK, MessageInv, Asks
  <2>2. CASE n \in NewMessages(c)
    <3>1. n \in [no : {queued[c] + 1}, left : Sizes, fed : Feeders, status : {"go"}]
      BY <2>2 DEF NewMessages
    <3>2. queued[c] + 1 \in Nat \ {0}
      BY DEF TypeOK
    <3>3. n.no \in Nat \ {0} /\ n.left \in Nat \ {0} /\ n.fed \in BOOLEAN /\ n.status \in {"go"}
      BY <3>1, <3>2, SequencerAssumption
    <3>4. n \in Message
      BY <3>1, <3>2, SequencerAssumption DEF Message
    <3> QED BY <3>3, <3>4 DEF Asks
  <2> QED BY <1>1, <2>1, <2>2
<1> DEFINE m == [n EXCEPT !.status = "go"]
<1>3. m \in Message /\ m.status = "go" /\ m.fed = n.fed /\ m.left = n.left
  BY <1>2 DEF Message
<1>4. queued' \in [Channels -> Nat]
  <2>1. n.no \in Nat /\ queued \in [Channels -> Nat]
    BY <1>2 DEF Message, TypeOK
  <2> QED BY <1>1, <2>1
<1> HIDE DEF m
<1>5. AddChannel(c, m)
  BY <1>1 DEF m
<1>6. Asks(m)
  BY <1>2, <1>3 DEF Asks
<1> QED BY <1>1, <1>3, <1>4, <1>5, <1>6

\* A pause changes the status of one message, of a feeder.
LEMMA PauseFacts ==
    ASSUME TypeOK, NEW c \in Channels, Pause(c)
    PROVE  \E i \in DOMAIN pending[c], m \in Message :
              /\ m.fed /\ m.no = pending[c][i].no /\ m.left = pending[c][i].left
              /\ pending' = [pending EXCEPT ![c] = [pending[c] EXCEPT ![i] = m]]
              /\ [pending[c] EXCEPT ![i] = m] \in Seq(Message)
              /\ Len([pending[c] EXCEPT ![i] = m]) = Len(pending[c])
              /\ [pending[c] EXCEPT ![i] = m] # <<>> /\ pending[c] # <<>>
              /\ \E close \in CloseTransfer : m.status = PauseStatus(close)
<1>1. pending[c] \in Seq(Message) /\ Len(pending[c]) \in Nat /\ DOMAIN pending[c] = 1..Len(pending[c])
  BY LenProperties DEF TypeOK
<1>2. PICK i \in 1..Len(pending[c]), close \in CloseTransfer :
         /\ pending[c][i].fed /\ pending[c][i].status = "go"
         /\ pending' = [pending EXCEPT ![c][i].status = PauseStatus(close)]
  BY DEF Pause
<1> DEFINE n == pending[c][i]
           m == [n EXCEPT !.status = PauseStatus(close)]
<1>3. n \in Message /\ close \in BOOLEAN
  BY <1>1, ElementOfSeq, SequencerAssumption
<1>4. PauseStatus(close) \in {"pause", "close"}
  BY <1>3 DEF PauseStatus
<1>5. m \in Message /\ m.fed /\ m.no = n.no /\ m.left = n.left /\ m.status = PauseStatus(close)
  BY <1>2, <1>3, <1>4 DEF Message
<1>6. pending' = [pending EXCEPT ![c] = [pending[c] EXCEPT ![i] = m]]
  BY <1>2 DEF TypeOK
<1> HIDE DEF m
<1>7. [pending[c] EXCEPT ![i] = m] \in Seq(Message) /\ Len([pending[c] EXCEPT ![i] = m]) = Len(pending[c])
  BY <1>1, <1>5, ExceptSeq
<1>8. [pending[c] EXCEPT ![i] = m] # <<>> /\ pending[c] # <<>>
  BY <1>1, <1>7, EmptySeq
<1> QED BY <1>1, <1>4, <1>5, <1>6, <1>7, <1>8

\* A channel made ready keeps the shapes.
LEMMA InsertType ==
    ASSUME TypeOK, NEW c \in Channels, InsertReady(c)
    PROVE  ready' \subseteq Channels /\ todo' \subseteq Channels /\ stale' \in [Channels -> BOOLEAN]
BY DEF TypeOK, InsertReady

\* The state is as the fields of the C structures say when the sequencer starts.
LEMMA TypeStart == Init => TypeOK
<1> SUFFICES ASSUME Init PROVE TypeOK
  OBVIOUS
<1>1. <<>> \in Seq(Message)
  OBVIOUS
<1>2. Admin \in Channels /\ Window \in Nat
  BY SequencerAssumption
<1> QED BY <1>1, <1>2 DEF Init, TypeOK, Nothing, Idle

\* The shape of the state that belongs to the channels, and of the state of the threads.
ChannelTypes ==
    /\ pending \in [Channels -> Seq(Message)] /\ paused_feeds \in [Channels -> SUBSET Message]
    /\ sent \in [Channels -> Nat] /\ granted \in [Channels -> Nat]
    /\ removed \in [Channels -> BOOLEAN] /\ stale \in [Channels -> BOOLEAN]
    /\ queued \in [Channels -> Nat] /\ written \in [Channels -> Nat] /\ open \in [Channels -> Nat]
ThreadTypes ==
    /\ ready \subseteq Channels /\ todo \subseteq Channels
    /\ mutex \in {"free", "sender", "sequencer"}
    /\ exit \in BOOLEAN /\ conn_ok \in BOOLEAN /\ wrong_size \in BOOLEAN
    /\ pc \in {"wait", "scan", "build", "send", "relock", "after", "done"}
    /\ admin_pass \in BOOLEAN /\ cur \in Channels /\ size \in Nat
    /\ complete \in BOOLEAN /\ paused \in BOOLEAN /\ was_stalled \in BOOLEAN
    /\ adding \in [Channels -> {Nothing} \cup
                     [queue : {TRUE}, message : Message, insert : BOOLEAN]]
    /\ reader \in [at : {"idle", "check", "insert"}, channel : Channels]

\* The type invariant in two halves.
LEMMA TypeParts == (TypeOK <=> ChannelTypes /\ ThreadTypes) /\ (TypeOK' <=> ChannelTypes' /\ ThreadTypes')
BY DEF TypeOK, ChannelTypes, ThreadTypes

\* and every step keeps it.
LEMMA TypeStep == TypeOK /\ CreditInv /\ MessageInv /\ [Next]_vars => TypeOK'
<1> SUFFICES ASSUME TypeOK, CreditInv, MessageInv, [Next]_vars PROVE TypeOK'
  OBVIOUS
<1>0. Admin \in Channels
  BY SequencerAssumption
<1>1. CASE Wake \/ EndPass
  BY <1>1 DEF Wake, EndPass, LoopHead, TypeOK, channelVars
<1>2. CASE Build
  <2>0. UNCHANGED <<sent, granted, removed, queued, written, open, ready, mutex, exit, todo, admin_pass,
                    cur, was_stalled, adding, reader, stale>>
    BY <1>2 DEF Build
  <2>1. CASE NoFrame
    BY <2>0, <2>1 DEF NoFrame, TypeOK
  <2>2. ASSUME NEW m \in Message, Framed(m) PROVE TypeOK'
    <3>1. [pending[cur] EXCEPT ![1] = m] \in Seq(Message)
      BY <2>2, ChangeHead DEF Framed, TypeOK
    <3>2. pending' \in [Channels -> Seq(Message)]
      BY <2>2, <3>1 DEF Framed, TypeOK
    <3> QED BY <2>0, <2>2, <3>2 DEF Framed, TypeOK
  <2>3. CASE PutAside
    <3>1. Tail(pending[cur]) \in Seq(Message) /\ Head(pending[cur]) \in Message
      BY <2>3, HeadFacts DEF PutAside, TypeOK
    <3>2. pending' \in [Channels -> Seq(Message)] /\ paused_feeds' \in [Channels -> SUBSET Message]
      BY <2>3, <3>1 DEF PutAside, TypeOK
    <3> QED BY <2>0, <2>3, <3>2 DEF PutAside, TypeOK
  <2> QED BY <1>2, <2>1, <2>2, <2>3, BuildFacts
<1>3. CASE SendFrame
  <2>1. pc = "send" /\ cur \in Channels /\ pending[cur] # <<>>
    BY <1>3 DEF SendFrame, MessageInv, TypeOK
  <2>2. Head(pending[cur]).no \in Nat
    BY <2>1, HeadFacts DEF Message
  <2>3. sent[cur] + size \in Nat
    BY <2>1 DEF TypeOK
  <2>4. sent' \in [Channels -> Nat] /\ open' \in [Channels -> Nat] /\ written' \in [Channels -> Nat]
    BY <1>3, <2>1, <2>2, <2>3 DEF SendFrame, TypeOK
  <2> QED BY <1>3, <2>4 DEF SendFrame, TypeOK
<1>4. CASE Relock
  BY <1>4 DEF Relock, TypeOK, channelVars, Stalled
<1>5. CASE AfterRound
  <2>1. pending' \in [Channels -> Seq(Message)]
    <3>1. CASE complete
      <4>1. Tail(pending[cur]) \in Seq(Message)
        BY <1>5, <3>1, HeadFacts DEF AfterRound, MessageInv, TypeOK
      <4> QED BY <1>5, <3>1, <4>1 DEF AfterRound, TypeOK
    <3>2. CASE ~complete
      BY <1>5, <3>2 DEF AfterRound, TypeOK
    <3> QED BY <3>1, <3>2
  <2>2. ready' \subseteq Channels /\ stale' \in [Channels -> BOOLEAN]
    BY <1>5 DEF AfterRound, LeftForPause, TypeOK
  <2> QED BY <1>0, <1>5, <2>1, <2>2 DEF AfterRound, NoRound, TypeOK
<1>6. ASSUME NEW c \in Channels, Visit(c) PROVE TypeOK'
  BY <1>6 DEF Visit, Dropped, TypeOK, channelVars
<1>7. ASSUME NEW c \in Channels, Send(c) PROVE TypeOK'
  <2>1. PICK m \in Message : /\ AddChannel(c, m) /\ queued' \in [Channels -> Nat]
                             /\ \E S : paused_feeds' = [paused_feeds EXCEPT ![c] = @ \ S]
    BY <1>7, SendFacts
  <2>2. PICK S : paused_feeds' = [paused_feeds EXCEPT ![c] = @ \ S]
    BY <2>1
  <2>3. paused_feeds' \in [Channels -> SUBSET Message]
    <3>1. paused_feeds[c] \ S \in SUBSET Message /\ paused_feeds \in [Channels -> SUBSET Message]
      BY DEF TypeOK
    <3> QED BY <2>2, <3>1
  <2>4. adding' \in [Channels -> {Nothing} \cup [queue : {TRUE}, message : Message, insert : BOOLEAN]]
    <3>1. (c \notin ready /\ ~Stalled(c)) \in BOOLEAN
      OBVIOUS
    <3> DEFINE b == c \notin ready /\ ~Stalled(c)
    <3> HIDE DEF b
    <3>2. b \in BOOLEAN /\ adding' = [adding EXCEPT ![c] = [queue |-> TRUE, message |-> m, insert |-> b]]
      BY <2>1, <3>1 DEF AddChannel, b
    <3>3. [queue |-> TRUE, message |-> m, insert |-> b] \in [queue : {TRUE}, message : Message, insert : BOOLEAN]
      BY <3>2
    <3> QED BY <3>2, <3>3 DEF TypeOK
  <2>5. mutex' = "sender" /\ UNCHANGED <<pending, sent, granted, removed, written, open, ready, exit,
                                        conn_ok, wrong_size, threadVars, reader, stale>>
    BY <2>1 DEF AddChannel
  <2> QED BY <2>1, <2>3, <2>4, <2>5 DEF TypeOK, threadVars
<1>8. ASSUME NEW c \in Channels, QueuePending(c) PROVE TypeOK'
  <2>1. adding[c].message \in Message
    <3>1. adding[c] # Nothing
      BY <1>8 DEF QueuePending, Nothing
    <3> QED BY <3>1 DEF TypeOK
  <2>2. pending' \in [Channels -> Seq(Message)]
    <3>1. Append(pending[c], adding[c].message) \in Seq(Message)
      BY <2>1, AppendProperties DEF TypeOK
    <3> QED BY <1>8, <3>1 DEF QueuePending, TypeOK
  <2>3. ready' \subseteq Channels /\ todo' \subseteq Channels /\ stale' \in [Channels -> BOOLEAN]
    <3>1. CASE adding[c].insert
      BY <1>8, <3>1, InsertType DEF QueuePending
    <3>2. CASE ~adding[c].insert
      <4>1. /\ stale' = [stale EXCEPT ![c] = @ \/ (c \notin ready /\ ~Stalled(c))]
            /\ UNCHANGED <<ready, todo>>
        BY <1>8, <3>2 DEF QueuePending
      <4>2. (stale[c] \/ (c \notin ready /\ ~Stalled(c))) \in BOOLEAN
        BY Zenon
      <4> QED BY <4>1, <4>2 DEF TypeOK
    <3> QED BY <3>1, <3>2
  <2>4. adding' \in [Channels -> {Nothing} \cup [queue : {TRUE}, message : Message, insert : BOOLEAN]]
    <3>1. adding' = [adding EXCEPT ![c] = Nothing]
      BY <1>8 DEF QueuePending
    <3> QED BY <3>1 DEF TypeOK
  <2>5. mutex' = "free" /\ UNCHANGED <<sent, granted, removed, queued, written, open, paused_feeds, exit,
           conn_ok, wrong_size, pc, admin_pass, cur, size, complete, paused, was_stalled, reader>>
    BY <1>8 DEF QueuePending
  <2> QED BY <2>2, <2>3, <2>4, <2>5 DEF TypeOK
<1>9. ASSUME NEW c \in Channels, Pause(c) PROVE TypeOK'
  <2>1. pending' \in [Channels -> Seq(Message)]
    <3>1. PICK i \in DOMAIN pending[c], m \in Message :
             /\ pending' = [pending EXCEPT ![c] = [pending[c] EXCEPT ![i] = m]]
             /\ [pending[c] EXCEPT ![i] = m] \in Seq(Message)
      BY <1>9, PauseFacts
    <3> QED BY <3>1 DEF TypeOK
  <2>2. UNCHANGED <<sent, granted, removed, queued, written, open, paused_feeds, ready, mutex, exit,
                    conn_ok, wrong_size, pc, todo, admin_pass, cur, size, complete, paused, was_stalled, adding, reader, stale>>
    BY <1>9 DEF Pause, threadVars
  <2>3. ChannelTypes'
    BY <2>1, <2>2, TypeParts DEF ChannelTypes
  <2>4. ThreadTypes'
    BY <2>2, TypeParts DEF ThreadTypes
  <2> QED BY <2>3, <2>4, TypeParts
<1>10. ASSUME NEW c \in Channels, ApplySeq(c) PROVE TypeOK'
  <2>1. PICK limit \in granted[c] + 1 .. sent[c] + Window : granted' = [granted EXCEPT ![c] = limit]
    BY <1>10 DEF ApplySeq
  <2>2. limit \in Nat
    <3>1. granted[c] \in Nat /\ sent[c] \in Nat /\ Window \in Nat
      BY SequencerAssumption DEF TypeOK
    <3> QED BY <2>1, <3>1
  <2>3. granted' \in [Channels -> Nat]
    BY <2>1, <2>2 DEF TypeOK
  <2>4. /\ reader' = [at |-> "check", channel |-> c]
        /\ UNCHANGED <<pending, sent, removed, queued, written, open, paused_feeds, ready, mutex, exit,
                       conn_ok, wrong_size, pc, todo, admin_pass, cur, size, complete, paused, was_stalled, adding, stale>>
    BY <1>10 DEF ApplySeq, threadVars
  <2> QED BY <2>3, <2>4 DEF TypeOK
<1>11. ASSUME NEW c \in Channels, RemoveChannel(c) PROVE TypeOK'
  <2>1. UNCHANGED <<pending, sent, granted, queued, written, open, paused_feeds, ready, mutex, exit,
                    conn_ok, wrong_size, pc, todo, admin_pass, cur, size, complete, paused, was_stalled, adding, reader, stale>>
    BY <1>11 DEF RemoveChannel, threadVars
  <2>2. removed' \in [Channels -> BOOLEAN]
    BY <1>11 DEF RemoveChannel, TypeOK
  <2>3. ChannelTypes'
    BY <2>1, <2>2, TypeParts DEF ChannelTypes
  <2>4. ThreadTypes'
    BY <2>1, <2>2, TypeParts DEF ThreadTypes
  <2> QED BY <2>3, <2>4, TypeParts
<1>12. CASE CheckPending
  BY <1>0, <1>12 DEF CheckPending, Idle, TypeOK, channelVars, threadVars
<1>13. CASE MoveToReady
  <2>1. reader.channel \in Channels
    BY DEF TypeOK
  <2> QED BY <1>0, <1>13, <2>1, InsertType DEF MoveToReady, Idle, TypeOK, channelVars
<1>14. CASE BreakConnection \/ Stop \/ Quiet \/ UNCHANGED vars
  <2>1. /\ conn_ok' \in BOOLEAN /\ exit' \in BOOLEAN
        /\ UNCHANGED <<channelVars, ready, mutex, wrong_size, threadVars, adding, reader, stale>>
    BY <1>14 DEF BreakConnection, Stop, Quiet, vars, TypeOK
  <2> QED BY <2>1 DEF TypeOK, channelVars, threadVars
<1> QED BY <1>1, <1>2, <1>3, <1>4, <1>5, <1>6, <1>7, <1>8, <1>9, <1>10, <1>11, <1>12, <1>13, <1>14
           DEF Next, Sequence

-----------------------------------------------------------------------------
(* The mutex and the credit *)

\* A pass and vortex_sequencer_add_channel exclude each other.
LEMMA MutexStep == TypeOK /\ MutexInv /\ [Next]_vars => MutexInv'
<1> SUFFICES ASSUME TypeOK, MutexInv, [Next]_vars PROVE MutexInv'
  OBVIOUS
<1>1. CASE Wake \/ EndPass
  BY <1>1 DEF Wake, EndPass, LoopHead, MutexInv
<1>2. CASE Build
  <2>1. pc' \in {"send", "relock"} /\ UNCHANGED <<mutex, adding>>
    BY <1>2 DEF Build, Prepare, PrepareEmpty
  <2> QED BY <2>1 DEF MutexInv
<1>3. CASE SendFrame \/ Relock \/ AfterRound
  BY <1>3 DEF SendFrame, Relock, AfterRound, MutexInv
<1>4. ASSUME NEW c \in Channels, Visit(c) PROVE MutexInv'
  BY <1>4 DEF Visit, Dropped, MutexInv
<1>5. ASSUME NEW c \in Channels, Send(c) PROVE MutexInv'
  <2>1. PICK m : AddChannel(c, m)
    BY <1>5 DEF Send
  <2>2. mutex = "free" /\ mutex' = "sender" /\ pc' = pc
    BY <2>1 DEF AddChannel, threadVars
  <2>3. \A d \in Channels : d # c => adding'[d] = adding[d]
    BY <2>1 DEF AddChannel, TypeOK
  <2>4. \A d \in Channels : ~adding[d].queue
    BY <2>2 DEF MutexInv
  <2>5. \A d \in Channels : adding'[d].queue => d = c
    BY <2>3, <2>4
  <2> QED BY <2>2, <2>4, <2>5 DEF MutexInv
<1>6. ASSUME NEW c \in Channels, QueuePending(c) PROVE MutexInv'
  <2>1. mutex = "sender" /\ pc' = pc /\ adding' = [adding EXCEPT ![c] = Nothing]
    BY <1>6 DEF QueuePending, MutexInv
  <2>2. \A d \in Channels : ~adding'[d].queue
    <3> SUFFICES ASSUME NEW d \in Channels PROVE ~adding'[d].queue
      OBVIOUS
    <3>1. CASE d = c
      BY <2>1, <3>1 DEF TypeOK, Nothing
    <3>2. CASE d # c
      BY <1>6, <2>1, <3>2 DEF QueuePending, MutexInv, TypeOK
    <3> QED BY <3>1, <3>2
  <2> QED BY <2>1, <2>2 DEF MutexInv
<1>7. ASSUME NEW c \in Channels, Pause(c) \/ ApplySeq(c) \/ RemoveChannel(c) PROVE MutexInv'
  <2>1. UNCHANGED <<pc, mutex, adding>>
    BY <1>7 DEF Pause, ApplySeq, RemoveChannel, threadVars
  <2> QED BY <2>1 DEF MutexInv
<1>8. CASE CheckPending \/ MoveToReady \/ BreakConnection \/ Stop \/ Quiet \/ UNCHANGED vars
  <2>1. UNCHANGED <<pc, mutex, adding>>
    BY <1>8 DEF CheckPending, MoveToReady, BreakConnection, Stop, Quiet, vars, threadVars
  <2> QED BY <2>1 DEF MutexInv
<1> QED BY <1>1, <1>2, <1>3, <1>4, <1>5, <1>6, <1>7, <1>8 DEF Next, Sequence

\* What a round may send was found free under the mutex, and only the round sends.
LEMMA CreditStep == TypeOK /\ CreditInv /\ MessageInv /\ [Next]_vars => CreditInv'
<1> SUFFICES ASSUME TypeOK, CreditInv, MessageInv, [Next]_vars PROVE CreditInv'
  OBVIOUS
<1>0. cur \in Channels /\ size \in Nat /\ sent \in [Channels -> Nat] /\ granted \in [Channels -> Nat]
  BY DEF TypeOK
<1>1. ASSUME UNCHANGED <<sent, granted>>, pc' \notin {"build", "send"} PROVE CreditInv'
  BY <1>1 DEF CreditInv
<1>2. CASE Wake \/ EndPass \/ Relock \/ AfterRound
  <2>1. UNCHANGED <<sent, granted>> /\ pc' \notin {"build", "send"}
    BY <1>2 DEF Wake, EndPass, Relock, AfterRound, LoopHead, channelVars
  <2> QED BY <1>1, <2>1
<1>3. CASE Build
  <2>1. UNCHANGED <<sent, granted, cur>>
    BY <1>3 DEF Build
  <2>2. CASE NoFrame \/ PutAside
    BY <1>1, <2>1, <2>2 DEF NoFrame, PutAside
  <2>3. ASSUME NEW m \in Message, Framed(m) PROVE CreditInv'
    BY <2>1, <2>3 DEF Framed, CreditInv
  <2> QED BY <1>3, <2>2, <2>3, BuildFacts
<1>4. CASE SendFrame
  <2>1. pc' = "relock" /\ granted' = granted /\ sent' = [sent EXCEPT ![cur] = @ + size] /\ pc = "send"
    BY <1>4 DEF SendFrame
  <2>2. sent[cur] + size <= granted[cur]
    BY <2>1 DEF CreditInv
  <2>3. \A c \in Channels : sent'[c] <= granted'[c]
    BY <1>0, <2>1, <2>2 DEF CreditInv
  <2> QED BY <2>1, <2>3 DEF CreditInv
<1>5. ASSUME NEW c \in Channels, Visit(c) PROVE CreditInv'
  <2>1. UNCHANGED <<sent, granted>> /\ pc = "scan"
    BY <1>5 DEF Visit, Dropped, channelVars
  <2>2. pc' = "scan" \/ (pc' = "build" /\ cur' = c /\ ~Stalled(c))
    BY <1>5 DEF Visit, Dropped
  <2>3. ~Stalled(c) => sent[c] < granted[c]
    BY <1>0 DEF Stalled, CreditInv
  <2> QED BY <2>1, <2>2, <2>3 DEF CreditInv
<1>6. ASSUME NEW c \in Channels, ApplySeq(c) PROVE CreditInv'
  <2>1. PICK limit \in granted[c] + 1 .. sent[c] + Window : granted' = [granted EXCEPT ![c] = limit]
    BY <1>6 DEF ApplySeq
  <2>2. UNCHANGED <<sent, pc, cur, size>>
    BY <1>6 DEF ApplySeq, threadVars
  <2>3. \A d \in Channels : granted[d] <= granted'[d]
    BY <1>0, <2>1, SequencerAssumption
  <2>4. granted' \in [Channels -> Int]
    BY <1>0, <2>1, SequencerAssumption
  <2> QED BY <1>0, <2>2, <2>3, <2>4 DEF CreditInv
<1>7. ASSUME UNCHANGED <<sent, granted, pc, cur, size>> PROVE CreditInv'
  BY <1>7 DEF CreditInv
<1>8. ASSUME NEW c \in Channels, Send(c) \/ QueuePending(c) \/ Pause(c) \/ RemoveChannel(c)
      PROVE  CreditInv'
  <2>1. UNCHANGED <<sent, granted, pc, cur, size>>
    BY <1>8 DEF Send, AddChannel, QueuePending, Pause, RemoveChannel, threadVars
  <2> QED BY <1>7, <2>1
<1>9. CASE CheckPending \/ MoveToReady \/ BreakConnection \/ Stop \/ Quiet \/ UNCHANGED vars
  <2>1. UNCHANGED <<sent, granted, pc, cur, size>>
    BY <1>9 DEF CheckPending, MoveToReady, BreakConnection, Stop, Quiet, vars, channelVars, threadVars
  <2> QED BY <1>7, <2>1
<1> QED BY <1>2, <1>3, <1>4, <1>5, <1>6, <1>8, <1>9 DEF Next, Sequence

-----------------------------------------------------------------------------
(* The messages *)

\* A message asks for octets until its last frame is prepared, whichever thread moves.
LEMMA MessageStep == TypeOK /\ CreditInv /\ MessageInv /\ [Next]_vars => MessageInv'
<1> SUFFICES ASSUME TypeOK, CreditInv, MessageInv, [Next]_vars PROVE MessageInv'
  OBVIOUS
<1>0. cur \in Channels /\ pending \in [Channels -> Seq(Message)]
  BY DEF TypeOK
<1>1. ASSUME UNCHANGED <<pending, adding, paused_feeds>>,
             pc \notin {"send", "relock", "after"}, pc' \notin {"send", "relock", "after"}
      PROVE  MessageInv'
  BY <1>1 DEF MessageInv, InRound
<1>2. CASE Wake \/ EndPass
  <2>1. /\ UNCHANGED <<pending, adding, paused_feeds>>
        /\ pc \notin {"send", "relock", "after"} /\ pc' \notin {"send", "relock", "after"}
    BY <1>2 DEF Wake, EndPass, LoopHead, channelVars
  <2> QED BY <1>1, <2>1
<1>3. ASSUME NEW c \in Channels, Visit(c) PROVE MessageInv'
  <2>1. /\ UNCHANGED <<pending, adding, paused_feeds>>
        /\ pc \notin {"send", "relock", "after"} /\ pc' \notin {"send", "relock", "after"}
    BY <1>3 DEF Visit, Dropped, channelVars
  <2> QED BY <1>1, <2>1
<1>4. CASE Build
  <2>0. UNCHANGED <<cur, adding>> /\ pc = "build"
    BY <1>4 DEF Build
  <2>1. \A c \in Channels : \A i \in DOMAIN pending[c] :
           Asks(pending[c][i]) /\ (pending[c][i].status # "go" => pending[c][i].fed)
    BY <2>0 DEF MessageInv, InRound
  <2>2. CASE NoFrame
    <3>1. pc' = "relock" /\ complete' = FALSE /\ UNCHANGED <<pending, paused_feeds>>
      BY <2>2 DEF NoFrame
    <3> QED BY <2>0, <2>1, <3>1 DEF MessageInv
  <2>3. ASSUME NEW m \in Message, Framed(m) PROVE MessageInv'
    <3> DEFINE q == [pending[cur] EXCEPT ![1] = m]
    <3>1. pending[cur] # <<>> /\ pending[cur] \in Seq(Message)
      BY <1>0, <2>3 DEF Framed
    <3>2. /\ q # <<>> /\ DOMAIN q = DOMAIN pending[cur] /\ q[1] = m
          /\ \A i \in DOMAIN pending[cur] : i # 1 => q[i] = pending[cur][i]
      BY <3>1, ChangeHead
    <3> HIDE DEF q
    <3>3. pending'[cur] = q /\ \A c \in Channels : c # cur => pending'[c] = pending[c]
      BY <1>0, <2>3 DEF Framed, q
    <3>4. /\ pc' = "send" /\ paused_feeds' = paused_feeds
          /\ m.status # "go" => m.fed
          /\ Asks(m) \/ complete'
      BY <2>3 DEF Framed
    <3>5. \A c \in Channels : \A i \in DOMAIN pending'[c] :
             /\ pending'[c][i].status # "go" => pending'[c][i].fed
             /\ Asks(pending'[c][i]) \/ (i = 1 /\ InRound(c)' /\ complete')
      <4> SUFFICES ASSUME NEW c \in Channels, NEW i \in DOMAIN pending'[c]
                   PROVE  /\ pending'[c][i].status # "go" => pending'[c][i].fed
                          /\ Asks(pending'[c][i]) \/ (i = 1 /\ InRound(c)' /\ complete')
        OBVIOUS
      <4>1. CASE c # cur
        BY <2>1, <3>3, <4>1
      <4>2. CASE c = cur /\ i # 1
        BY <2>1, <3>2, <3>3, <4>2
      <4>3. CASE c = cur /\ i = 1
        BY <2>0, <3>2, <3>3, <3>4, <4>3 DEF InRound
      <4> QED BY <4>1, <4>2, <4>3
    <3>6. pending'[cur'] # <<>>
      BY <2>0, <3>2, <3>3
    <3>7. /\ \A c \in Channels : adding'[c].queue => Asks(adding'[c].message) /\ adding'[c].message.status = "go"
          /\ \A c \in Channels : \A x \in paused_feeds'[c] : x.fed
      BY <2>0, <3>4 DEF MessageInv
    <3> QED BY <3>5, <3>6, <3>7 DEF MessageInv, Asks
  <2>4. CASE PutAside
    <3>1. pending[cur] # <<>> /\ Head(pending[cur]).fed
      <4>1. pending[cur] # <<>> /\ Head(pending[cur]).status = "pause"
        BY <2>4 DEF PutAside
      <4>2. Head(pending[cur]) = pending[cur][1] /\ 1 \in DOMAIN pending[cur]
        BY <1>0, <4>1, HeadFacts
      <4> QED BY <1>0, <2>1, <4>1, <4>2
    <3>2. \A i \in DOMAIN Tail(pending[cur]) :
             i + 1 \in DOMAIN pending[cur] /\ Tail(pending[cur])[i] = pending[cur][i + 1]
      BY <1>0, <3>1, HeadFacts
    <3>3. pending'[cur] = Tail(pending[cur]) /\ \A c \in Channels : c # cur => pending'[c] = pending[c]
      BY <1>0, <2>4 DEF PutAside
    <3>4. \A c \in Channels : \A i \in DOMAIN pending'[c] :
             Asks(pending'[c][i]) /\ (pending'[c][i].status # "go" => pending'[c][i].fed)
      <4> SUFFICES ASSUME NEW c \in Channels, NEW i \in DOMAIN pending'[c]
                   PROVE  Asks(pending'[c][i]) /\ (pending'[c][i].status # "go" => pending'[c][i].fed)
        OBVIOUS
      <4>1. CASE c # cur
        BY <2>1, <3>3, <4>1
      <4>2. CASE c = cur
        BY <2>1, <3>2, <3>3, <4>2
      <4> QED BY <4>1, <4>2
    <3>5. \A c \in Channels : \A x \in paused_feeds'[c] : x.fed
      BY <2>4, <3>1 DEF PutAside, MessageInv, TypeOK
    <3>6. pc' = "relock" /\ complete' = FALSE
      BY <2>4 DEF PutAside
    <3> QED BY <2>0, <3>4, <3>5, <3>6 DEF MessageInv, Asks
  <2> QED BY <1>4, <2>2, <2>3, <2>4, BuildFacts
<1>5. CASE SendFrame \/ Relock
  <2>1. /\ UNCHANGED <<pending, adding, paused_feeds, cur, complete>>
        /\ pc \in {"send", "relock"} /\ pc' \in {"relock", "after"}
        /\ pc = "send" => pc' = "relock"
    BY <1>5 DEF SendFrame, Relock, channelVars
  <2>2. \A c \in Channels : InRound(c)' <=> InRound(c)
    BY <2>1 DEF InRound
  <2>3. pc' \in {"relock", "after"} /\ complete' => pending[cur] # <<>>
    BY <2>1 DEF MessageInv
  <2> QED BY <2>1, <2>2, <2>3 DEF MessageInv, Asks
<1>6. CASE AfterRound
  <2>1. pc = "after" /\ pc' = "scan" /\ UNCHANGED <<adding, paused_feeds>>
    BY <1>6 DEF AfterRound
  <2>2. CASE complete
    <3>1. pending[cur] # <<>> /\ pending' = [pending EXCEPT ![cur] = Tail(@)]
      BY <1>6, <2>1, <2>2 DEF AfterRound, MessageInv
    <3>2. \A i \in DOMAIN Tail(pending[cur]) :
             i + 1 \in DOMAIN pending[cur] /\ Tail(pending[cur])[i] = pending[cur][i + 1] /\ i + 1 # 1
      <4>1. \A i \in DOMAIN Tail(pending[cur]) :
               i + 1 \in DOMAIN pending[cur] /\ Tail(pending[cur])[i] = pending[cur][i + 1]
        BY <1>0, <3>1, HeadFacts
      <4>2. Tail(pending[cur]) \in Seq(Message)
        BY <1>0, <3>1, HeadFacts
      <4>3. DOMAIN Tail(pending[cur]) = 1..Len(Tail(pending[cur]))
        BY <4>2, LenProperties
      <4>4. \A i \in DOMAIN Tail(pending[cur]) : i + 1 # 1
        BY <4>2, <4>3, LenProperties
      <4> QED BY <4>1, <4>4
    <3>3. pending'[cur] = Tail(pending[cur]) /\ \A c \in Channels : c # cur => pending'[c] = pending[c]
      BY <1>0, <3>1
    <3>4. \A c \in Channels : \A i \in DOMAIN pending'[c] :
             Asks(pending'[c][i]) /\ (pending'[c][i].status # "go" => pending'[c][i].fed)
      <4> SUFFICES ASSUME NEW c \in Channels, NEW i \in DOMAIN pending'[c]
                   PROVE  Asks(pending'[c][i]) /\ (pending'[c][i].status # "go" => pending'[c][i].fed)
        OBVIOUS
      <4>1. CASE c # cur
        BY <3>3, <4>1 DEF MessageInv, InRound
      <4>2. CASE c = cur
        <5>1. i \in DOMAIN Tail(pending[cur]) /\ pending'[c][i] = Tail(pending[cur])[i]
          BY <3>3, <4>2
        <5>2. i + 1 \in DOMAIN pending[cur] /\ pending'[c][i] = pending[cur][i + 1] /\ i + 1 # 1
          BY <3>2, <5>1
        <5> QED BY <1>0, <5>2 DEF MessageInv
      <4> QED BY <4>1, <4>2
    <3> QED BY <2>1, <3>4 DEF MessageInv, Asks
  <2>3. CASE ~complete
    <3>1. pending' = pending
      BY <1>6, <2>3 DEF AfterRound
    <3> QED BY <2>1, <2>3, <3>1 DEF MessageInv, Asks
  <2> QED BY <2>2, <2>3
<1>7. ASSUME NEW c \in Channels, Send(c) PROVE MessageInv'
  <2>1. PICK m \in Message : /\ m.status = "go" /\ Asks(m) /\ AddChannel(c, m)
                             /\ \E S : paused_feeds' = [paused_feeds EXCEPT ![c] = @ \ S]
    BY <1>7, SendFacts
  <2>2. /\ UNCHANGED <<pending, pc, cur, complete>>
        /\ \A d \in Channels : d # c => adding'[d] = adding[d]
        /\ adding'[c].message = m
    BY <2>1 DEF AddChannel, threadVars, TypeOK
  <2>3. \A d \in Channels : paused_feeds'[d] \subseteq paused_feeds[d]
    <3>1. PICK S : paused_feeds' = [paused_feeds EXCEPT ![c] = @ \ S]
      BY <2>1
    <3> QED BY <3>1 DEF TypeOK
  <2>4. \A d \in Channels : adding'[d].queue => Asks(adding'[d].message) /\ adding'[d].message.status = "go"
    BY <2>1, <2>2 DEF MessageInv
  <2>5. \A d \in Channels : \A x \in paused_feeds'[d] : x.fed
    BY <2>3 DEF MessageInv
  <2>6. \A d \in Channels : InRound(d)' <=> InRound(d)
    BY <2>2 DEF InRound
  <2> QED BY <2>2, <2>4, <2>5, <2>6 DEF MessageInv, Asks
<1>8. ASSUME NEW c \in Channels, QueuePending(c) PROVE MessageInv'
  <2> DEFINE m == adding[c].message
             q == Append(pending[c], m)
  <2>1. /\ adding[c].queue /\ pending' = [pending EXCEPT ![c] = q]
        /\ adding' = [adding EXCEPT ![c] = Nothing]
        /\ UNCHANGED <<paused_feeds, pc, cur, complete>>
    BY <1>8 DEF QueuePending
  <2>2. m \in Message
    <3>1. adding[c] # Nothing
      BY <2>1 DEF Nothing
    <3> QED BY <3>1 DEF TypeOK
  <2>3. Asks(m) /\ m.status = "go"
    BY <2>1 DEF MessageInv
  <2>4. /\ q # <<>> /\ Len(q) = Len(pending[c]) + 1 /\ q \in Seq(Message)
        /\ \A i \in 1..Len(pending[c]) : q[i] = pending[c][i]
        /\ q[Len(pending[c]) + 1] = m
    BY <1>0, <2>2, AppendProperties
  <2>5. DOMAIN q = 1..(Len(pending[c]) + 1) /\ DOMAIN pending[c] = 1..Len(pending[c]) /\ Len(pending[c]) \in Nat
    BY <1>0, <2>4, LenProperties
  <2> HIDE DEF m, q
  <2>6. pending'[c] = q /\ \A d \in Channels : d # c => pending'[d] = pending[d]
    BY <1>0, <2>1
  <2>7. \A d \in Channels : InRound(d)' <=> InRound(d)
    BY <2>1 DEF InRound
  <2>8. \A d \in Channels : \A i \in DOMAIN pending'[d] :
           /\ pending'[d][i].status # "go" => pending'[d][i].fed
           /\ Asks(pending'[d][i]) \/ (i = 1 /\ InRound(d)' /\ complete')
    <3> SUFFICES ASSUME NEW d \in Channels, NEW i \in DOMAIN pending'[d]
                 PROVE  /\ pending'[d][i].status # "go" => pending'[d][i].fed
                        /\ Asks(pending'[d][i]) \/ (i = 1 /\ InRound(d)' /\ complete')
      OBVIOUS
    <3>1. CASE d = c /\ i = Len(pending[c]) + 1
      BY <2>3, <2>4, <2>6, <3>1
    <3>2. CASE d = c /\ i # Len(pending[c]) + 1
      <4>1. i \in DOMAIN pending[c] /\ pending'[d][i] = pending[c][i]
        BY <2>4, <2>5, <2>6, <3>2
      <4> QED BY <2>1, <2>7, <3>2, <4>1 DEF MessageInv
    <3>3. CASE d # c
      BY <2>1, <2>6, <2>7, <3>3 DEF MessageInv
    <3> QED BY <3>1, <3>2, <3>3
  <2>9. \A d \in Channels : adding'[d].queue => Asks(adding'[d].message) /\ adding'[d].message.status = "go"
    BY <2>1 DEF MessageInv, TypeOK, Nothing
  <2>10. pending[cur] # <<>> => pending'[cur] # <<>>
    BY <1>0, <2>4, <2>6
  <2> QED BY <2>1, <2>8, <2>9, <2>10 DEF MessageInv, Asks
<1>9. ASSUME NEW c \in Channels, Pause(c) PROVE MessageInv'
  <2>1. PICK i \in DOMAIN pending[c], m \in Message :
           /\ m.fed /\ pending' = [pending EXCEPT ![c] = [pending[c] EXCEPT ![i] = m]]
           /\ [pending[c] EXCEPT ![i] = m] # <<>>
    BY <1>9, PauseFacts
  <2>2. UNCHANGED <<adding, paused_feeds, pc, cur, complete>>
    BY <1>9 DEF Pause, threadVars
  <2>3. /\ pending'[c] = [pending[c] EXCEPT ![i] = m] /\ pending'[c] # <<>>
        /\ \A d \in Channels : d # c => pending'[d] = pending[d]
    BY <1>0, <2>1
  <2>4. DOMAIN pending'[c] = DOMAIN pending[c] /\ pending'[c][i] = m
        /\ \A j \in DOMAIN pending[c] : j # i => pending'[c][j] = pending[c][j]
    BY <2>1, <2>3
  <2>5. Asks(m)
    BY <2>1 DEF Asks
  <2>6. \A d \in Channels : InRound(d)' <=> InRound(d)
    BY <2>2 DEF InRound
  <2>7. \A d \in Channels : \A j \in DOMAIN pending'[d] :
           /\ pending'[d][j].status # "go" => pending'[d][j].fed
           /\ Asks(pending'[d][j]) \/ (j = 1 /\ InRound(d)' /\ complete')
    <3> SUFFICES ASSUME NEW d \in Channels, NEW j \in DOMAIN pending'[d]
                 PROVE  /\ pending'[d][j].status # "go" => pending'[d][j].fed
                        /\ Asks(pending'[d][j]) \/ (j = 1 /\ InRound(d)' /\ complete')
      OBVIOUS
    <3>1. CASE d = c /\ j = i
      BY <2>1, <2>4, <2>5, <3>1
    <3>2. CASE d = c /\ j # i
      BY <2>2, <2>4, <2>6, <3>2 DEF MessageInv
    <3>3. CASE d # c
      BY <2>2, <2>3, <2>6, <3>3 DEF MessageInv
    <3> QED BY <3>1, <3>2, <3>3
  <2>8. pending[cur] # <<>> => pending'[cur] # <<>>
    BY <1>0, <2>3
  <2> QED BY <2>2, <2>7, <2>8 DEF MessageInv, Asks
<1>10. ASSUME NEW c \in Channels, ApplySeq(c) \/ RemoveChannel(c) PROVE MessageInv'
  <2>1. UNCHANGED <<pending, adding, paused_feeds, pc, cur, complete>>
    BY <1>10 DEF ApplySeq, RemoveChannel, threadVars
  <2> QED BY <2>1 DEF MessageInv, Asks, InRound
<1>11. CASE CheckPending \/ MoveToReady \/ BreakConnection \/ Stop \/ Quiet \/ UNCHANGED vars
  <2>1. UNCHANGED <<pending, adding, paused_feeds, pc, cur, complete>>
    BY <1>11 DEF CheckPending, MoveToReady, BreakConnection, Stop, Quiet, vars, channelVars, threadVars
  <2> QED BY <2>1 DEF MessageInv, Asks, InRound
<1> QED BY <1>2, <1>3, <1>4, <1>5, <1>6, <1>7, <1>8, <1>9, <1>10, <1>11 DEF Next, Sequence

-----------------------------------------------------------------------------
(* No channel is forgotten *)

\* The reader is about to make the channel ready (vortex_sequencer_signal_update).
Waking(c) == reader.channel = c /\ reader.at \in {"check", "insert"}

\* A channel in want of a round is ready, or a thread or the history answers for it.
Kept(c) ==
    pending[c] # <<>> /\ ~Stalled(c) /\ c \notin ready =>
        removed[c] \/ stale[c] \/ ~conn_ok \/ Waking(c)

\* A connection that broke stays broken.
LEMMA BrokenStays == [Next]_vars => (conn_ok' => conn_ok)
<1> SUFFICES ASSUME [Next]_vars, conn_ok', ~conn_ok PROVE FALSE
  OBVIOUS
<1>1. CASE Build
  BY <1>1 DEF Build, Prepare, PrepareEmpty
<1>2. CASE Wake \/ EndPass \/ SendFrame \/ Relock \/ AfterRound
  BY <1>2 DEF Wake, EndPass, SendFrame, Relock, AfterRound
<1>3. ASSUME NEW c \in Channels, Visit(c) \/ Send(c) \/ QueuePending(c) \/ Pause(c) PROVE FALSE
  BY <1>3 DEF Visit, Send, AddChannel, QueuePending, Pause
<1>4. ASSUME NEW c \in Channels, ApplySeq(c) \/ RemoveChannel(c) PROVE FALSE
  BY <1>4 DEF ApplySeq, RemoveChannel
<1>5. CASE CheckPending \/ MoveToReady \/ BreakConnection \/ Stop \/ Quiet \/ UNCHANGED vars
  BY <1>5 DEF CheckPending, MoveToReady, BreakConnection, Stop, Quiet, vars
<1> QED BY <1>1, <1>2, <1>3, <1>4, <1>5 DEF Next, Sequence

\* A step that only takes credit and messages from a channel, or adds to what excuses it.
LEMMA KeptSame ==
    ASSUME NEW c \in Channels, Kept(c), pending'[c] # <<>> => pending[c] # <<>>,
           Stalled(c) => Stalled(c)', c \in ready => c \in ready',
           removed[c] => removed'[c], stale[c] => stale'[c], Waking(c) => Waking(c)',
           conn_ok' => conn_ok
    PROVE  Kept(c)'
BY DEF Kept

\* The argument goes over the actions: what takes a channel from the ready ones has seen it
\* removed, empty, stalled under the mutex, paused or on a broken connection, and what gives
\* it credit wakes it.
LEMMA ReadyStep ==
    TypeOK /\ MutexInv /\ CreditInv /\ MessageInv /\ SendableIsReady /\ AfterInv /\ [Next]_vars =>
        SendableIsReady' /\ AfterInv'
<1> SUFFICES ASSUME TypeOK, MutexInv, CreditInv, MessageInv, SendableIsReady, AfterInv, [Next]_vars
             PROVE  SendableIsReady' /\ AfterInv'
  OBVIOUS
<1>0. cur \in Channels /\ pending \in [Channels -> Seq(Message)]
  BY DEF TypeOK
<1>1. (conn_ok' => conn_ok) /\ \A c \in Channels : Kept(c)
  BY BrokenStays DEF SendableIsReady, Kept, Waking
<1>2. ASSUME \A c \in Channels : Kept(c)' PROVE SendableIsReady'
  BY <1>2 DEF SendableIsReady, Kept, Waking
<1>3. ASSUME UNCHANGED <<pending, sent, granted, ready, reader, stale>>,
             \A c \in Channels : removed[c] => removed'[c]
      PROVE  SendableIsReady'
  <2>1. \A c \in Channels : Kept(c)'
    <3> SUFFICES ASSUME NEW c \in Channels PROVE Kept(c)'
      OBVIOUS
    <3>1. (Stalled(c) => Stalled(c)') /\ (Waking(c) => Waking(c)')
      BY <1>3 DEF Stalled, Waking
    <3> QED BY <1>1, <1>3, <3>1, KeptSame
  <2> QED BY <1>2, <2>1
<1>4. ASSUME UNCHANGED <<pc, was_stalled, cur, sent, granted, pending, reader>> PROVE AfterInv'
  BY <1>4 DEF AfterInv, Stalled
<1>5. ASSUME pc' # "after" PROVE AfterInv'
  BY <1>5 DEF AfterInv
<1>6. CASE Wake \/ EndPass
  <2>1. /\ UNCHANGED <<pending, sent, granted, ready, reader, stale, removed>>
        /\ pc' # "after"
    BY <1>6 DEF Wake, EndPass, LoopHead, channelVars
  <2> QED BY <1>3, <1>5, <2>1
<1>7. ASSUME NEW c \in Channels, Visit(c) PROVE SendableIsReady' /\ AfterInv'
  <2>1. /\ UNCHANGED <<pending, sent, granted, reader, stale, removed>>
        /\ pc' # "after"
    BY <1>7 DEF Visit, Dropped, channelVars
  <2>2. ready' = ready \/ (ready' = ready \ {c} /\ (removed[c] \/ Stalled(c) \/ ~conn_ok))
    BY <1>7 DEF Visit, Dropped
  <2>3. \A d \in Channels : Kept(d)'
    BY <1>1, <2>1, <2>2 DEF Kept, Stalled, Waking
  <2> QED BY <1>2, <1>5, <2>1, <2>3
<1>8. CASE Build
  <2>1. UNCHANGED <<sent, granted, ready, reader, stale, removed>>
    BY <1>8 DEF Build
  <2>2. /\ pc' # "after"
        /\ \A c \in Channels : pending'[c] # <<>> => pending[c] # <<>>
    <3>1. CASE NoFrame
      BY <3>1 DEF NoFrame
    <3>2. ASSUME NEW m \in Message, Framed(m)
          PROVE  pc' # "after" /\ \A c \in Channels : pending'[c] # <<>> => pending[c] # <<>>
      BY <1>0, <3>2 DEF Framed
    <3>3. CASE PutAside
      BY <1>0, <3>3 DEF PutAside
    <3> QED BY <1>8, <3>1, <3>2, <3>3, BuildFacts
  <2>3. \A c \in Channels : Kept(c)'
    BY <1>1, <2>1, <2>2 DEF Kept, Stalled, Waking
  <2> QED BY <1>2, <1>5, <2>2, <2>3
<1>9. CASE SendFrame
  <2>1. /\ UNCHANGED <<pending, granted, ready, reader, stale, removed>>
        /\ pc' = "relock" /\ pc = "send" /\ sent' = [sent EXCEPT ![cur] = @ + size]
    BY <1>9 DEF SendFrame
  <2>2. Stalled(cur) => Stalled(cur)'
    <3>1. /\ sent[cur] \in Nat /\ granted[cur] \in Nat /\ size \in Nat
          /\ sent[cur] + size <= granted[cur] /\ cur \in DOMAIN sent
      BY <1>0, <2>1 DEF TypeOK, CreditInv
    <3>2. sent[cur] = granted[cur] => sent[cur] + size = granted[cur]
      BY <3>1
    <3>3. sent'[cur] = sent[cur] + size /\ granted' = granted
      BY <2>1, <3>1
    <3>4. (sent[cur] = granted[cur]) => (sent'[cur] = granted'[cur])
      BY <3>2, <3>3
    <3>5. \A c \in Channels : (sent[c] = granted[c]) => (sent'[c] = granted'[c])
      BY <2>1, <3>4 DEF TypeOK
    <3>6. cur' = cur
      BY <1>9 DEF SendFrame
    <3> QED BY <1>0, <3>4, <3>6 DEF Stalled
  <2>3. \A c \in Channels : Stalled(c) => Stalled(c)'
    <3> SUFFICES ASSUME NEW c \in Channels PROVE Stalled(c) => Stalled(c)'
      OBVIOUS
    <3>1. CASE c = cur
      <4>1. cur' = cur
        BY <1>9 DEF SendFrame
      <4> QED BY <2>2, <3>1, <4>1 DEF Stalled
    <3>2. CASE c # cur
      BY <2>1, <3>2 DEF Stalled, TypeOK
    <3> QED BY <3>1, <3>2
  <2>4. \A c \in Channels : Kept(c)'
    BY <1>1, <2>1, <2>3 DEF Kept, Waking
  <2> QED BY <1>2, <1>5, <2>1, <2>4
<1>10. CASE Relock
  <2>1. /\ UNCHANGED <<pending, sent, granted, ready, reader, stale, removed, cur>>
        /\ was_stalled' = Stalled(cur)
    BY <1>10 DEF Relock, channelVars
  <2>2. AfterInv'
    BY <2>1 DEF AfterInv, Stalled
  <2> QED BY <1>3, <2>1, <2>2
<1>11. CASE AfterRound
  <2>1. pc = "after" /\ pc' = "scan" /\ UNCHANGED <<sent, granted, removed, reader>>
    BY <1>11 DEF AfterRound
  <2>2. ready' = IF removed[cur] \/ (complete /\ pending'[cur] = <<>>) \/ was_stalled \/ paused
                 THEN ready \ {cur} ELSE ready
    BY <1>11 DEF AfterRound
  <2>3. /\ \A c \in Channels : pending'[c] # <<>> => pending[c] # <<>>
    <3>1. CASE complete
      BY <1>0, <1>11, <2>1, <3>1 DEF AfterRound, MessageInv
    <3>2. CASE ~complete
      BY <1>11, <3>2 DEF AfterRound
    <3> QED BY <3>1, <3>2
  <2>4. /\ \A c \in Channels : stale[c] => stale'[c]
        /\ paused /\ pending'[cur] # <<>> => stale'[cur]
    BY <1>0, <1>11 DEF AfterRound, LeftForPause, TypeOK
  <2>5. \A c \in Channels : (Stalled(c) <=> Stalled(c)') /\ (Waking(c) => Waking(c)')
    BY <2>1 DEF Stalled, Waking
  <2>6. \A c \in Channels : Kept(c)'
    <3> SUFFICES ASSUME NEW c \in Channels PROVE Kept(c)'
      OBVIOUS
    <3>1. CASE c # cur \/ c \notin ready
      <4>1. c \in ready => c \in ready'
        BY <2>2, <3>1
      <4> QED BY <1>1, <2>1, <2>3, <2>4, <2>5, <4>1, KeptSame
    <3>2. CASE c = cur /\ c \in ready
      <4> SUFFICES ASSUME pending'[c] # <<>>, ~Stalled(c)', c \notin ready'
                   PROVE  removed'[c] \/ stale'[c] \/ ~conn_ok' \/ Waking(c)'
        BY DEF Kept
      <4>1. removed[c] \/ was_stalled \/ paused
        BY <2>2, <3>2
      <4>2. CASE removed[c]
        BY <2>1, <4>2
      <4>3. CASE paused
        BY <2>4, <3>2, <4>3
      <4>4. CASE was_stalled
        <5>1. pending[cur] # <<>> /\ ~Stalled(cur)
          BY <2>3, <2>5, <3>2
        <5>2. Waking(cur)
          BY <2>1, <4>4, <5>1 DEF AfterInv, Waking
        <5> QED BY <2>5, <3>2, <5>2
      <4> QED BY <4>1, <4>2, <4>3, <4>4
    <3> QED BY <3>1, <3>2
  <2> QED BY <1>2, <1>5, <2>1, <2>6
<1>12. ASSUME NEW c \in Channels, Send(c) PROVE SendableIsReady' /\ AfterInv'
  <2>1. UNCHANGED <<pending, sent, granted, ready, reader, stale, removed, pc, was_stalled, cur>>
    BY <1>12 DEF Send, AddChannel, threadVars
  <2> QED BY <1>3, <1>4, <2>1
<1>13. ASSUME NEW c \in Channels, InsertReady(c), UNCHANGED <<sent, granted, removed>>, pc' # "after",
              \A d \in Channels : d # c => pending'[d] = pending[d] /\ (Waking(d) => Waking(d)')
       PROVE  SendableIsReady' /\ AfterInv'
  <2>1. ready' = ready \cup {c} /\ \A d \in Channels : d # c => stale'[d] = stale[d]
    BY <1>13 DEF InsertReady, TypeOK
  <2>2. \A d \in Channels : Kept(d)'
    BY <1>1, <1>13, <2>1 DEF Kept, Stalled
  <2> QED BY <1>2, <1>5, <1>13, <2>2
<1>14. ASSUME NEW c \in Channels, QueuePending(c) PROVE SendableIsReady' /\ AfterInv'
  <2>1. /\ pending' = [pending EXCEPT ![c] = Append(@, adding[c].message)]
        /\ UNCHANGED <<sent, granted, removed, reader, pc>> /\ adding[c].queue
    BY <1>14 DEF QueuePending
  <2>2. pc' # "after"
    BY <2>1 DEF MutexInv
  <2>3. \A d \in Channels : d # c => pending'[d] = pending[d] /\ (Waking(d) => Waking(d)')
    BY <1>0, <2>1 DEF Waking
  <2>4. CASE adding[c].insert
    BY <1>13, <1>14, <2>1, <2>2, <2>3, <2>4 DEF QueuePending
  <2>5. CASE ~adding[c].insert
    <3>1. /\ stale' = [stale EXCEPT ![c] = @ \/ (c \notin ready /\ ~Stalled(c))]
          /\ ready' = ready
      BY <1>14, <2>5 DEF QueuePending
    <3>2. stale'[c] <=> stale[c] \/ (c \notin ready /\ ~Stalled(c))
      BY <3>1, Zenon DEF TypeOK
    <3>3. \A d \in Channels : d # c => stale'[d] = stale[d]
      BY <3>1 DEF TypeOK
    <3>4. \A d \in Channels : Stalled(d) <=> Stalled(d)'
      BY <2>1 DEF Stalled
    <3>5. \A d \in Channels : Kept(d)'
      BY <1>1, <2>1, <2>3, <3>1, <3>2, <3>3, <3>4 DEF Kept
    <3> QED BY <1>2, <1>5, <2>2, <3>5
  <2> QED BY <2>4, <2>5
<1>15. ASSUME NEW c \in Channels, Pause(c) PROVE SendableIsReady' /\ AfterInv'
  <2>1. UNCHANGED <<sent, granted, ready, reader, stale, removed, pc, was_stalled, cur>>
    BY <1>15 DEF Pause, threadVars
  <2>2. \A d \in Channels : pending'[d] # <<>> => pending[d] # <<>>
    <3>1. PICK i \in DOMAIN pending[c], m \in Message :
             /\ m.fed /\ pending' = [pending EXCEPT ![c] = [pending[c] EXCEPT ![i] = m]]
             /\ [pending[c] EXCEPT ![i] = m] # <<>> /\ pending[c] # <<>>
      BY <1>15, PauseFacts
    <3> QED BY <1>0, <3>1
  <2>3. \A d \in Channels : Kept(d)'
    BY <1>1, <2>1, <2>2 DEF Kept, Stalled, Waking
  <2>4. AfterInv'
    BY <1>0, <2>1, <2>2 DEF AfterInv, Stalled
  <2> QED BY <1>2, <2>3, <2>4
<1>16. ASSUME NEW c \in Channels, ApplySeq(c) PROVE SendableIsReady' /\ AfterInv'
  <2>1. /\ UNCHANGED <<pending, sent, ready, stale, removed, pc, was_stalled, cur>>
        /\ reader.at = "idle" /\ reader' = [at |-> "check", channel |-> c]
        /\ \E limit \in granted[c] + 1 .. sent[c] + Window : granted' = [granted EXCEPT ![c] = limit]
    BY <1>16 DEF ApplySeq, threadVars
  <2>2. \A d \in Channels : ~Waking(d)
    BY <2>1 DEF Waking
  <2>3. Waking(c)'
    BY <2>1 DEF Waking
  <2>4. \A d \in Channels : d # c => granted'[d] = granted[d]
    BY <2>1 DEF TypeOK
  <2>5. \A d \in Channels : d # c => (Stalled(d) <=> Stalled(d)')
    BY <2>1, <2>4 DEF Stalled
  <2>6. \A d \in Channels : Kept(d)'
    BY <1>1, <2>1, <2>2, <2>3, <2>5 DEF Kept
  <2>7. AfterInv'
    <3>1. CASE cur = c
      BY <2>1, <3>1 DEF AfterInv
    <3>2. CASE cur # c
      <4>1. granted'[cur] = granted[cur]
        BY <1>0, <2>4, <3>2
      <4>2. ~(pc = "after" /\ was_stalled /\ ~Stalled(cur) /\ pending[cur] # <<>>)
        BY <2>1 DEF AfterInv
      <4> QED BY <2>1, <4>1, <4>2 DEF AfterInv, Stalled
    <3> QED BY <3>1, <3>2
  <2> QED BY <1>2, <2>6, <2>7
<1>17. CASE CheckPending
  <2>1. /\ UNCHANGED <<pending, sent, granted, ready, stale, removed, pc, was_stalled, cur>>
        /\ reader' = IF pending[reader.channel] = <<>> THEN Idle ELSE [reader EXCEPT !.at = "insert"]
    BY <1>17 DEF CheckPending, channelVars, threadVars
  <2>2. \A d \in Channels : pending[d] # <<>> /\ Waking(d) => Waking(d)'
    BY <2>1 DEF Waking, TypeOK
  <2>3. \A d \in Channels : Kept(d)'
    BY <1>1, <2>1, <2>2 DEF Kept, Stalled
  <2>4. AfterInv'
    <3>1. (pending[cur] # <<>> /\ reader.channel = cur /\ reader.at \in {"check", "insert"})
            => reader'.channel = cur /\ reader'.at \in {"check", "insert"}
      BY <2>1 DEF TypeOK
    <3>2. pending[cur] # <<>> /\ Waking(cur) => reader'.channel = cur /\ reader'.at \in {"check", "insert"}
      BY <3>1 DEF Waking
    <3>3. pc = "after" /\ was_stalled /\ ~Stalled(cur) /\ pending[cur] # <<>> => Waking(cur)
      BY DEF AfterInv, Waking
    <3>4. pc' = "after" /\ was_stalled' /\ ~Stalled(cur)' /\ pending'[cur'] # <<>> =>
             pc = "after" /\ was_stalled /\ ~Stalled(cur) /\ pending[cur] # <<>>
      BY <2>1 DEF Stalled
    <3>5. pc' = "after" /\ was_stalled' /\ ~Stalled(cur)' /\ pending'[cur'] # <<>> =>
             reader'.channel = cur' /\ reader'.at \in {"check", "insert"}
      BY <2>1, <3>2, <3>3, <3>4
    <3> QED BY <3>5 DEF AfterInv
  <2> QED BY <1>2, <2>3, <2>4
<1>18. CASE MoveToReady
  <2>1. /\ UNCHANGED <<pending, sent, granted, removed, pc>> /\ mutex = "free"
        /\ InsertReady(reader.channel) /\ reader.channel \in Channels
    BY <1>18 DEF MoveToReady, channelVars, TypeOK
  <2>2. pc' # "after"
    BY <2>1 DEF MutexInv
  <2>3. \A d \in Channels : d # reader.channel => ~Waking(d)
    BY DEF Waking
  <2> QED BY <1>13, <2>1, <2>2, <2>3
<1>19. ASSUME NEW c \in Channels, RemoveChannel(c) PROVE SendableIsReady' /\ AfterInv'
  <2>1. /\ UNCHANGED <<pending, sent, granted, ready, reader, stale, pc, was_stalled, cur>>
        /\ removed' = [removed EXCEPT ![c] = TRUE]
    BY <1>19 DEF RemoveChannel, threadVars
  <2>2. \A d \in Channels : removed[d] => removed'[d]
    BY <2>1 DEF TypeOK
  <2> QED BY <1>3, <1>4, <2>1, <2>2
<1>20. CASE BreakConnection \/ Stop \/ Quiet \/ UNCHANGED vars
  <2>1. UNCHANGED <<pending, sent, granted, ready, reader, stale, removed, pc, was_stalled, cur>>
    BY <1>20 DEF BreakConnection, Stop, Quiet, vars, channelVars, threadVars
  <2> QED BY <1>3, <1>4, <2>1
<1> QED BY <1>6, <1>7, <1>8, <1>9, <1>10, <1>11, <1>12, <1>14, <1>15, <1>16, <1>17, <1>18, <1>19, <1>20
           DEF Next, Sequence

-----------------------------------------------------------------------------
(* The invariant and the theorems *)

\* Only a round that finds no size for its frame reports one, and no round does.
LEMMA WrongSizeStep == TypeOK /\ CreditInv /\ MessageInv /\ NeverWrongSize /\ [Next]_vars => NeverWrongSize'
<1> SUFFICES ASSUME TypeOK, CreditInv, MessageInv, NeverWrongSize, [Next]_vars PROVE wrong_size' = wrong_size
  BY DEF NeverWrongSize
<1>1. CASE Build
  BY <1>1, BuildFacts DEF NoFrame, Framed, PutAside
<1>2. CASE Wake \/ EndPass \/ SendFrame \/ Relock \/ AfterRound
  BY <1>2 DEF Wake, EndPass, SendFrame, Relock, AfterRound
<1>3. ASSUME NEW c \in Channels, Visit(c) \/ Send(c) \/ QueuePending(c) \/ Pause(c)
      PROVE  wrong_size' = wrong_size
  BY <1>3 DEF Visit, Dropped, Send, AddChannel, QueuePending, Pause
<1>4. ASSUME NEW c \in Channels, ApplySeq(c) \/ RemoveChannel(c) PROVE wrong_size' = wrong_size
  BY <1>4 DEF ApplySeq, RemoveChannel
<1>5. CASE CheckPending \/ MoveToReady \/ BreakConnection \/ Stop \/ Quiet \/ UNCHANGED vars
  BY <1>5 DEF CheckPending, MoveToReady, BreakConnection, Stop, Quiet, vars
<1> QED BY <1>1, <1>2, <1>3, <1>4, <1>5 DEF Next, Sequence

\* The conjunction of the parts holds at the start ...
LEMMA InvariantStart == Init => IInv
<1> SUFFICES ASSUME Init PROVE IInv
  OBVIOUS
<1>1. TypeOK
  BY TypeStart
<1>2. MutexInv /\ NeverWrongSize /\ AfterInv
  BY DEF Init, MutexInv, NeverWrongSize, AfterInv, Nothing
<1>3. CreditInv
  BY SequencerAssumption DEF Init, CreditInv
<1>4. MessageInv
  BY DEF Init, MessageInv, Nothing
<1>5. SendableIsReady
  BY DEF Init, SendableIsReady
<1> QED BY <1>1, <1>2, <1>3, <1>4, <1>5 DEF IInv

\* ... every step keeps it ...
LEMMA InvariantStep == IInv /\ [Next]_vars => IInv'
BY TypeStep, MutexStep, CreditStep, MessageStep, ReadyStep, WrongSizeStep DEF IInv

\* ... and so it always holds.
LEMMA Invariant == Spec => []IInv
BY InvariantStart, InvariantStep, PTL DEF Spec

\* The shapes of the C fields and locals are kept, for any number of channels, any sizes
\* and any windows.
THEOREM Types == Spec => []TypeOK
<1>1. IInv => TypeOK
  BY DEF IInv
<1> QED BY <1>1, Invariant, PTL

\* No round reports a wrong size and shuts the connection down
\* (vortex_sequencer_build_packet_to_send).
THEOREM SizesAreRight == Spec => []NeverWrongSize
<1>1. IInv => NeverWrongSize
  BY DEF IInv
<1> QED BY <1>1, Invariant, PTL

\* The peer's window is never exceeded, the frame under way included.
THEOREM WithinCredit == Spec => [](\A c \in Channels : sent[c] <= granted[c])
<1>1. IInv => \A c \in Channels : sent[c] <= granted[c]
  BY DEF IInv, CreditInv
<1> QED BY <1>1, Invariant, PTL

\* A channel with messages and credit is ready, being woken, removed, of a broken connection,
\* or excused by the history (vortex_sequencer_add_channel, vortex_sequencer_process_channels).
THEOREM NobodyForgotten == Spec => []SendableIsReady
<1>1. IInv => SendableIsReady
  BY DEF IInv
<1> QED BY <1>1, Invariant, PTL

-----------------------------------------------------------------------------
(* Each channel sees a frame queue: what is left of a list of messages *)

Part == [no : Nat \ {0}, left : Nat]
Rest(q) == [i \in 1 .. Len(q) |-> [no |-> q[i].no, left |-> q[i].left]]

\* The rest of a list of messages is a list of the parts left of them.
LEMMA RestFacts ==
    ASSUME NEW q \in Seq(Message)
    PROVE  /\ Rest(q) \in Seq(Part) /\ Len(Rest(q)) = Len(q) /\ Len(q) \in Nat
           /\ \A i \in 1 .. Len(q) :
                 /\ Rest(q)[i] = [no |-> q[i].no, left |-> q[i].left] /\ q[i] \in Message
                 /\ Rest(q)[i] \in Part /\ Rest(q)[i].no = q[i].no /\ Rest(q)[i].left = q[i].left
<1>1. Len(q) \in Nat /\ \A i \in 1 .. Len(q) : q[i] \in Message
  BY LenProperties, ElementOfSeq
<1>2. \A i \in 1 .. Len(q) :
         /\ Rest(q)[i] = [no |-> q[i].no, left |-> q[i].left]
         /\ Rest(q)[i] \in Part /\ Rest(q)[i].no = q[i].no /\ Rest(q)[i].left = q[i].left
  BY <1>1 DEF Rest, Part, Message
<1>3. Rest(q) \in [1 .. Len(q) -> Part]
  BY <1>2 DEF Rest
<1>4. Rest(q) \in Seq(Part)
  BY <1>1, <1>3, SeqDef
<1>5. Len(Rest(q)) = Len(q)
  BY <1>1, <1>3, <1>4, LenProperties
<1> QED BY <1>1, <1>2, <1>4, <1>5

\* Two lists that differ in what the rest leaves out have the same rest.
LEMMA RestEqual ==
    ASSUME NEW q \in Seq(Message), NEW r \in Seq(Message), Len(q) = Len(r),
           \A i \in 1 .. Len(q) : q[i].no = r[i].no /\ q[i].left = r[i].left
    PROVE  Rest(q) = Rest(r)
<1>1. \A i \in 1 .. Len(q) : Rest(q)[i] = Rest(r)[i]
  <2>1. \A i \in 1 .. Len(q) : Rest(q)[i] = [no |-> q[i].no, left |-> q[i].left]
    BY RestFacts
  <2>2. \A i \in 1 .. Len(q) : Rest(r)[i] = [no |-> r[i].no, left |-> r[i].left]
    BY RestFacts
  <2> QED BY <2>1, <2>2
<1>2. Len(Rest(q)) = Len(Rest(r)) /\ Rest(q) \in Seq(Part) /\ Rest(r) \in Seq(Part) /\ Len(Rest(q)) = Len(q)
  BY RestFacts
<1> QED BY <1>1, <1>2, SeqEqual

\* The rest of a list after its first message.
LEMMA RestTail ==
    ASSUME NEW q \in Seq(Message), q # <<>>
    PROVE  /\ Rest(q) # <<>> /\ Head(Rest(q)) = Rest(q)[1] /\ 1 \in 1 .. Len(q)
           /\ Tail(Rest(q)) = Rest(Tail(q))
<1>1. Len(q) \in Nat \ {0}
  BY EmptySeq
<1>2. /\ Rest(q) \in Seq(Part) /\ Len(Rest(q)) = Len(q)
      /\ \A i \in 1 .. Len(q) : Rest(q)[i] = [no |-> q[i].no, left |-> q[i].left]
  BY RestFacts
<1>3. Rest(q) # <<>> /\ Head(Rest(q)) = Rest(q)[1] /\ 1 \in 1 .. Len(q)
  BY <1>1, <1>2, EmptySeq
<1>4. /\ Tail(q) \in Seq(Message) /\ Len(Tail(q)) = Len(q) - 1
      /\ \A i \in 1 .. Len(q) - 1 : Tail(q)[i] = q[i + 1]
  BY HeadTailProperties
<1>5. /\ Tail(Rest(q)) \in Seq(Part) /\ Len(Tail(Rest(q))) = Len(q) - 1
      /\ \A i \in 1 .. Len(q) - 1 : Tail(Rest(q))[i] = Rest(q)[i + 1]
  BY <1>2, <1>3, HeadTailProperties
<1>6. /\ Rest(Tail(q)) \in Seq(Part) /\ Len(Rest(Tail(q))) = Len(q) - 1
      /\ \A i \in 1 .. Len(q) - 1 : Rest(Tail(q))[i] = [no |-> Tail(q)[i].no, left |-> Tail(q)[i].left]
  BY <1>4, RestFacts
<1>7. \A i \in 1 .. Len(q) - 1 : i + 1 \in 1 .. Len(q)
  BY <1>1
<1>8. \A i \in 1 .. Len(q) - 1 : Tail(Rest(q))[i] = Rest(Tail(q))[i]
  BY <1>2, <1>4, <1>5, <1>6, <1>7
<1>9. Tail(Rest(q)) = Rest(Tail(q))
  BY <1>5, <1>6, <1>8, SeqEqual
<1> QED BY <1>3, <1>9

\* A message queued is a part put at the end.
LEMMA RestAppend ==
    ASSUME NEW q \in Seq(Message), NEW m \in Message
    PROVE  LET r == Rest(Append(q, m))
           IN  r # <<>> /\ SubSeq(r, 1, Len(r) - 1) = Rest(q) /\ r[Len(r)] \in Part
<1> DEFINE a == Append(q, m)
<1>1. /\ a \in Seq(Message) /\ Len(a) = Len(q) + 1 /\ Len(q) \in Nat
      /\ \A i \in 1 .. Len(q) : a[i] = q[i]
  BY AppendProperties, LenProperties
<1> HIDE DEF a
<1> DEFINE r == Rest(a)
           f == SubSeq(r, 1, Len(r) - 1)
<1>2. /\ r \in Seq(Part) /\ Len(r) = Len(q) + 1
      /\ \A i \in 1 .. Len(q) + 1 : r[i] = [no |-> a[i].no, left |-> a[i].left] /\ r[i] \in Part
  BY <1>1, RestFacts
<1>3. r # <<>> /\ r[Len(r)] \in Part
  BY <1>1, <1>2, EmptySeq
<1>4. /\ Rest(q) \in Seq(Part) /\ Len(Rest(q)) = Len(q)
      /\ \A i \in 1 .. Len(q) : Rest(q)[i] = [no |-> q[i].no, left |-> q[i].left]
  BY RestFacts
<1> HIDE DEF r
<1>5. \A i \in 1 .. Len(q) : r[i] \in Part
  BY <1>1, <1>2
<1>6. 1 \in Int /\ Len(q) \in Int
  BY <1>1
<1>7. /\ SubSeq(r, 1, Len(q)) \in Seq(Part)
      /\ Len(SubSeq(r, 1, Len(q))) = IF 1 <= Len(q) THEN Len(q) - 1 + 1 ELSE 0
      /\ \A i \in 1 .. Len(q) - 1 + 1 : SubSeq(r, 1, Len(q))[i] = r[1 + i - 1]
  BY <1>5, <1>6, SubSeqProperties
<1>8. Len(SubSeq(r, 1, Len(q))) = Len(q) /\ \A i \in 1 .. Len(q) : SubSeq(r, 1, Len(q))[i] = r[i]
  BY <1>1, <1>7
<1>9. \A i \in 1 .. Len(q) : SubSeq(r, 1, Len(q))[i] = Rest(q)[i]
  BY <1>1, <1>2, <1>4, <1>8
<1>10. SubSeq(r, 1, Len(q)) = Rest(q)
  BY <1>4, <1>7, <1>8, <1>9, SeqEqual
<1>11. Len(r) - 1 = Len(q)
  BY <1>1, <1>2
<1> QED BY <1>3, <1>10, <1>11 DEF r, a

\* The list with n octets given back to its first message.
Back(q, n) == [q EXCEPT ![1].left = @ + n]

\* Only the octets left of the first message differ.
LEMMA BackFacts ==
    ASSUME NEW q \in Seq(Message), q # <<>>, NEW n \in Nat
    PROVE  /\ Back(q, n) \in Seq(Message) /\ Back(q, n) # <<>> /\ Len(Back(q, n)) = Len(q)
           /\ Len(q) \in Nat \ {0}
           /\ Back(q, n)[1].no = q[1].no /\ Back(q, n)[1].left = q[1].left + n
           /\ Back(q, n)[1] \in Message /\ q[1] \in Message
           /\ \A i \in 2 .. Len(q) : Back(q, n)[i] = q[i]
<1> DEFINE m == [q[1] EXCEPT !.left = @ + n]
<1>1. Len(q) \in Nat \ {0} /\ DOMAIN q = 1 .. Len(q)
  BY EmptySeq, LenProperties
<1>2. q[1] \in Message
  BY <1>1, ElementOfSeq
<1>3. m \in Message /\ m.no = q[1].no /\ m.left = q[1].left + n
  BY <1>2 DEF Message
<1>4. Back(q, n) = [q EXCEPT ![1] = m]
  BY DEF Back
<1> HIDE DEF m
<1>5. /\ [q EXCEPT ![1] = m] \in Seq(Message) /\ [q EXCEPT ![1] = m] # <<>>
      /\ Len([q EXCEPT ![1] = m]) = Len(q) /\ [q EXCEPT ![1] = m][1] = m
      /\ \A i \in DOMAIN q : i # 1 => [q EXCEPT ![1] = m][i] = q[i]
  BY <1>3, ChangeHead
<1>6. \A i \in 2 .. Len(q) : i \in DOMAIN q /\ i # 1
  BY <1>1
<1> QED BY <1>1, <1>2, <1>3, <1>4, <1>5, <1>6

-----------------------------------------------------------------------------
(* What the messages are while feeders are only paused to be closed *)

\* A feeder paused with close_transfer ends its message; one paused without it is moved
\* away with its message begun, which no frame queue does.
ClosesOnly == CloseTransfer \subseteq {TRUE}

\* The frames of a message follow one another, and its last one carries what is left.
OpenInv ==
    /\ \A c \in Channels : \A i \in DOMAIN pending[c] :
          pending[c][i].status # "go" => pending[c][i].status = "close" /\ TRUE \in CloseTransfer
    /\ \A c \in Channels : open[c] # 0 => pending[c] # <<>> /\ pending[c][1].no = open[c]
    /\ pc \in {"relock", "after"} /\ complete => open[cur] = 0
    /\ pc = "send" /\ complete => pending[cur][1].left = 0 \/ (size = 0 /\ TRUE \in CloseTransfer)

\* What is known of a message under way, and of the statuses in the queues, is kept.
LEMMA OpenStep ==
    ClosesOnly /\ TypeOK /\ CreditInv /\ MessageInv /\ OpenInv /\ [Next]_vars => OpenInv'
<1> SUFFICES ASSUME ClosesOnly, TypeOK, CreditInv, MessageInv, OpenInv, [Next]_vars PROVE OpenInv'
  OBVIOUS
<1>0. cur \in Channels /\ pending \in [Channels -> Seq(Message)] /\ open \in [Channels -> Nat]
  BY DEF TypeOK
<1>p. \A c \in Channels : \A i \in DOMAIN pending[c] :
         pending[c][i].status # "go" => pending[c][i].status = "close" /\ TRUE \in CloseTransfer
  BY DEF OpenInv
<1>1. ASSUME UNCHANGED <<pending, open>>, pc' \notin {"send", "relock", "after"} PROVE OpenInv'
  BY <1>1 DEF OpenInv
<1>2. CASE Wake \/ EndPass
  <2>1. UNCHANGED <<pending, open>> /\ pc' \notin {"send", "relock", "after"}
    BY <1>2 DEF Wake, EndPass, LoopHead, channelVars
  <2> QED BY <1>1, <2>1
<1>3. ASSUME NEW c \in Channels, Visit(c) PROVE OpenInv'
  <2>1. UNCHANGED <<pending, open>> /\ pc' \notin {"send", "relock", "after"}
    BY <1>3 DEF Visit, Dropped, channelVars
  <2> QED BY <1>1, <2>1
<1>4. CASE Build
  <2>0. UNCHANGED <<cur, open>> /\ pc = "build"
    BY <1>4 DEF Build
  <2>1. CASE NoFrame
    BY <2>0, <2>1 DEF NoFrame, OpenInv
  <2>2. CASE PutAside
    <3>1. pending[cur] # <<>> /\ Head(pending[cur]).status = "pause"
      BY <2>2 DEF PutAside
    <3>2. Head(pending[cur]) = pending[cur][1] /\ 1 \in DOMAIN pending[cur]
      BY <1>0, <3>1, HeadFacts
    <3> QED BY <1>0, <3>1, <3>2 DEF OpenInv
  <2>3. ASSUME NEW m \in Message, Framed(m) PROVE OpenInv'
    <3> DEFINE q == [pending[cur] EXCEPT ![1] = m]
    <3>1. pending[cur] # <<>> /\ pending[cur] \in Seq(Message)
      BY <1>0, <2>3 DEF Framed
    <3>2. /\ q # <<>> /\ DOMAIN q = DOMAIN pending[cur] /\ q[1] = m
          /\ \A i \in DOMAIN pending[cur] : i # 1 => q[i] = pending[cur][i]
      BY <3>1, ChangeHead
    <3> HIDE DEF q
    <3>3. pending'[cur] = q /\ \A c \in Channels : c # cur => pending'[c] = pending[c]
      BY <1>0, <2>3 DEF Framed, q
    <3>4. Head(pending[cur]) = pending[cur][1] /\ 1 \in DOMAIN pending[cur]
      BY <1>0, <3>1, HeadFacts
    <3>5. /\ pc' = "send" /\ m.no = pending[cur][1].no
          /\ complete' => m.left = 0 \/ (size' = 0 /\ m.status = "close")
          /\ m.status = pending[cur][1].status \/ \E close \in CloseTransfer : m.status = PauseStatus(close)
      BY <2>3, <3>4 DEF Framed
    <3>6. m.status # "go" => m.status = "close" /\ TRUE \in CloseTransfer
      BY <1>0, <3>4, <3>5 DEF OpenInv, ClosesOnly, PauseStatus
    <3>7. \A c \in Channels : \A i \in DOMAIN pending'[c] :
             pending'[c][i].status # "go" => pending'[c][i].status = "close" /\ TRUE \in CloseTransfer
      <4> SUFFICES ASSUME NEW c \in Channels, NEW i \in DOMAIN pending'[c], pending'[c][i].status # "go"
                   PROVE  pending'[c][i].status = "close" /\ TRUE \in CloseTransfer
        OBVIOUS
      <4>1. CASE c # cur
        BY <1>p, <3>3, <4>1
      <4>2. CASE c = cur /\ i # 1
        BY <1>p, <3>2, <3>3, <4>2
      <4>3. CASE c = cur /\ i = 1
        BY <3>2, <3>3, <3>6, <4>3
      <4> QED BY <4>1, <4>2, <4>3
    <3>8. \A c \in Channels : open'[c] # 0 => pending'[c] # <<>> /\ pending'[c][1].no = open'[c]
      BY <2>0, <3>2, <3>3, <3>5 DEF OpenInv
    <3>9. complete' => pending'[cur'][1].left = 0 \/ (size' = 0 /\ TRUE \in CloseTransfer)
      BY <2>0, <3>2, <3>3, <3>5, <3>6
    <3> QED BY <3>5, <3>7, <3>8, <3>9 DEF OpenInv
  <2> QED BY <1>4, <2>1, <2>2, <2>3, BuildFacts
<1>5. CASE SendFrame
  <2>1. /\ UNCHANGED <<pending, cur, complete>> /\ pc = "send" /\ pc' = "relock"
        /\ open' = [open EXCEPT ![cur] = IF complete THEN 0 ELSE Head(pending[cur]).no]
    BY <1>5 DEF SendFrame
  <2>2. pending[cur] # <<>>
    BY <2>1 DEF MessageInv
  <2>3. Head(pending[cur]) = pending[cur][1]
    BY <1>0, <2>2, HeadFacts
  <2>4. \A c \in Channels : open'[c] # 0 => pending'[c] # <<>> /\ pending'[c][1].no = open'[c]
    BY <1>0, <2>1, <2>2, <2>3 DEF OpenInv
  <2>5. complete' => open'[cur'] = 0
    BY <1>0, <2>1
  <2>6. \A c \in Channels : \A i \in DOMAIN pending'[c] :
           pending'[c][i].status # "go" => pending'[c][i].status = "close" /\ TRUE \in CloseTransfer
    BY <2>1 DEF OpenInv
  <2> QED BY <2>1, <2>4, <2>5, <2>6 DEF OpenInv
<1>6. CASE Relock
  <2>1. UNCHANGED <<pending, cur, complete, open>> /\ pc = "relock" /\ pc' = "after"
    BY <1>6 DEF Relock, channelVars
  <2> QED BY <2>1 DEF OpenInv
<1>7. CASE AfterRound
  <2>1. pc = "after" /\ pc' = "scan" /\ open' = open
    BY <1>7 DEF AfterRound
  <2>2. CASE ~complete
    <3>1. pending' = pending
      BY <1>7, <2>2 DEF AfterRound
    <3> QED BY <1>1, <2>1, <3>1
  <2>3. CASE complete
    <3>1. pending' = [pending EXCEPT ![cur] = Tail(@)] /\ pending[cur] # <<>> /\ open[cur] = 0
      BY <1>7, <2>1, <2>3 DEF AfterRound, MessageInv, OpenInv
    <3>2. \A i \in DOMAIN Tail(pending[cur]) :
             i + 1 \in DOMAIN pending[cur] /\ Tail(pending[cur])[i] = pending[cur][i + 1]
      BY <1>0, <3>1, HeadFacts
    <3>3. pending'[cur] = Tail(pending[cur]) /\ \A c \in Channels : c # cur => pending'[c] = pending[c]
      BY <1>0, <3>1
    <3>4. \A c \in Channels : \A i \in DOMAIN pending'[c] :
             pending'[c][i].status # "go" => pending'[c][i].status = "close" /\ TRUE \in CloseTransfer
      <4> SUFFICES ASSUME NEW c \in Channels, NEW i \in DOMAIN pending'[c], pending'[c][i].status # "go"
                   PROVE  pending'[c][i].status = "close" /\ TRUE \in CloseTransfer
        OBVIOUS
      <4>1. CASE c # cur
        BY <3>3, <4>1 DEF OpenInv
      <4>2. CASE c = cur
        <5>1. i + 1 \in DOMAIN pending[cur] /\ pending'[c][i] = pending[cur][i + 1]
          BY <3>2, <3>3, <4>2
        <5> QED BY <1>0, <1>p, <5>1
      <4> QED BY <4>1, <4>2
    <3>5. \A c \in Channels : open'[c] # 0 => pending'[c] # <<>> /\ pending'[c][1].no = open'[c]
      BY <2>1, <3>1, <3>3 DEF OpenInv
    <3> QED BY <2>1, <3>4, <3>5 DEF OpenInv
  <2> QED BY <2>2, <2>3
<1>8. ASSUME NEW c \in Channels, QueuePending(c) PROVE OpenInv'
  <2> DEFINE m == adding[c].message
             q == Append(pending[c], m)
  <2>1. /\ adding[c].queue /\ pending' = [pending EXCEPT ![c] = q]
        /\ UNCHANGED <<open, pc, cur, complete, size>>
    BY <1>8 DEF QueuePending
  <2>2. m \in Message
    <3>1. adding[c] # Nothing
      BY <2>1 DEF Nothing
    <3> QED BY <3>1 DEF TypeOK
  <2>3. m.status = "go"
    BY <2>1 DEF MessageInv
  <2>4. /\ q # <<>> /\ Len(q) = Len(pending[c]) + 1 /\ q \in Seq(Message)
        /\ \A i \in 1..Len(pending[c]) : q[i] = pending[c][i]
        /\ q[Len(pending[c]) + 1] = m
    BY <1>0, <2>2, AppendProperties
  <2>5. DOMAIN q = 1..(Len(pending[c]) + 1) /\ DOMAIN pending[c] = 1..Len(pending[c]) /\ Len(pending[c]) \in Nat
    BY <1>0, <2>4, LenProperties
  <2> HIDE DEF m, q
  <2>6. pending'[c] = q /\ \A d \in Channels : d # c => pending'[d] = pending[d]
    BY <1>0, <2>1
  <2>7. \A d \in Channels : \A i \in DOMAIN pending'[d] :
           pending'[d][i].status # "go" => pending'[d][i].status = "close" /\ TRUE \in CloseTransfer
    <3> SUFFICES ASSUME NEW d \in Channels, NEW i \in DOMAIN pending'[d], pending'[d][i].status # "go"
                 PROVE  pending'[d][i].status = "close" /\ TRUE \in CloseTransfer
      OBVIOUS
    <3>1. CASE d # c
      BY <2>6, <3>1 DEF OpenInv
    <3>2. CASE d = c
      <4>1. i # Len(pending[c]) + 1
        BY <2>3, <2>4, <2>6, <3>2
      <4>2. i \in DOMAIN pending[c] /\ pending'[d][i] = pending[c][i]
        BY <2>4, <2>5, <2>6, <3>2, <4>1
      <4> QED BY <4>2 DEF OpenInv
    <3> QED BY <3>1, <3>2
  <2>8. \A d \in Channels : pending[d] # <<>> => pending'[d] # <<>> /\ pending'[d][1] = pending[d][1]
    <3>1. pending[c] # <<>> => 1 \in 1..Len(pending[c])
      BY <1>0, <2>5, EmptySeq
    <3> QED BY <2>4, <2>6, <3>1
  <2>9. pc \in {"send", "relock", "after"} /\ complete => pending[cur] # <<>>
    BY DEF MessageInv
  <2>10. \A d \in Channels : open'[d] # 0 => pending'[d] # <<>> /\ pending'[d][1].no = open'[d]
    BY <2>1, <2>8 DEF OpenInv
  <2>11. pc' = "send" /\ complete' => pending'[cur'][1].left = 0 \/ (size' = 0 /\ TRUE \in CloseTransfer)
    BY <1>0, <2>1, <2>8, <2>9 DEF OpenInv
  <2> QED BY <2>1, <2>7, <2>10, <2>11 DEF OpenInv
<1>9. ASSUME NEW c \in Channels, Pause(c) PROVE OpenInv'
  <2>1. PICK i \in DOMAIN pending[c], m \in Message :
           /\ m.fed /\ m.no = pending[c][i].no /\ m.left = pending[c][i].left
           /\ m.status = "close" /\ TRUE \in CloseTransfer
           /\ pending' = [pending EXCEPT ![c] = [pending[c] EXCEPT ![i] = m]]
           /\ [pending[c] EXCEPT ![i] = m] # <<>>
    <3>1. PICK i \in DOMAIN pending[c], m \in Message :
             /\ m.fed /\ m.no = pending[c][i].no /\ m.left = pending[c][i].left
             /\ pending' = [pending EXCEPT ![c] = [pending[c] EXCEPT ![i] = m]]
             /\ [pending[c] EXCEPT ![i] = m] # <<>>
             /\ \E close \in CloseTransfer : m.status = PauseStatus(close)
      BY <1>9, PauseFacts
    <3>2. m.status = "close" /\ TRUE \in CloseTransfer
      BY <3>1 DEF ClosesOnly, PauseStatus
    <3> QED BY <3>1, <3>2
  <2>2. UNCHANGED <<open, pc, cur, complete, size>>
    BY <1>9 DEF Pause, threadVars, channelVars
  <2>3. /\ pending'[c] = [pending[c] EXCEPT ![i] = m] /\ pending'[c] # <<>>
        /\ \A d \in Channels : d # c => pending'[d] = pending[d]
    BY <1>0, <2>1
  <2>4. DOMAIN pending'[c] = DOMAIN pending[c] /\ pending'[c][i] = m
        /\ \A j \in DOMAIN pending[c] : j # i => pending'[c][j] = pending[c][j]
    BY <2>1, <2>3
  <2>5. \A d \in Channels : \A j \in DOMAIN pending'[d] :
           pending'[d][j].status # "go" => pending'[d][j].status = "close" /\ TRUE \in CloseTransfer
    <3> SUFFICES ASSUME NEW d \in Channels, NEW j \in DOMAIN pending'[d], pending'[d][j].status # "go"
                 PROVE  pending'[d][j].status = "close" /\ TRUE \in CloseTransfer
      OBVIOUS
    <3>1. CASE d # c
      BY <1>p, <2>3, <3>1
    <3>2. CASE d = c /\ j # i
      BY <1>p, <2>4, <3>2
    <3>3. CASE d = c /\ j = i
      BY <2>1, <2>4, <3>3
    <3> QED BY <3>1, <3>2, <3>3
  <2>6. \A d \in Channels : pending[d] # <<>> =>
           /\ pending'[d] # <<>> /\ pending'[d][1].no = pending[d][1].no
           /\ pending'[d][1].left = pending[d][1].left
    <3>1. pending[c] # <<>> => 1 \in DOMAIN pending[c]
      BY HeadFacts
    <3> QED BY <2>1, <2>3, <2>4, <3>1
  <2>7. pc \in {"send", "relock", "after"} /\ complete => pending[cur] # <<>>
    BY DEF MessageInv
  <2>8. \A d \in Channels : open'[d] # 0 => pending'[d] # <<>> /\ pending'[d][1].no = open'[d]
    BY <2>2, <2>6 DEF OpenInv
  <2>9. pc' = "send" /\ complete' => pending'[cur'][1].left = 0 \/ (size' = 0 /\ TRUE \in CloseTransfer)
    BY <1>0, <2>2, <2>6, <2>7 DEF OpenInv
  <2> QED BY <2>2, <2>5, <2>8, <2>9 DEF OpenInv
<1>10. ASSUME UNCHANGED <<pending, open, pc, cur, complete, size>> PROVE OpenInv'
  BY <1>10 DEF OpenInv
<1>11. ASSUME NEW c \in Channels, Send(c) \/ ApplySeq(c) \/ RemoveChannel(c) PROVE OpenInv'
  <2>1. UNCHANGED <<pending, open, pc, cur, complete, size>>
    BY <1>11 DEF Send, AddChannel, ApplySeq, RemoveChannel, threadVars
  <2> QED BY <1>10, <2>1
<1>12. CASE CheckPending \/ MoveToReady \/ BreakConnection \/ Stop \/ Quiet \/ UNCHANGED vars
  <2>1. UNCHANGED <<pending, open, pc, cur, complete, size>>
    BY <1>12 DEF CheckPending, MoveToReady, BreakConnection, Stop, Quiet, vars, channelVars, threadVars
  <2> QED BY <1>10, <2>1
<1> QED BY <1>2, <1>3, <1>4, <1>5, <1>6, <1>7, <1>8, <1>9, <1>11, <1>12 DEF Next, Sequence

-----------------------------------------------------------------------------
(* Each channel sees a frame queue: the steps *)

\* Lists whose messages have the same numbers and octets left have the same rests.
Alike(q, r) == Len(q) = Len(r) /\ \A i \in 1 .. Len(q) : q[i].no = r[i].no /\ q[i].left = r[i].left

\* They have them as well when octets are given back or the first is taken.
LEMMA AlikeRests ==
    ASSUME NEW q \in Seq(Message), NEW r \in Seq(Message), Alike(q, r), q # <<>>, NEW n \in Nat
    PROVE  Rest(q) = Rest(r) /\ Rest(Back(q, n)) = Rest(Back(r, n)) /\ Rest(Tail(q)) = Rest(Tail(r))
<1>1. Len(q) = Len(r) /\ Len(q) \in Nat \ {0} /\ \A i \in 1 .. Len(q) : q[i].no = r[i].no /\ q[i].left = r[i].left
  BY EmptySeq DEF Alike
<1>2. r # <<>>
  BY <1>1, EmptySeq
<1>3. Rest(q) = Rest(r)
  BY <1>1, RestEqual
<1>4. Rest(Back(q, n)) = Rest(Back(r, n))
  <2>1. /\ Back(q, n) \in Seq(Message) /\ Len(Back(q, n)) = Len(q)
        /\ Back(q, n)[1].no = q[1].no /\ Back(q, n)[1].left = q[1].left + n
        /\ \A i \in 2 .. Len(q) : Back(q, n)[i] = q[i]
    BY BackFacts
  <2>2. /\ Back(r, n) \in Seq(Message) /\ Len(Back(r, n)) = Len(r)
        /\ Back(r, n)[1].no = r[1].no /\ Back(r, n)[1].left = r[1].left + n
        /\ \A i \in 2 .. Len(r) : Back(r, n)[i] = r[i]
    BY <1>2, BackFacts
  <2>3. \A i \in 1 .. Len(q) : i = 1 \/ i \in 2 .. Len(q)
    BY <1>1
  <2>4. 1 \in 1 .. Len(q)
    BY <1>1
  <2>5. \A i \in 1 .. Len(q) : Back(q, n)[i].no = Back(r, n)[i].no /\ Back(q, n)[i].left = Back(r, n)[i].left
    <3> SUFFICES ASSUME NEW i \in 1 .. Len(q)
                 PROVE  Back(q, n)[i].no = Back(r, n)[i].no /\ Back(q, n)[i].left = Back(r, n)[i].left
      OBVIOUS
    <3>1. CASE i = 1
      BY <1>1, <2>1, <2>2, <2>4, <3>1
    <3>2. CASE i \in 2 .. Len(q)
      BY <1>1, <2>1, <2>2, <3>2
    <3> QED BY <2>3, <3>1, <3>2
  <2> QED BY <1>1, <2>1, <2>2, <2>5, RestEqual
<1>5. Rest(Tail(q)) = Rest(Tail(r))
  <2>1. /\ Tail(q) \in Seq(Message) /\ Len(Tail(q)) = Len(q) - 1
        /\ \A i \in 1 .. Len(Tail(q)) : Tail(q)[i] = q[i + 1]
    BY <1>1, HeadTailProperties
  <2>2. /\ Tail(r) \in Seq(Message) /\ Len(Tail(r)) = Len(r) - 1
        /\ \A i \in 1 .. Len(Tail(r)) : Tail(r)[i] = r[i + 1]
    BY <1>2, HeadTailProperties
  <2>3. \A i \in 1 .. Len(Tail(q)) : i + 1 \in 1 .. Len(q)
    BY <1>1, <2>1
  <2>4. \A i \in 1 .. Len(Tail(q)) : Tail(q)[i].no = Tail(r)[i].no /\ Tail(q)[i].left = Tail(r)[i].left
    BY <1>1, <2>1, <2>2, <2>3
  <2> QED BY <1>1, <2>1, <2>2, <2>4, RestEqual
<1> QED BY <1>3, <1>4, <1>5

\* A message put at the end does not disturb the first one.
LEMMA AppendLeft ==
    ASSUME NEW q \in Seq(Message), q # <<>>, NEW m \in Message, NEW n \in Nat
    PROVE  Back(Append(q, m), n) = Append(Back(q, n), m) /\ Tail(Append(q, m)) = Append(Tail(q), m)
<1> DEFINE a == Append(q, m)
<1>1. /\ a \in Seq(Message) /\ a # <<>> /\ Len(a) = Len(q) + 1 /\ Len(q) \in Nat \ {0}
      /\ \A i \in 1 .. Len(q) : a[i] = q[i]
      /\ a[Len(q) + 1] = m
  BY AppendProperties, EmptySeq
<1> HIDE DEF a
<1>2. Back(a, n) = Append(Back(q, n), m)
  <2>1. /\ Back(q, n) \in Seq(Message) /\ Len(Back(q, n)) = Len(q) /\ \A i \in 2 .. Len(q) : Back(q, n)[i] = q[i]
    BY BackFacts
  <2>2. /\ Append(Back(q, n), m) \in Seq(Message) /\ Len(Append(Back(q, n), m)) = Len(q) + 1
        /\ \A i \in 1 .. Len(q) : Append(Back(q, n), m)[i] = Back(q, n)[i]
        /\ Append(Back(q, n), m)[Len(q) + 1] = m
    BY <2>1, AppendProperties
  <2>3. /\ Back(a, n) \in Seq(Message) /\ Len(Back(a, n)) = Len(q) + 1
        /\ \A i \in 2 .. Len(q) + 1 : Back(a, n)[i] = a[i]
    BY <1>1, BackFacts
  <2>4. Back(a, n)[1] = Back(q, n)[1]
    <3>1. 1 \in DOMAIN a /\ 1 \in DOMAIN q /\ a[1] = q[1]
      BY <1>1, LenProperties
    <3> QED BY <3>1 DEF Back
  <2>5. \A i \in 1 .. Len(q) + 1 : i = 1 \/ i \in 2 .. Len(q) \/ i = Len(q) + 1
    BY <1>1
  <2>6. 1 \in 1 .. Len(q) /\ Len(q) + 1 \in 2 .. Len(q) + 1 /\ \A i \in 2 .. Len(q) : i \in 1 .. Len(q) /\ i \in 2 .. Len(q) + 1
    BY <1>1
  <2>7. \A i \in 1 .. Len(q) + 1 : Back(a, n)[i] = Append(Back(q, n), m)[i]
    <3> SUFFICES ASSUME NEW i \in 1 .. Len(q) + 1 PROVE Back(a, n)[i] = Append(Back(q, n), m)[i]
      OBVIOUS
    <3>1. CASE i = 1
      BY <2>2, <2>4, <2>6, <3>1
    <3>2. CASE i \in 2 .. Len(q)
      BY <1>1, <2>1, <2>2, <2>3, <2>6, <3>2
    <3>3. CASE i = Len(q) + 1
      BY <1>1, <2>2, <2>3, <2>6, <3>3
    <3> QED BY <2>5, <3>1, <3>2, <3>3
  <2> QED BY <2>2, <2>3, <2>7, SeqEqual
<1>3. Tail(a) = Append(Tail(q), m)
  <2>1. /\ Tail(q) \in Seq(Message) /\ Len(Tail(q)) = Len(q) - 1
        /\ \A i \in 1 .. Len(q) - 1 : Tail(q)[i] = q[i + 1]
    BY HeadTailProperties
  <2>2. /\ Append(Tail(q), m) \in Seq(Message) /\ Len(Append(Tail(q), m)) = Len(q) - 1 + 1
        /\ \A i \in 1 .. Len(q) - 1 : Append(Tail(q), m)[i] = Tail(q)[i]
        /\ Append(Tail(q), m)[Len(q) - 1 + 1] = m
    BY <2>1, AppendProperties
  <2>3. /\ Tail(a) \in Seq(Message) /\ Len(Tail(a)) = Len(q) + 1 - 1
        /\ \A i \in 1 .. Len(q) + 1 - 1 : Tail(a)[i] = a[i + 1]
    BY <1>1, HeadTailProperties
  <2>4. Len(q) - 1 + 1 = Len(q) /\ Len(q) + 1 - 1 = Len(q)
    BY <1>1
  <2>5. \A i \in 1 .. Len(q) : i = Len(q) \/ (i \in 1 .. Len(q) - 1 /\ i + 1 \in 1 .. Len(q))
    BY <1>1
  <2>6. \A i \in 1 .. Len(q) : Tail(a)[i] = Append(Tail(q), m)[i]
    <3> SUFFICES ASSUME NEW i \in 1 .. Len(q) PROVE Tail(a)[i] = Append(Tail(q), m)[i]
      OBVIOUS
    <3>1. CASE i = Len(q)
      BY <1>1, <2>2, <2>3, <2>4, <3>1
    <3>2. CASE i \in 1 .. Len(q) - 1 /\ i + 1 \in 1 .. Len(q)
      BY <1>1, <2>1, <2>2, <2>3, <2>4, <3>2
    <3> QED BY <2>5, <3>1, <3>2
  <2> QED BY <2>2, <2>3, <2>4, <2>6, SeqEqual
<1> QED BY <1>2, <1>3 DEF a

\* The list behind NotSent: of the message of a round, what its frame does not carry is
\* left, and the frame itself until it is sent.
Left(c) ==
    IF ~InRound(c) THEN pending[c]
    ELSE IF pc = "send" THEN Back(pending[c], size)
    ELSE IF complete THEN Tail(pending[c])
    ELSE pending[c]

\* What the frame queue calls not sent is the rest of the list above.
LEMMA LeftIs == \A c \in Channels : NotSent(c) = Rest(Left(c)) /\ NotSent(c)' = Rest(Left(c)')
BY DEF NotSent, Left, Rest, Back, InRound

\* What a step is to the frame queue of a channel.
QueueStep(c) == Queue(c)!QueueNext \/ UNCHANGED Queue(c)!output

\* A step that changes nothing of what a channel shows stutters.
LEMMA QueueSame ==
    ASSUME NEW c \in Channels, Rest(Left(c)') = Rest(Left(c)),
           sent'[c] = sent[c], granted'[c] = granted[c], open'[c] = open[c]
    PROVE  QueueStep(c)
BY LeftIs DEF QueueStep, Queue!output

\* Sending a frame is the frame queue's.
LEMMA QueueEmit ==
    ASSUME ClosesOnly, TypeOK, CreditInv, MessageInv, OpenInv, SendFrame, NEW c \in Channels
    PROVE  QueueStep(c)
<1>0. cur \in Channels /\ pending \in [Channels -> Seq(Message)] /\ pending[cur] \in Seq(Message) /\ size \in Nat
  BY DEF TypeOK
<1>1. /\ UNCHANGED <<pending, granted, cur, size, complete>> /\ pc = "send" /\ pc' = "relock"
      /\ sent' = [sent EXCEPT ![cur] = @ + size]
      /\ open' = [open EXCEPT ![cur] = IF complete THEN 0 ELSE Head(pending[cur]).no]
  BY DEF SendFrame
<1>2. CASE c # cur
  <2>1. Left(c)' = Left(c)
    BY <1>1, <1>2 DEF Left, InRound
  <2>2. sent'[c] = sent[c] /\ granted'[c] = granted[c] /\ open'[c] = open[c]
    BY <1>1, <1>2 DEF TypeOK
  <2> QED BY <2>1, <2>2, QueueSame
<1>3. CASE c = cur
  <2> DEFINE p == pending[cur]
             q == Back(p, size)
  <2>1. p # <<>> /\ p \in Seq(Message) /\ Head(p) = p[1]
    BY <1>0, <1>1, HeadFacts DEF MessageInv
  <2>2. /\ q \in Seq(Message) /\ q # <<>> /\ Len(q) = Len(p) /\ Len(p) \in Nat \ {0}
        /\ q[1].no = p[1].no /\ q[1].left = p[1].left + size /\ q[1] \in Message /\ p[1] \in Message
        /\ \A i \in 2 .. Len(p) : q[i] = p[i]
    BY <1>0, <2>1, BackFacts
  <2>3. NotSent(c) = Rest(q) /\ NotSent(c)' = IF complete THEN Rest(Tail(p)) ELSE Rest(p)
    BY <1>1, <1>3, LeftIs DEF Left, InRound
  <2>4. /\ sent'[c] = sent[c] + size /\ granted'[c] = granted[c]
        /\ open'[c] = IF complete THEN 0 ELSE p[1].no
        /\ sent[c] \in Nat /\ granted[c] \in Nat /\ sent[c] + size <= granted[c]
    BY <1>0, <1>1, <1>3, <2>1 DEF TypeOK, CreditInv
  <2>5. open[c] \in {0, p[1].no}
    BY <1>0, <1>3 DEF OpenInv
  <2>6. complete => p[1].left = 0 \/ (size = 0 /\ TRUE \in CloseTransfer)
    BY <1>1 DEF OpenInv
  <2> HIDE DEF p, q
  <2>7. /\ Rest(q) # <<>> /\ Head(Rest(q)) = Rest(q)[1] /\ 1 \in 1 .. Len(q)
        /\ Tail(Rest(q)) = Rest(Tail(q))
    BY <2>2, RestTail
  <2>8. /\ Rest(q) \in Seq(Part) /\ Len(Rest(q)) = Len(q)
        /\ \A i \in 1 .. Len(q) : Rest(q)[i] = [no |-> q[i].no, left |-> q[i].left]
    BY <2>2, RestFacts
  <2>9. Rest(q)[1] = [no |-> p[1].no, left |-> p[1].left + size]
    BY <2>2, <2>7, <2>8
  <2> DEFINE m == Head(Rest(q))
  <2>10. m.no = p[1].no /\ m.left = p[1].left + size /\ p[1].left \in Nat /\ p[1].no \in Nat
    BY <2>2, <2>7, <2>9 DEF Message
  <2>11. size \in 0 .. m.left
    BY <1>0, <2>10
  <2>12. sent'[c] - sent[c] = size /\ sent'[c] <= granted[c]
    BY <1>0, <2>4
  <2>13. Tail(Rest(q)) = Rest(Tail(p))
    <3>1. /\ Tail(p) \in Seq(Message) /\ Len(Tail(p)) = Len(p) - 1
          /\ \A i \in 1 .. Len(p) - 1 : Tail(p)[i] = p[i + 1]
      BY <2>1, HeadTailProperties
    <3>2. /\ Tail(q) \in Seq(Message) /\ Len(Tail(q)) = Len(p) - 1
          /\ \A i \in 1 .. Len(p) - 1 : Tail(q)[i] = q[i + 1]
      BY <2>2, HeadTailProperties
    <3>3. \A i \in 1 .. Len(p) - 1 : i + 1 \in 2 .. Len(p)
      BY <2>2
    <3>4. \A i \in 1 .. Len(p) - 1 : Tail(p)[i] = Tail(q)[i]
      BY <2>2, <3>1, <3>2, <3>3
    <3>5. Tail(p) = Tail(q)
      BY <3>1, <3>2, <3>4, SeqEqual
    <3> QED BY <2>7, <3>5
  <2>14. Rest(p) = [Rest(q) EXCEPT ![1].left = @ - size]
    <3> DEFINE e == [Rest(q)[1] EXCEPT !.left = @ - size]
    <3>1. e = [no |-> p[1].no, left |-> p[1].left]
      BY <1>0, <2>9, <2>10
    <3>2. Rest(p) \in Seq(Part) /\ Len(Rest(p)) = Len(p)
          /\ \A i \in 1 .. Len(p) : Rest(p)[i] = [no |-> p[i].no, left |-> p[i].left] /\ Rest(p)[i] \in Part
      BY <2>1, RestFacts
    <3> HIDE DEF e
    <3>3. e = Rest(p)[1] /\ e \in Part
      BY <2>2, <2>7, <3>1, <3>2
    <3>4. [Rest(q) EXCEPT ![1].left = @ - size] = [Rest(q) EXCEPT ![1] = e]
      BY DEF e
    <3>5. /\ [Rest(q) EXCEPT ![1] = e] \in Seq(Part) /\ Len([Rest(q) EXCEPT ![1] = e]) = Len(q)
          /\ \A i \in 1 .. Len(q) : [Rest(q) EXCEPT ![1] = e][i] = IF i = 1 THEN e ELSE Rest(q)[i]
      BY <2>7, <2>8, <3>3, ExceptSeq
    <3>6. \A i \in 1 .. Len(p) : i = 1 \/ i \in 2 .. Len(p)
      BY <2>2
    <3>7. \A i \in 1 .. Len(p) : [Rest(q) EXCEPT ![1] = e][i] = Rest(p)[i]
      <4> SUFFICES ASSUME NEW i \in 1 .. Len(p) PROVE [Rest(q) EXCEPT ![1] = e][i] = Rest(p)[i]
        OBVIOUS
      <4>1. CASE i = 1
        BY <2>2, <3>3, <3>5, <4>1
      <4>2. CASE i # 1
        BY <2>2, <2>8, <3>2, <3>5, <3>6, <4>2
      <4> QED BY <4>1, <4>2
    <3>8. Rest(p) = [Rest(q) EXCEPT ![1] = e]
      BY <2>2, <3>2, <3>5, <3>7, SeqEqual
    <3> QED BY <3>4, <3>8
  <2> HIDE DEF m
  <2>15. CASE complete
    <3>1. open'[c] = 0 /\ NotSent(c)' = Tail(NotSent(c))
      BY <2>3, <2>4, <2>13, <2>15
    <3>2. size = m.left \/ (TRUE \in CloseTransfer /\ size = 0)
      <4>1. p[1].left = 0 => size = m.left
        BY <1>0, <2>10
      <4>2. p[1].left = 0 \/ (size = 0 /\ TRUE \in CloseTransfer)
        BY <2>6, <2>15
      <4> QED BY <4>1, <4>2
    <3>3. /\ NotSent(c) # <<>> /\ open[c] \in {0, Head(NotSent(c)).no}
          /\ sent'[c] - sent[c] \in 0 .. Head(NotSent(c)).left /\ sent'[c] <= granted[c]
          /\ open'[c] = 0
          /\ sent'[c] - sent[c] = Head(NotSent(c)).left \/ (TRUE \in CloseTransfer /\ sent'[c] - sent[c] = 0)
          /\ NotSent(c)' = Tail(NotSent(c)) /\ granted'[c] = granted[c]
      BY <2>3, <2>4, <2>5, <2>7, <2>10, <2>11, <2>12, <3>1, <3>2 DEF m
    <3>4. Queue(c)!Emit
      BY <3>3 DEF Queue!Emit
    <3> QED BY <3>4 DEF QueueStep, Queue!QueueNext
  <2>16. CASE ~complete
    <3>1. NotSent(c)' = [NotSent(c) EXCEPT ![1].left = @ - (sent'[c] - sent[c])]
      BY <2>3, <2>12, <2>14, <2>16
    <3>2. /\ NotSent(c) # <<>> /\ open[c] \in {0, Head(NotSent(c)).no}
          /\ sent'[c] - sent[c] \in 0 .. Head(NotSent(c)).left /\ sent'[c] <= granted[c]
          /\ open'[c] = Head(NotSent(c)).no /\ granted'[c] = granted[c]
      BY <2>3, <2>4, <2>5, <2>7, <2>10, <2>11, <2>12, <2>16 DEF m
    <3>3. Queue(c)!Emit
      BY <3>1, <3>2 DEF Queue!Emit
    <3> QED BY <3>3 DEF QueueStep, Queue!QueueNext
  <2> QED BY <2>15, <2>16
<1> QED BY <1>2, <1>3

\* Queueing a message is a put, in the middle of a round too.
LEMMA QueuePut ==
    ASSUME TypeOK, MessageInv, NEW d \in Channels, QueuePending(d), NEW c \in Channels
    PROVE  QueueStep(c)
<1> DEFINE m == adding[d].message
<1>1. /\ adding[d].queue /\ pending' = [pending EXCEPT ![d] = Append(@, m)]
      /\ UNCHANGED <<sent, granted, open, pc, cur, complete, size>>
  BY DEF QueuePending
<1>2. m \in Message
  <2>1. adding[d] # Nothing
    BY <1>1 DEF Nothing
  <2> QED BY <2>1 DEF TypeOK
<1>3. pending \in [Channels -> Seq(Message)] /\ cur \in Channels /\ size \in Nat
  BY DEF TypeOK
<1> HIDE DEF m
<1>4. CASE c # d
  <2>1. Left(c)' = Left(c)
    BY <1>1, <1>3, <1>4 DEF Left, InRound
  <2> QED BY <1>1, <2>1, QueueSame
<1>5. CASE c = d
  <2>1. pending'[c] = Append(pending[c], m) /\ pending[c] \in Seq(Message)
    BY <1>1, <1>3, <1>5
  <2>2. InRound(c) /\ (pc = "send" \/ complete) => pending[c] # <<>>
    BY DEF InRound, MessageInv
  <2>3. Left(c) \in Seq(Message) /\ Left(c)' = Append(Left(c), m)
    <3>1. CASE ~InRound(c) \/ (pc # "send" /\ ~complete)
      BY <1>1, <2>1, <3>1 DEF Left, InRound
    <3>2. CASE InRound(c) /\ pc = "send"
      <4>1. Left(c) = Back(pending[c], size) /\ Left(c)' = Back(Append(pending[c], m), size)
        BY <1>1, <2>1, <3>2 DEF Left, InRound
      <4> QED BY <1>2, <1>3, <2>1, <2>2, <3>2, <4>1, BackFacts, AppendLeft
    <3>3. CASE InRound(c) /\ pc # "send" /\ complete
      <4>1. Left(c) = Tail(pending[c]) /\ Left(c)' = Tail(Append(pending[c], m))
        BY <1>1, <2>1, <3>3 DEF Left, InRound
      <4>2. Tail(pending[c]) \in Seq(Message)
        BY <2>1, <2>2, <3>3, HeadTailProperties
      <4> QED BY <1>2, <1>3, <2>1, <2>2, <3>3, <4>1, <4>2, AppendLeft
    <3> QED BY <3>1, <3>2, <3>3
  <2>4. /\ NotSent(c)' # <<>> /\ SubSeq(NotSent(c)', 1, Len(NotSent(c)') - 1) = NotSent(c)
        /\ NotSent(c)'[Len(NotSent(c)')] \in [no : Nat \ {0}, left : Nat]
    <3>1. NotSent(c)' = Rest(Append(Left(c), m)) /\ NotSent(c) = Rest(Left(c))
      BY <2>3, LeftIs
    <3>2. LET r == Rest(Append(Left(c), m))
          IN  r # <<>> /\ SubSeq(r, 1, Len(r) - 1) = Rest(Left(c)) /\ r[Len(r)] \in Part
      BY <1>2, <2>3, RestAppend
    <3> QED BY <3>1, <3>2 DEF Part
  <2>5. UNCHANGED <<sent[c], granted[c], open[c]>>
    BY <1>1, <1>5
  <2>6. Queue(c)!Put
    BY <2>4, <2>5 DEF Queue!Put
  <2> QED BY <2>6 DEF QueueStep, Queue!QueueNext
<1> QED BY <1>4, <1>5

\* Pausing a feeder changes no number and no octet.
LEMMA QueuePause ==
    ASSUME TypeOK, MessageInv, NEW d \in Channels, Pause(d), NEW c \in Channels
    PROVE  QueueStep(c)
<1>1. UNCHANGED <<sent, granted, open, pc, cur, complete, size>>
  BY DEF Pause, threadVars
<1>2. PICK i \in DOMAIN pending[d], m \in Message :
         /\ m.fed /\ m.no = pending[d][i].no /\ m.left = pending[d][i].left
         /\ pending' = [pending EXCEPT ![d] = [pending[d] EXCEPT ![i] = m]]
         /\ [pending[d] EXCEPT ![i] = m] \in Seq(Message)
         /\ Len([pending[d] EXCEPT ![i] = m]) = Len(pending[d])
         /\ pending[d] # <<>>
  BY PauseFacts
<1>3. pending \in [Channels -> Seq(Message)] /\ cur \in Channels /\ size \in Nat
  BY DEF TypeOK
<1>4. CASE c # d
  <2>1. Left(c)' = Left(c)
    BY <1>1, <1>2, <1>3, <1>4 DEF Left, InRound
  <2> QED BY <1>1, <2>1, QueueSame
<1>5. CASE c = d
  <2> DEFINE p == pending[d]
             q == [pending[d] EXCEPT ![i] = m]
  <2>1. pending'[c] = q /\ pending[c] = p /\ p \in Seq(Message) /\ q \in Seq(Message) /\ p # <<>> /\ Len(q) = Len(p)
    BY <1>2, <1>3, <1>5
  <2>2. \A j \in 1 .. Len(p) : p[j].no = q[j].no /\ p[j].left = q[j].left
    <3>1. DOMAIN p = 1 .. Len(p)
      BY <2>1, LenProperties
    <3> QED BY <1>2, <3>1
  <2> HIDE DEF p, q
  <2>3. Alike(p, q)
    BY <2>1, <2>2 DEF Alike
  <2>4. Rest(p) = Rest(q) /\ Rest(Back(p, size)) = Rest(Back(q, size)) /\ Rest(Tail(p)) = Rest(Tail(q))
    BY <1>3, <2>1, <2>3, AlikeRests
  <2>5. Rest(Left(c)') = Rest(Left(c))
    <3>1. CASE ~InRound(c) \/ (pc # "send" /\ ~complete)
      <4>1. Left(c)' = q /\ Left(c) = p
        BY <1>1, <2>1, <3>1 DEF Left, InRound
      <4> QED BY <2>4, <4>1
    <3>2. CASE InRound(c) /\ pc = "send"
      <4>1. Left(c)' = Back(q, size) /\ Left(c) = Back(p, size)
        BY <1>1, <2>1, <3>2 DEF Left, InRound
      <4> QED BY <2>4, <4>1
    <3>3. CASE InRound(c) /\ pc # "send" /\ complete
      <4>1. Left(c)' = Tail(q) /\ Left(c) = Tail(p)
        BY <1>1, <2>1, <3>3 DEF Left, InRound
      <4> QED BY <2>4, <4>1
    <3> QED BY <3>1, <3>2, <3>3
  <2> QED BY <1>1, <2>5, QueueSame
<1> QED BY <1>4, <1>5

\* A frame prepared is still with its message.
LEMMA QueueBuild ==
    ASSUME TypeOK, CreditInv, MessageInv, OpenInv, Build, NEW c \in Channels
    PROVE  QueueStep(c)
<1>0. /\ UNCHANGED <<sent, granted, open, cur>> /\ pc = "build"
      /\ cur \in Channels /\ pending \in [Channels -> Seq(Message)]
  BY DEF Build, TypeOK
<1>1. Left(c) = pending[c]
  BY <1>0 DEF Left, InRound
<1>2. CASE NoFrame
  <2>1. Left(c)' = pending[c]
    BY <1>2 DEF NoFrame, Left
  <2> QED BY <1>0, <1>1, <2>1, QueueSame
<1>3. CASE PutAside
  <2>1. pending[cur] # <<>> /\ Head(pending[cur]).status = "pause"
    BY <1>3 DEF PutAside
  <2>2. Head(pending[cur]) = pending[cur][1] /\ 1 \in DOMAIN pending[cur]
    BY <1>0, <2>1, HeadFacts
  <2> QED BY <1>0, <2>1, <2>2 DEF OpenInv
<1>4. ASSUME NEW m \in Message, Framed(m) PROVE QueueStep(c)
  <2>1. /\ pending[cur] # <<>> /\ pending[cur] \in Seq(Message) /\ pc' = "send" /\ size' \in Nat
        /\ pending' = [pending EXCEPT ![cur] = [pending[cur] EXCEPT ![1] = m]]
        /\ m.no = Head(pending[cur]).no /\ m.left = Head(pending[cur]).left - size'
    BY <1>0, <1>4 DEF Framed
  <2>2. CASE c # cur
    <3>1. Left(c)' = pending[c]
      BY <1>0, <2>1, <2>2 DEF Left, InRound
    <3> QED BY <1>0, <1>1, <3>1, QueueSame
  <2>3. CASE c = cur
    <3> DEFINE p == pending[cur]
               q == [p EXCEPT ![1] = m]
    <3>1. /\ q \in Seq(Message) /\ q # <<>> /\ Len(q) = Len(p) /\ DOMAIN q = DOMAIN p /\ q[1] = m
          /\ \A i \in DOMAIN p : i # 1 => q[i] = p[i]
      BY <2>1, ChangeHead
    <3>2. Head(p) = p[1] /\ p[1] \in Message /\ DOMAIN p = 1 .. Len(p) /\ Len(p) \in Nat \ {0}
      BY <1>0, <2>1, HeadFacts
    <3>3. Left(c)' = Back(q, size')
      BY <1>0, <2>1, <2>3 DEF Left, InRound
    <3>4. m.no = p[1].no /\ m.left = p[1].left - size'
      BY <2>1, <3>2
    <3> HIDE DEF p, q
    <3>5. /\ Back(q, size') \in Seq(Message) /\ Len(Back(q, size')) = Len(q)
          /\ Back(q, size')[1].no = q[1].no /\ Back(q, size')[1].left = q[1].left + size'
          /\ \A i \in 2 .. Len(q) : Back(q, size')[i] = q[i]
      BY <2>1, <3>1, BackFacts
    <3>6. m.left + size' = p[1].left
      <4>1. p[1].left \in Nat /\ size' \in Nat
        BY <2>1, <3>2 DEF Message
      <4> QED BY <3>4, <4>1
    <3>7. \A i \in 1 .. Len(p) : Back(q, size')[i].no = p[i].no /\ Back(q, size')[i].left = p[i].left
      <4> SUFFICES ASSUME NEW i \in 1 .. Len(p)
                   PROVE  Back(q, size')[i].no = p[i].no /\ Back(q, size')[i].left = p[i].left
        OBVIOUS
      <4>1. CASE i = 1
        BY <3>1, <3>4, <3>5, <3>6, <4>1
      <4>2. CASE i # 1
        <5>1. i \in 2 .. Len(q) /\ i \in DOMAIN p
          BY <3>1, <3>2, <4>2
        <5> QED BY <3>1, <3>5, <4>2, <5>1
      <4> QED BY <4>1, <4>2
    <3>8. Rest(Back(q, size')) = Rest(p)
      BY <2>1, <3>1, <3>5, <3>7, RestEqual DEF p
    <3>9. Rest(Left(c)') = Rest(Left(c))
      BY <1>1, <2>3, <3>3, <3>8 DEF p
    <3> QED BY <1>0, <3>9, QueueSame
  <2> QED BY <2>2, <2>3
<1> QED BY <1>2, <1>3, <1>4, BuildFacts

\* A step of the program is a step of each frame queue, or none of its.
LEMMA QueueSteps ==
    ASSUME ClosesOnly, TypeOK, CreditInv, MessageInv, OpenInv, [Next]_vars, NEW c \in Channels
    PROVE  QueueStep(c)
<1>0. cur \in Channels /\ pending \in [Channels -> Seq(Message)]
  BY DEF TypeOK
<1>1. ASSUME UNCHANGED <<sent, granted, open, pending>>,
             pc \notin {"send", "relock", "after"}, pc' \notin {"send", "relock", "after"}
      PROVE  QueueStep(c)
  <2>1. Left(c)' = Left(c)
    BY <1>1 DEF Left, InRound
  <2> QED BY <1>1, <2>1, QueueSame
<1>2. CASE Wake \/ EndPass
  <2>1. /\ UNCHANGED <<sent, granted, open, pending>>
        /\ pc \notin {"send", "relock", "after"} /\ pc' \notin {"send", "relock", "after"}
    BY <1>2 DEF Wake, EndPass, LoopHead, channelVars
  <2> QED BY <1>1, <2>1
<1>3. ASSUME NEW d \in Channels, Visit(d) PROVE QueueStep(c)
  <2>1. /\ UNCHANGED <<sent, granted, open, pending>>
        /\ pc \notin {"send", "relock", "after"} /\ pc' \notin {"send", "relock", "after"}
    BY <1>3 DEF Visit, Dropped, channelVars
  <2> QED BY <1>1, <2>1
<1>4. CASE Relock
  <2>1. UNCHANGED <<sent, granted, open, pending, cur, complete>> /\ pc = "relock" /\ pc' = "after"
    BY <1>4 DEF Relock, channelVars
  <2>2. Left(c)' = Left(c)
    BY <2>1 DEF Left, InRound
  <2> QED BY <2>1, <2>2, QueueSame
<1>5. CASE AfterRound
  <2>1. /\ UNCHANGED <<sent, granted, open>> /\ pc = "after" /\ pc' = "scan"
        /\ pending' = IF complete THEN [pending EXCEPT ![cur] = Tail(@)] ELSE pending
    BY <1>5 DEF AfterRound
  <2>2. Left(c)' = pending'[c]
    BY <2>1 DEF Left, InRound
  <2>3. Left(c) = pending'[c]
    BY <1>0, <2>1 DEF Left, InRound
  <2> QED BY <2>1, <2>2, <2>3, QueueSame
<1>6. ASSUME UNCHANGED <<sent, granted, open, pending, pc, cur, complete, size>> PROVE QueueStep(c)
  <2>1. Left(c)' = Left(c)
    BY <1>6 DEF Left, InRound
  <2> QED BY <1>6, <2>1, QueueSame
<1>7. ASSUME NEW d \in Channels, ApplySeq(d) PROVE QueueStep(c)
  <2>1. PICK limit \in granted[d] + 1 .. sent[d] + Window : granted' = [granted EXCEPT ![d] = limit]
    BY <1>7 DEF ApplySeq
  <2>2. UNCHANGED <<sent, open, pending, pc, cur, complete, size>>
    BY <1>7 DEF ApplySeq, threadVars
  <2>3. Left(c)' = Left(c)
    BY <2>2 DEF Left, InRound
  <2>4. CASE c # d
    <3>1. granted'[c] = granted[c]
      BY <2>1, <2>4 DEF TypeOK
    <3> QED BY <2>2, <2>3, <3>1, QueueSame
  <2>5. CASE c = d
    <3>1. granted'[c] > granted[c]
      <4>1. granted[c] \in Nat /\ sent[c] \in Nat /\ Window \in Nat /\ granted'[c] = limit
        BY <2>1, <2>5, SequencerAssumption DEF TypeOK
      <4> QED BY <2>1, <2>5, <4>1
    <3>2. NotSent(c)' = NotSent(c)
      BY <2>3, LeftIs
    <3>3. Queue(c)!Grant
      BY <2>2, <3>1, <3>2 DEF Queue!Grant
    <3> QED BY <3>3 DEF QueueStep, Queue!QueueNext
  <2> QED BY <2>4, <2>5
<1>8. ASSUME NEW d \in Channels, Send(d) \/ RemoveChannel(d) PROVE QueueStep(c)
  <2>1. UNCHANGED <<sent, granted, open, pending, pc, cur, complete, size>>
    BY <1>8 DEF Send, AddChannel, RemoveChannel, threadVars
  <2> QED BY <1>6, <2>1
<1>9. CASE CheckPending \/ MoveToReady \/ BreakConnection \/ Stop \/ Quiet \/ UNCHANGED vars
  <2>1. UNCHANGED <<sent, granted, open, pending, pc, cur, complete, size>>
    BY <1>9 DEF CheckPending, MoveToReady, BreakConnection, Stop, Quiet, vars, channelVars, threadVars
  <2> QED BY <1>6, <2>1
<1> QED BY <1>2, <1>3, <1>4, <1>5, <1>7, <1>8, <1>9, QueueBuild, QueueEmit, QueuePut, QueuePause
        DEF Next, Sequence

\* The octets of every channel leave whole, once, in order and within the credit, whatever
\* the number of channels and threads: the sequencer implements a frame queue for each.
THEOREM EachChannelIsAQueue == ClosesOnly => (Spec => ImplementsQueues)
<1> SUFFICES ASSUME ClosesOnly PROVE Spec => ImplementsQueues
  OBVIOUS
<1>1. Init => \A c \in Channels : Queue(c)!QueueInit
  <2> SUFFICES ASSUME Init, NEW c \in Channels PROVE Queue(c)!QueueInit
    OBVIOUS
  <2>1. Left(c) = <<>> /\ sent[c] = 0 /\ open[c] = 0 /\ granted[c] \in Nat
    BY SequencerAssumption DEF Init, Left, InRound
  <2>2. Rest(<<>>) = <<>>
    <3>1. <<>> \in Seq(Message) /\ Len(<<>>) = 0
      BY EmptySeq
    <3>2. Rest(<<>>) \in Seq(Part) /\ Len(Rest(<<>>)) = 0
      BY <3>1, RestFacts
    <3> QED BY <3>2, EmptySeq
  <2>3. NotSent(c) = <<>>
    BY <2>1, <2>2, LeftIs
  <2> QED BY <2>1, <2>3 DEF Queue!QueueInit
<1>2. Init => IInv /\ OpenInv
  <2>1. Init => OpenInv
    BY DEF Init, OpenInv
  <2> QED BY <2>1, InvariantStart
<1>3. IInv /\ OpenInv /\ [Next]_vars => IInv' /\ OpenInv'
  BY InvariantStep, OpenStep DEF IInv
<1>4. IInv /\ OpenInv /\ [Next]_vars =>
         [\A c \in Channels : Queue(c)!QueueNext \/ UNCHANGED Queue(c)!output]_vars
  BY QueueSteps DEF IInv, QueueStep
<1> QED BY <1>1, <1>2, <1>3, <1>4, PTL DEF Spec, ImplementsQueues

=============================================================================
