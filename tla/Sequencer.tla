----------------------------- MODULE Sequencer -----------------------------
(***************************************************************************)
(* The sequencer: one thread of a context that cuts the messages queued on *)
(* its channels into frames.  Application threads queue messages (one at a *)
(* time on a channel: send_mutex), the reader thread applies the SEQ       *)
(* frames of the peer and wakes the channels they release, and the three   *)
(* meet in the set of ready channels, under the mutex of the sequencer     *)
(* state.  A send round is made with the mutex released.                   *)
(*                                                                         *)
(* Octets are counted from the start of the channel, so the sequence       *)
(* numbers of FlowControl do not wrap here; what the peer grants obeys the *)
(* credit of CreditPipe.  A queued message is a reply (RPY).  One message  *)
(* stands for one element of pending_messages, a feeder's included.        *)
(***************************************************************************)
EXTENDS Integers, Sequences, Functions

CONSTANTS
    Channels, Admin,    \* the channels of a connection, and channel 0
    Sizes,              \* octets of a message
    Feeders,            \* may a message come from a payload feeder (a set of BOOLEANs)
    CloseTransfer,      \* how a feeder may be paused (a set of BOOLEANs)
    Window,             \* octets a peer may grant beyond what it was sent
    MaxFrame,           \* largest frame built: 4096 in the code
    MaxMessages,        \* bound: messages queued on all channels
    MayFail             \* bound: TRUE if one of these happens, once: the connection
                        \* breaks, a channel is removed, the sequencer is stopped

ASSUME SequencerAssumption ==
    /\ Admin \in Channels
    /\ Sizes \subseteq Nat \ {0}
    /\ Feeders \subseteq BOOLEAN /\ CloseTransfer \subseteq BOOLEAN
    /\ Window \in Nat \ {0} /\ MaxFrame \in Nat \ {0} /\ MaxMessages \in Nat
    /\ MayFail \in BOOLEAN

VARIABLES
    \* each channel
    pending,        \* pending_messages
    sent, granted,  \* last_seq_no; remote_consumed_seq_no + remote_window
    removed,        \* the data "vo:seq:del"
    queued,         \* messages handed to the channel so far
    written,        \* last_reply_written
    open,           \* on the wire: the message whose last frame said "more", or 0
    paused_feeds,   \* messages of paused feeders, kept by the application
    \* the shared state
    ready, mutex, exit, conn_ok, wrong_size,
    \* the sequencer thread
    pc, todo, admin_pass, cur, size, complete, paused, was_stalled,
    \* the application thread in vortex_sequencer_add_channel, per channel
    adding,
    \* the reader thread in vortex_sequencer_signal_update
    reader,
    \* history: a message was queued without making its channel ready, on a
    \* reading of "stalled" out of date by then, or the channel was left with
    \* messages because a feeder was paused; and nobody made it ready since
    stale

channelVars == <<pending, sent, granted, removed, queued, written, open, paused_feeds>>
threadVars  == <<pc, todo, admin_pass, cur, size, complete, paused, was_stalled>>
vars == <<channelVars, ready, mutex, exit, conn_ok, wrong_size, threadVars, adding,
          reader, stale>>

-----------------------------------------------------------------------------

\* status: what vortex_payload_feeder_pause left in feeder->status and
\* feeder->close_transfer.
Message == [no : Nat \ {0}, left : Nat, fed : BOOLEAN, status : {"go", "pause", "close"}]

\* Mutant: a spent credit is noticed one octet too late.
LateStalled(c) == sent[c] > granted[c]

\* vortex_channel_is_stalled
Stalled(c) == sent[c] = granted[c]

Least(a, b) == IF a <= b THEN a ELSE b

\* Octets a message asks for.  A file feeder reports more than it has left and
\* is finished when it is read past its end.
Asked(m) == IF m.fed THEN m.left + 1 ELSE m.left

\* vortex_channel_get_next_frame_size, for a message of channel c
FrameSize(c, m) == Least(granted[c] - sent[c], Least(Asked(m), MaxFrame))

Nothing == [queue |-> FALSE]
Idle == [at |-> "idle", channel |-> Admin]

PauseStatus(close) == IF close THEN "close" ELSE "pause"

\* Insertion in the hash while the cursor goes over it: the pass under way may
\* or may not visit the new channel.
InsertReady(c) ==
    /\ ready' = ready \cup {c}
    /\ stale' = [stale EXCEPT ![c] = FALSE]
    /\ IF pc \in {"wait", "done"} \/ c \in ready
       THEN UNCHANGED todo
       ELSE todo' \in {todo, todo \cup {c}}

-----------------------------------------------------------------------------
(* Application threads: vortex_sequencer_queue_data under send_mutex *)

\* The first half of vortex_sequencer_add_channel: the mutex, and whether the
\* channel has to be made ready.  The reader may apply a SEQ frame right after.
AddChannel(c, m) ==
    /\ mutex = "free" /\ ~adding[c].queue
    /\ ~exit /\ conn_ok
    /\ mutex' = "sender"
    /\ adding' = [adding EXCEPT ![c] = [queue |-> TRUE, message |-> m,
                                       insert |-> c \notin ready /\ ~Stalled(c)]]
    /\ UNCHANGED <<pending, sent, granted, removed, written, open, ready, exit,
                   conn_ok, wrong_size, threadVars, reader, stale>>

NewMessages(c) ==
    IF SumFunction(queued) < MaxMessages
    THEN [no : {queued[c] + 1}, left : Sizes, fed : Feeders, status : {"go"}]
    ELSE {}

\* A new message, or a paused feeder sent again with the number it had.
Send(c) ==
    \E m \in NewMessages(c) \cup paused_feeds[c] :
        /\ AddChannel(c, [m EXCEPT !.status = "go"])
        /\ queued' = [queued EXCEPT ![c] = IF m \in paused_feeds[c] THEN @ ELSE m.no]
        /\ paused_feeds' = [paused_feeds EXCEPT ![c] = @ \ {m}]

\* Mutant: the message is queued at the wrong end.
PrependPending(c) ==
    /\ adding[c].queue
    /\ pending' = [pending EXCEPT ![c] = <<adding[c].message>> \o @]
    /\ IF adding[c].insert THEN InsertReady(c) ELSE UNCHANGED <<ready, todo, stale>>
    /\ adding' = [adding EXCEPT ![c] = Nothing]
    /\ mutex' = "free"
    /\ UNCHANGED <<sent, granted, removed, queued, written, open, paused_feeds, exit,
                   conn_ok, wrong_size, pc, admin_pass, cur, size, complete, paused,
                   was_stalled, reader>>

\* The second half: the channel is made ready if it was absent and not stalled
\* when it was looked at, and the message is queued.
QueuePending(c) ==
    /\ adding[c].queue
    /\ pending' = [pending EXCEPT ![c] = Append(@, adding[c].message)]
    /\ IF adding[c].insert
       THEN InsertReady(c)
       ELSE /\ stale' = [stale EXCEPT ![c] = @ \/ (c \notin ready /\ ~Stalled(c))]
            /\ UNCHANGED <<ready, todo>>
    /\ adding' = [adding EXCEPT ![c] = Nothing]
    /\ mutex' = "free"
    /\ UNCHANGED <<sent, granted, removed, queued, written, open, paused_feeds, exit,
                   conn_ok, wrong_size, pc, admin_pass, cur, size, complete, paused,
                   was_stalled, reader>>

\* vortex_payload_feeder_pause, at any time
Pause(c) ==
    /\ \E i \in 1 .. Len(pending[c]), close \in CloseTransfer :
         /\ pending[c][i].fed /\ pending[c][i].status = "go"
         /\ pending' = [pending EXCEPT ![c][i].status = PauseStatus(close)]
    /\ UNCHANGED <<sent, granted, removed, queued, written, open, paused_feeds, ready,
                   mutex, exit, conn_ok, wrong_size, threadVars, adding, reader, stale>>

-----------------------------------------------------------------------------
(* The reader thread, with a SEQ frame *)

\* The window of the channel is updated; vortex_sequencer_signal_update starts.
ApplySeq(c) ==
    /\ reader.at = "idle" /\ conn_ok
    /\ \E limit \in granted[c] + 1 .. sent[c] + Window :
         granted' = [granted EXCEPT ![c] = limit]
    /\ reader' = [at |-> "check", channel |-> c]
    /\ UNCHANGED <<pending, sent, removed, queued, written, open, paused_feeds, ready,
                   mutex, exit, conn_ok, wrong_size, threadVars, adding, stale>>

\* Pending messages are looked for without the mutex of the sequencer.
CheckPending ==
    /\ reader.at = "check"
    /\ reader' = IF pending[reader.channel] = <<>> THEN Idle
                 ELSE [reader EXCEPT !.at = "insert"]
    /\ UNCHANGED <<channelVars, ready, mutex, exit, conn_ok, wrong_size, threadVars,
                   adding, stale>>

\* The channel is made ready, under the mutex.
MoveToReady ==
    /\ reader.at = "insert" /\ mutex = "free"
    /\ InsertReady(reader.channel)
    /\ reader' = Idle
    /\ UNCHANGED <<channelVars, mutex, exit, conn_ok, wrong_size, pc, admin_pass, cur,
                   size, complete, paused, was_stalled, adding>>

-----------------------------------------------------------------------------
(* The sequencer thread *)

\* Head of the loop of __vortex_sequencer_run, the mutex held: wait, finish, or
\* start a pass over the administrative channel.
LoopHead ==
    IF exit THEN pc' = "done" /\ mutex' = "free" /\ UNCHANGED <<todo, admin_pass>>
    ELSE IF ready = {}
         THEN pc' = "wait" /\ mutex' = "free" /\ UNCHANGED <<todo, admin_pass>>
         ELSE /\ pc' = "scan" /\ mutex' = "sequencer"
              /\ todo' = ready /\ admin_pass' = TRUE

\* The wait ends by a signal or by its 10 ms; it goes on if there is no work.
Wake ==
    /\ pc = "wait" /\ mutex = "free" /\ (ready # {} \/ exit)
    /\ LoopHead
    /\ UNCHANGED <<channelVars, ready, exit, conn_ok, wrong_size, cur, size, complete,
                   paused, was_stalled, adding, reader, stale>>

\* Mutant: the second pass is forgotten.
EndOnlyPass ==
    /\ pc = "scan" /\ todo = {}
    /\ LoopHead
    /\ UNCHANGED <<channelVars, ready, exit, conn_ok, wrong_size, cur, size, complete,
                   paused, was_stalled, adding, reader, stale>>

\* The cursor of a pass is at its end.
EndPass ==
    /\ pc = "scan" /\ todo = {}
    /\ IF admin_pass
       THEN admin_pass' = FALSE /\ todo' = ready /\ UNCHANGED <<pc, mutex>>
       ELSE LoopHead
    /\ UNCHANGED <<channelVars, ready, exit, conn_ok, wrong_size, cur, size, complete,
                   paused, was_stalled, adding, reader, stale>>

Dropped(c) == ready' = ready \ {c} /\ todo' = todo \ {c} /\ UNCHANGED <<pc, cur, mutex>>

\* The cursor comes to a channel: dropped, skipped, or given a round with the
\* mutex released.  A broken connection gives no reference for the round
\* (vortex_connection_ref), and its channel is dropped.
Visit(c) ==
    /\ pc = "scan" /\ c \in todo
    /\ IF removed[c] \/ Stalled(c) THEN Dropped(c)
       ELSE IF admin_pass # (c = Admin)
       THEN todo' = todo \ {c} /\ UNCHANGED <<ready, pc, cur, mutex>>
       ELSE IF ~conn_ok THEN Dropped(c)
       ELSE pc' = "build" /\ cur' = c /\ mutex' = "free" /\ UNCHANGED <<ready, todo>>
    /\ UNCHANGED <<channelVars, exit, conn_ok, wrong_size, admin_pass, size, complete,
                   paused, was_stalled, adding, reader, stale>>

\* The frame of n octets (asked for) that m gives is prepared; the message is
\* moved on before the frame is sent.
Prepare(m, n) ==
    LET copied == Least(n, m.left)
    IN  /\ pc' = "send" /\ size' = copied
        /\ complete' = IF m.fed THEN n > m.left ELSE n = m.left
        /\ pending' = [pending EXCEPT ![cur][1].left = @ - copied]
        /\ UNCHANGED <<paused, paused_feeds, conn_ok, wrong_size>>

\* An empty frame, because the feeder of the first message is paused: the last
\* one of the message if the transfer is to be closed.
PrepareEmpty(status) ==
    /\ pc' = "send" /\ size' = 0 /\ complete' = (status = "close")
    /\ pending' = [pending EXCEPT ![cur][1].status = status]
    /\ UNCHANGED <<paused, paused_feeds, conn_ok, wrong_size>>

\* __vortex_sequencer_do_send_round up to the frame: nothing to send, a wrong
\* size, a feeder paused before or while it is read, or a frame.
Build ==
    /\ pc = "build"
    /\ IF pending[cur] = <<>>
       THEN /\ pc' = "relock" /\ complete' = FALSE /\ paused' = FALSE
            /\ UNCHANGED <<size, pending, paused_feeds, conn_ok, wrong_size>>
       ELSE LET m == Head(pending[cur])
                n == FrameSize(cur, m)
            IN  IF n <= 0
                THEN /\ conn_ok' = FALSE /\ wrong_size' = TRUE
                     /\ pc' = "send" /\ size' = 0 /\ complete' = FALSE
                     /\ UNCHANGED <<paused, pending, paused_feeds>>
                ELSE IF m.status = "pause"
                THEN /\ pending' = [pending EXCEPT ![cur] = Tail(@)]
                     /\ paused_feeds' = [paused_feeds EXCEPT ![cur] = @ \cup {m}]
                     /\ paused' = TRUE /\ complete' = FALSE /\ pc' = "relock"
                     /\ UNCHANGED <<size, conn_ok, wrong_size>>
                ELSE IF m.status = "close"
                THEN PrepareEmpty("close")
                ELSE \/ Prepare(m, n)
                     \/ \E close \in CloseTransfer : m.fed /\ PrepareEmpty(PauseStatus(close))
    /\ UNCHANGED <<sent, granted, removed, queued, written, open, ready, mutex, exit,
                   todo, admin_pass, cur, was_stalled, adding, reader, stale>>

\* The frame goes out: last_seq_no first, and a reply counts as written even if
\* the connection refuses the frame.
SendFrame ==
    /\ pc = "send"
    /\ LET m == Head(pending[cur])
       IN  /\ sent' = [sent EXCEPT ![cur] = @ + size]
           /\ open' = [open EXCEPT ![cur] = IF complete THEN 0 ELSE m.no]
           /\ written' = [written EXCEPT ![cur] = IF complete THEN m.no ELSE @]
    /\ pc' = "relock" /\ paused' = FALSE
    /\ UNCHANGED <<pending, granted, removed, queued, paused_feeds, ready, mutex, exit,
                   conn_ok, wrong_size, todo, admin_pass, cur, size, complete,
                   was_stalled, adding, reader, stale>>

\* The mutex is taken again and the channel looked at; the reader may still
\* apply a SEQ frame before the channel is dropped for being stalled.
Relock ==
    /\ pc = "relock" /\ mutex = "free"
    /\ pc' = "after" /\ mutex' = "sequencer"
    /\ was_stalled' = Stalled(cur)
    /\ UNCHANGED <<channelVars, ready, exit, conn_ok, wrong_size, todo, admin_pass, cur,
                   size, complete, paused, adding, reader, stale>>

\* The locals of a round are set anew in the next one.
NoRound ==
    /\ cur' = Admin /\ size' = 0
    /\ complete' = FALSE /\ paused' = FALSE /\ was_stalled' = FALSE

\* The channel is left with what was queued behind a paused feeder, or meanwhile.
LeftForPause == stale' = [stale EXCEPT ![cur] = @ \/ (paused /\ pending'[cur] # <<>>)]

\* Mutant: a channel is dropped after each message.
AfterRoundDrop ==
    /\ pc = "after"
    /\ pending' = IF complete THEN [pending EXCEPT ![cur] = Tail(@)] ELSE pending
    /\ ready' = IF removed[cur] \/ complete \/ was_stalled \/ paused
                THEN ready \ {cur} ELSE ready
    /\ LeftForPause /\ todo' = todo \ {cur} /\ pc' = "scan"
    /\ NoRound
    /\ UNCHANGED <<sent, granted, removed, queued, written, open, paused_feeds, mutex,
                   exit, conn_ok, wrong_size, admin_pass, adding, reader>>

\* vortex_sequencer_remove_message_sent for a message completely sent, and
\* whether the channel stays ready.
AfterRound ==
    /\ pc = "after"
    /\ pending' = IF complete THEN [pending EXCEPT ![cur] = Tail(@)] ELSE pending
    /\ LET is_empty == complete /\ pending'[cur] = <<>>
       IN  ready' = IF removed[cur] \/ is_empty \/ was_stalled \/ paused
                    THEN ready \ {cur} ELSE ready
    /\ LeftForPause /\ todo' = todo \ {cur} /\ pc' = "scan"
    /\ NoRound
    /\ UNCHANGED <<sent, granted, removed, queued, written, open, paused_feeds, mutex,
                   exit, conn_ok, wrong_size, admin_pass, adding, reader>>

-----------------------------------------------------------------------------
(* Failures and the end *)

Healthy == MayFail /\ conn_ok /\ ~exit /\ \A c \in Channels : ~removed[c]

\* vortex_sequencer_remove_channel: the channel leaves its connection.
RemoveChannel(c) ==
    /\ Healthy
    /\ removed' = [removed EXCEPT ![c] = TRUE]
    /\ UNCHANGED <<pending, sent, granted, queued, written, open, paused_feeds, ready,
                   mutex, exit, conn_ok, wrong_size, threadVars, adding, reader, stale>>

\* The connection is shut down by any thread.
BreakConnection ==
    /\ Healthy /\ conn_ok' = FALSE
    /\ UNCHANGED <<channelVars, ready, mutex, exit, wrong_size, threadVars, adding,
                   reader, stale>>

\* vortex_sequencer_stop, up to the wait for the thread
Stop ==
    /\ Healthy /\ mutex = "free" /\ exit' = TRUE
    /\ UNCHANGED <<channelVars, ready, mutex, conn_ok, wrong_size, threadVars, adding,
                   reader, stale>>

\* Nobody has anything to do.
Quiet ==
    /\ pc = "done" \/ (pc = "wait" /\ ready = {})
    /\ UNCHANGED vars

-----------------------------------------------------------------------------

Init ==
    /\ pending = [c \in Channels |-> <<>>]
    /\ sent = [c \in Channels |-> 0] /\ granted = [c \in Channels |-> Window]
    /\ removed = [c \in Channels |-> FALSE]
    /\ queued = [c \in Channels |-> 0] /\ written = [c \in Channels |-> 0]
    /\ open = [c \in Channels |-> 0] /\ paused_feeds = [c \in Channels |-> {}]
    /\ ready = {} /\ mutex = "free" /\ exit = FALSE /\ conn_ok = TRUE
    /\ wrong_size = FALSE
    /\ pc = "wait" /\ todo = {} /\ admin_pass = FALSE /\ cur = Admin /\ size = 0
    /\ complete = FALSE /\ paused = FALSE /\ was_stalled = FALSE
    /\ adding = [c \in Channels |-> Nothing]
    /\ reader = Idle
    /\ stale = [c \in Channels |-> FALSE]

Sequence ==
    \/ Wake \/ EndPass \/ Build \/ SendFrame \/ Relock \/ AfterRound
    \/ \E c \in Channels : Visit(c)

Next ==
    \/ Sequence
    \/ \E c \in Channels : Send(c) \/ QueuePending(c) \/ Pause(c)
    \/ \E c \in Channels : ApplySeq(c) \/ RemoveChannel(c)
    \/ CheckPending \/ MoveToReady
    \/ BreakConnection \/ Stop \/ Quiet

\* Threads run, and one that waits for the mutex gets it in the end.  A channel
\* whose credit is spent receives a SEQ frame (FlowControl, ImplementsPipe); nobody
\* owes a message.
Fairness ==
    /\ SF_vars(Sequence) /\ SF_vars(MoveToReady) /\ WF_vars(CheckPending)
    /\ \A c \in Channels : /\ WF_vars(QueuePending(c))
                           /\ SF_vars(Stalled(c) /\ ApplySeq(c))

Spec == Init /\ [][Next]_vars /\ Fairness

-----------------------------------------------------------------------------
(* Properties *)

\* Every variable has the shape of the C field or local it stands for.
TypeOK ==
    /\ pending \in [Channels -> Seq(Message)] /\ paused_feeds \in [Channels -> SUBSET Message]
    /\ sent \in [Channels -> Nat] /\ granted \in [Channels -> Nat]
    /\ removed \in [Channels -> BOOLEAN] /\ stale \in [Channels -> BOOLEAN]
    /\ queued \in [Channels -> Nat] /\ written \in [Channels -> Nat] /\ open \in [Channels -> Nat]
    /\ ready \subseteq Channels /\ todo \subseteq Channels
    /\ mutex \in {"free", "sender", "sequencer"}
    /\ exit \in BOOLEAN /\ conn_ok \in BOOLEAN /\ wrong_size \in BOOLEAN
    /\ pc \in {"wait", "scan", "build", "send", "relock", "after", "done"}
    /\ admin_pass \in BOOLEAN /\ cur \in Channels /\ size \in Nat
    /\ complete \in BOOLEAN /\ paused \in BOOLEAN /\ was_stalled \in BOOLEAN
    /\ adding \in [Channels -> {Nothing} \cup
                     [queue : {TRUE}, message : Message, insert : BOOLEAN]]
    /\ reader \in [at : {"idle", "check", "insert"}, channel : Channels]

\* No round ever computes a frame size that shuts the connection down
\* (vortex_sequencer_build_packet_to_send, "reporting wrong values"): the
\* channel looked at under the mutex still has credit without it, whatever
\* the reader and the senders do meanwhile.
NeverWrongSize == ~wrong_size

\* No channel is forgotten: one with a message to send and credit to send it is
\* ready, or the reader is about to make it so.  The exceptions are the stalled
\* reading of vortex_sequencer_add_channel, out of date when it is used, a
\* feeder that was paused, which is to block the channel until it is resumed,
\* and a broken connection, whose channels are dropped as they are visited.
SendableIsReady ==
    \A c \in Channels :
        pending[c] # <<>> /\ ~Stalled(c) /\ c \notin ready =>
            \/ removed[c] \/ stale[c] \/ ~conn_ok
            \/ reader.channel = c /\ reader.at \in {"check", "insert"}

\* A ready channel gets its round, or is dropped: the channels of both passes
\* take their turns (vortex_sequencer_process_channels).
ReadyIsServed ==
    \A c \in Channels : c \in ready ~> ((pc = "build" /\ cur = c) \/ c \notin ready \/ exit)

\* Queued messages are sent: while a channel is stalled "all new sends (and
\* pending ones) are retained until a SEQ frame is received"
\* (vortex_channel_is_stalled), and no longer.
PendingSent ==
    \A c \in Channels :
        pending[c] # <<>> ~> (pending[c] = <<>> \/ ~conn_ok \/ removed[c] \/ exit)

\* The messages of a channel that are not completely on their way: a frame
\* that is prepared is still with its message, a message whose last frame is
\* sent is gone before it is removed.
NotSent(c) ==
    LET now == pending[c]
        then == IF c # cur \/ pc \notin {"send", "relock", "after"} THEN now
                ELSE IF pc = "send" THEN [now EXCEPT ![1].left = @ + size]
                ELSE IF complete THEN Tail(now) ELSE now
    IN  [i \in 1 .. Len(then) |-> [no |-> then[i].no, left |-> then[i].left]]

Queue(c) == INSTANCE FrameQueue WITH
    Closers <- TRUE \in CloseTransfer, queue <- NotSent(c), sent <- sent[c],
    granted <- granted[c], open <- open[c]

\* Each channel sees a frame queue: its messages whole, once, in order, within
\* the credit, whatever the other channels and threads do.
ImplementsQueues ==
    /\ \A c \in Channels : Queue(c)!QueueInit
    /\ [][\A c \in Channels : Queue(c)!QueueNext \/ UNCHANGED Queue(c)!output]_vars
=============================================================================
