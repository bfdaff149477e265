---------------------------- MODULE ChannelClose ----------------------------
(***************************************************************************)
(* Closing a channel.  An application thread closes it                     *)
(* (vortex_channel_close) and asks the peer on channel 0; a thread of the  *)
(* pool takes what the peer asks                                           *)
(* (__vortex_channel_0_frame_received_close_msg), now or when the          *)
(* application has decided (vortex_channel_notify_close).  Both peers may  *)
(* close at once, while messages and replies are on their way.             *)
(*                                                                         *)
(* The channel has a number other than 0.  Its frames and those of         *)
(* channel 0 wait in two queues of the sequencer and leave in either       *)
(* order on one TCP stream; both peers see a broken connection at once.    *)
(***************************************************************************)
EXTENDS Integers, Sequences, FiniteSets

CONSTANTS
    Peers,
    Talkers,        \* the peers that send messages
    MaxMessages,    \* bound: MSG each of them sends
    MaxCloses,      \* bound: calls of vortex_channel_close at a peer
    Verdicts,       \* what close handlers say: "accept", "decline", or
                    \* "notify" when one is only told
    MayTimeOut,     \* waits end after vortex_connection_get_timeout
    MayBreak        \* the connection may break

CloseAssumption ==
    /\ IsFiniteSet(Peers) /\ Cardinality(Peers) = 2
    /\ Talkers \subseteq Peers /\ MaxMessages \in Nat /\ MaxCloses \in Nat
    /\ Verdicts \subseteq {"accept", "decline", "notify"}
    /\ MayTimeOut \in BOOLEAN /\ MayBreak \in BOOLEAN
ASSUME CloseAssumption

Other(p) == CHOOSE q \in Peers : q # p

VARIABLES
    exists,         \* the channel is in the connection's table
    being_closed,
    wait_reply,     \* VORTEX_CHANNEL_WAIT_REPLY is set on the channel
    wait_queue,     \* the answers pushed to it
    closer, closes, \* the thread that closes, and calls made
    handler,        \* the thread that takes the peer's close
    sender,         \* a thread in vortex_channel_send_msg_common
    sent, outstanding, received, answered,
    \* received and written are last_message_received and last_reply_written,
    \* answered the last message the application answered
    written,
    pending0, pending, \* frames queued for channel 0 and for the channel
    tcp, conn_ok, accused,
    irregular       \* history: what went wrong on the way

ends     == <<exists, being_closed>>
waits    == <<wait_reply, wait_queue>>
counters == <<sent, outstanding, received, answered, written>>
queues   == <<pending0, pending>>
net      == <<tcp, conn_ok, accused>>
vars == <<ends, waits, closer, closes, handler, sender, counters, queues, net, irregular>>

\* slipped:  a MSG was queued when the channel was already being closed
\* early:    a close was accepted in transit with MSG of one's own unanswered
\* gone:     a close came to a thread of the pool after the channel was removed
\* declined: the application said no
\* late:     a close was not answered in time
\* failed:   a message was answered with ERR, which does not count as written
Events == {"slipped", "early", "gone", "declined", "late", "failed"}

Happened(event, condition) ==
    irregular' = irregular \cup (IF condition THEN {event} ELSE {})

\* The process of p runs.
Runs(p) == handler[p] # "crashed"

\* p's close_mutex is held from one step to the next.
Locked(p) == handler[p] = "remove"

\* Frames of channel 0 are "close", "ok" and "error", those of the channel "MSG",
\* "RPY" and "ERR" with the number of the message.
Queue0(p, type) ==
    pending0' = [pending0 EXCEPT ![p] = Append(@, [type |-> type, no |-> 0])]

Queue(p, type, no) ==
    pending' = [pending EXCEPT ![p] = Append(@, [type |-> type, no |-> no])]

\* vortex_connection_remove_channel; the sequencer drops the channel when it is
\* its turn.
RemoveChannel(p) == exists' = [exists EXCEPT ![p] = FALSE]

-----------------------------------------------------------------------------
(* Messages and replies *)

\* vortex_channel_send_msg_common looks at the channel ...
CheckOpen(p) ==
    /\ p \in Talkers /\ Runs(p) /\ conn_ok /\ sender[p] = "idle" /\ sent[p] < MaxMessages
    /\ exists[p] /\ ~being_closed[p]
    /\ sender' = [sender EXCEPT ![p] = "checked"]
    /\ UNCHANGED <<ends, waits, closer, closes, handler, counters, queues, net, irregular>>

\* ... and later has the send mutex and queues the message.
QueueMsg(p) ==
    /\ Runs(p) /\ sender[p] = "checked"
    /\ sender' = [sender EXCEPT ![p] = "idle"]
    /\ sent' = [sent EXCEPT ![p] = @ + 1]
    /\ outstanding' = [outstanding EXCEPT ![p] = @ + 1]
    /\ Queue(p, "MSG", sent[p] + 1)
    /\ Happened("slipped", being_closed[p])
    /\ UNCHANGED <<ends, waits, closer, closes, handler, received, answered, written,
                   pending0, net>>

\* The application answers; a channel being closed still takes replies.
Answer(p) ==
    /\ Runs(p) /\ conn_ok /\ exists[p] /\ answered[p] < received[p]
    /\ answered' = [answered EXCEPT ![p] = @ + 1]
    /\ \E type \in {"RPY", "ERR"} : Queue(p, type, answered[p] + 1)
    /\ UNCHANGED <<ends, waits, closer, closes, handler, sender, sent, outstanding,
                   received, written, pending0, net, irregular>>

\* The sequencer writes a frame of channel 0, or one of the channel: only a RPY
\* counts as a reply written.
Write0(p) ==
    /\ Runs(p) /\ conn_ok /\ pending0[p] # <<>>
    /\ tcp' = [tcp EXCEPT ![p] = Append(@, Head(pending0[p]))]
    /\ pending0' = [pending0 EXCEPT ![p] = Tail(@)]
    /\ UNCHANGED <<ends, waits, closer, closes, handler, sender, counters, pending,
                   conn_ok, accused, irregular>>

Write(p) ==
    /\ Runs(p) /\ conn_ok /\ exists[p] /\ pending[p] # <<>>
    /\ pending' = [pending EXCEPT ![p] = Tail(@)]
    /\ LET frame == Head(pending[p])
       IN  /\ tcp' = [tcp EXCEPT ![p] = Append(@, frame)]
           /\ written' = [written EXCEPT ![p] = IF frame.type = "RPY" THEN frame.no ELSE @]
           /\ Happened("failed", frame.type = "ERR")
    /\ UNCHANGED <<ends, waits, closer, closes, handler, sender, sent, outstanding,
                   received, answered, pending0, conn_ok, accused>>

\* The reader of p takes the next frame ...
Takes(p, type) ==
    /\ Runs(p) /\ conn_ok /\ tcp[Other(p)] # <<>> /\ Head(tcp[Other(p)]).type = type
    /\ tcp' = [tcp EXCEPT ![Other(p)] = Tail(@)]

\* ... which shuts the connection down if its channel is not there,
RecvOnChannel(p, type) ==
    /\ Takes(p, type)
    /\ IF ~exists[p]
       THEN conn_ok' = FALSE /\ accused' = TRUE /\ UNCHANGED counters
       ELSE /\ received' = [received EXCEPT ![p] = IF type = "MSG" THEN @ + 1 ELSE @]
            /\ outstanding' = [outstanding EXCEPT ![p] = IF type = "MSG" THEN @ ELSE @ - 1]
            /\ UNCHANGED <<conn_ok, accused, sent, answered, written>>
    /\ UNCHANGED <<ends, waits, closer, closes, handler, sender, queues, irregular>>

\* hands a close to a thread of the pool,
RecvClose(p) ==
    /\ Takes(p, "close")
    /\ handler' = [handler EXCEPT ![p] = "find"]
    /\ UNCHANGED <<ends, waits, closer, closes, sender, counters, queues, conn_ok,
                   accused, irregular>>

\* Mutant: an answer that comes before the thread waits is lost.
WaitsNow(p) == closer[p] = "await"

\* The wait reply given to vortex_channel_send_msg_and_wait is still there.
Waits(p) == closer[p] \in {"sent", "await"}

\* and the answer of one's own close to the thread that waits.
RecvVerdict(p, type) ==
    /\ Takes(p, type)
    /\ wait_queue' = [wait_queue EXCEPT ![p] = IF Waits(p) THEN Append(@, type) ELSE @]
    /\ UNCHANGED <<ends, wait_reply, closer, closes, handler, sender, counters, queues,
                   conn_ok, accused, irregular>>

-----------------------------------------------------------------------------
(* The thread that closes *)

Goes(p, from, to) == Runs(p) /\ closer[p] = from /\ closer' = [closer EXCEPT ![p] = to]

\* __vortex_channel_close_full: one thread closes, another only waits.
Close(p) ==
    /\ exists[p] /\ closes[p] < MaxCloses /\ ~Locked(p)
    /\ closes' = [closes EXCEPT ![p] = @ + 1]
    /\ Goes(p, "idle", IF being_closed[p] THEN "following" ELSE "register")
    /\ being_closed' = [being_closed EXCEPT ![p] = TRUE]
    /\ UNCHANGED <<exists, waits, handler, sender, counters, queues, net, irregular>>

\* ... until the channel is gone.
Follow(p) ==
    /\ ~conn_ok \/ ~exists[p]
    /\ Goes(p, "following", "idle")
    /\ UNCHANGED <<ends, waits, closes, handler, sender, counters, queues, net, irregular>>

\* With the mutex given back, the wait reply is set.
Register(p) ==
    /\ Goes(p, "register", "replies")
    /\ wait_reply' = [wait_reply EXCEPT ![p] = TRUE]
    /\ UNCHANGED <<ends, wait_queue, closes, handler, sender, counters, queues, net,
                   irregular>>

\* Mutant: nobody waits for the replies.
AllRepliesOrNot(p) == TRUE

\* Mutant: one is still missing.
AllRepliesButOne(p) == outstanding[p] <= 1

\* __vortex_channel_block_until_replies_are_received need not wait any longer.
AllReplies(p) == outstanding[p] = 0

\* __vortex_channel_close: with the connection broken, now or while it waits,
\* the channel is removed.
RepliesReceived(p) ==
    /\ being_closed' = [being_closed EXCEPT ![p] = TRUE]
    /\ \/ AllReplies(p) /\ Goes(p, "replies", "check")
       \/ ~conn_ok /\ Goes(p, "replies", "remove")
    /\ UNCHANGED <<exists, waits, closes, handler, sender, counters, queues, net,
                   irregular>>

\* Nothing is asked when the peer has asked meanwhile.
CheckTransit(p) ==
    /\ Goes(p, "check", IF wait_queue[p] = <<>> THEN "send" ELSE "sent")
    /\ UNCHANGED <<ends, waits, closes, handler, sender, counters, queues, net, irregular>>

SendClose(p) ==
    /\ Goes(p, "send", IF conn_ok THEN "sent" ELSE "idle")
    /\ IF conn_ok THEN Queue0(p, "close") ELSE UNCHANGED pending0
    /\ UNCHANGED <<ends, waits, closes, handler, sender, counters, pending, net, irregular>>

\* vortex_channel_block_until_replies_are_sent, whose result is not looked at
RepliesSent(p) ==
    /\ written[p] = received[p] \/ ~conn_ok
    /\ Goes(p, "sent", "await")
    /\ UNCHANGED <<ends, waits, closes, handler, sender, counters, queues, net, irregular>>

\* Mutant: whatever comes back is taken for an ok.
AnyVerdict(verdict) == TRUE

\* The answer is a RPY with an ok.
Agreed(verdict) == verdict = "ok"

\* vortex_channel_wait_reply has an answer and the channel forgets the wait reply.
TakeVerdict(p) ==
    /\ wait_queue[p] # <<>>
    /\ Goes(p, "await", IF Agreed(Head(wait_queue[p])) THEN "remove" ELSE "idle")
    /\ wait_reply' = [wait_reply EXCEPT ![p] = FALSE]
    /\ wait_queue' = [wait_queue EXCEPT ![p] = <<>>]
    /\ UNCHANGED <<ends, closes, handler, sender, counters, queues, net, irregular>>

\* A broken connection is taken for an agreement,
NoConnection(p) ==
    /\ ~conn_ok
    /\ Goes(p, "await", "remove")
    /\ UNCHANGED <<ends, waits, closes, handler, sender, counters, queues, net, irregular>>

\* and so is an answer that does not come in time.
TimeOut(p) ==
    /\ MayTimeOut /\ conn_ok
    /\ \/ Goes(p, "sent", "await") /\ UNCHANGED irregular
       \/ /\ wait_queue[p] = <<>> /\ Goes(p, "await", "remove")
          /\ Happened("late", TRUE)
    /\ UNCHANGED <<ends, waits, closes, handler, sender, counters, queues, net>>

CloserRemoves(p) ==
    /\ Goes(p, "remove", "idle")
    /\ RemoveChannel(p)
    /\ UNCHANGED <<being_closed, waits, closes, handler, sender, counters, queues, net,
                   irregular>>

Closer(p) ==
    \/ Follow(p) \/ Register(p) \/ RepliesReceived(p) \/ CheckTransit(p) \/ SendClose(p)
    \/ RepliesSent(p) \/ TakeVerdict(p) \/ NoConnection(p) \/ CloserRemoves(p)

-----------------------------------------------------------------------------
(* The thread that takes the peer's close *)

Turns(p, from, to) == Runs(p) /\ handler[p] = from /\ handler' = [handler EXCEPT ![p] = to]

\* vortex_connection_channel_exists, and vortex_connection_get_channel # NULL
Found(p) == conn_ok /\ exists[p]

\* The channel must exist ...
FindChannel(p) ==
    /\ Turns(p, "find", IF Found(p) THEN "get" ELSE "idle")
    /\ IF exists[p] THEN UNCHANGED pending0 ELSE Queue0(p, "error")
    /\ Happened("gone", ~exists[p])
    /\ UNCHANGED <<ends, waits, closer, closes, sender, counters, pending, net>>

\* ... and is then looked up again: a NULL is used.
GetChannel(p) ==
    /\ Turns(p, "get", IF Found(p) THEN "lock" ELSE "crashed")
    /\ conn_ok' = Found(p)
    /\ UNCHANGED <<ends, waits, closer, closes, sender, counters, queues, tcp, accused,
                   irregular>>

\* A close in transit is accepted at once ...
AcceptInTransit(p) ==
    /\ being_closed[p]
    /\ Turns(p, "lock", "transit")
    /\ Queue0(p, "ok")
    /\ Happened("early", outstanding[p] > 0)
    /\ UNCHANGED <<ends, waits, closer, closes, sender, counters, pending, net>>

\* A fake ok for the thread that closes
PushOk(p) ==
    wait_queue' = [wait_queue EXCEPT ![p] = IF wait_reply[p] THEN Append(@, "ok") ELSE @]

\* ... and turned into an answer for the thread that closes.
TellCloser(p) ==
    /\ Turns(p, "transit", "idle")
    /\ PushOk(p)
    /\ UNCHANGED <<ends, wait_reply, closer, closes, sender, counters, queues, net,
                   irregular>>

\* Otherwise the close handlers are asked, or told.
AskHandlers(p) ==
    /\ ~being_closed[p]
    /\ \E verdict \in Verdicts :
        /\ Turns(p, "lock", CASE verdict = "accept" -> "replies"
                              [] verdict = "decline" -> "idle"
                              [] verdict = "notify" -> "notified")
        /\ being_closed' = [being_closed EXCEPT ![p] = verdict = "accept"]
        /\ IF verdict = "decline" THEN Queue0(p, "error") ELSE UNCHANGED pending0
        /\ Happened("declined", verdict = "decline")
    /\ UNCHANGED <<exists, waits, closer, closes, sender, counters, pending, net>>

\* vortex_channel_notify_close, called by the application that was told
NotifyClose(p, close) ==
    /\ exists[p]
    /\ Turns(p, "notified", IF close THEN "replies" ELSE "idle")
    /\ being_closed' = [being_closed EXCEPT ![p] = @ \/ close]
    /\ IF close THEN UNCHANGED pending0 ELSE Queue0(p, "error")
    /\ Happened("declined", ~close)
    /\ UNCHANGED <<exists, waits, closer, closes, sender, counters, pending, net>>

HandlerReplies(p) ==
    /\ \/ AllReplies(p) /\ Turns(p, "replies", "reply")
       \/ ~conn_ok /\ ~AllReplies(p) /\ Turns(p, "replies", "remove")
    /\ UNCHANGED <<ends, waits, closer, closes, sender, counters, queues, net, irregular>>

\* The ok goes first, then the channel.
SendOk(p) ==
    /\ Turns(p, "reply", "remove")
    /\ IF conn_ok THEN Queue0(p, "ok") ELSE UNCHANGED pending0
    /\ UNCHANGED <<ends, waits, closer, closes, sender, counters, pending, net, irregular>>

\* Mutant: the channel is not removed.
HandlerKeeps(p) ==
    /\ Turns(p, "remove", "idle")
    /\ UNCHANGED <<ends, waits, closer, closes, sender, counters, queues, net, irregular>>

HandlerRemoves(p) ==
    /\ Turns(p, "remove", "idle")
    /\ RemoveChannel(p)
    /\ UNCHANGED <<being_closed, waits, closer, closes, sender, counters, queues, net,
                   irregular>>

Handler(p) ==
    \/ FindChannel(p) \/ GetChannel(p) \/ AcceptInTransit(p) \/ TellCloser(p)
    \/ AskHandlers(p) \/ (\E close \in BOOLEAN : NotifyClose(p, close))
    \/ HandlerReplies(p) \/ SendOk(p) \/ HandlerRemoves(p)

-----------------------------------------------------------------------------

BreakConnection ==
    /\ MayBreak /\ conn_ok /\ conn_ok' = FALSE
    /\ UNCHANGED <<ends, waits, closer, closes, handler, sender, counters, queues, tcp,
                   accused, irregular>>

\* Nothing is on its way and no thread has anything to do.
AtRest ==
    \A p \in Peers :
        /\ pending0[p] = <<>> /\ tcp[p] = <<>> /\ (exists[p] => pending[p] = <<>>)
        /\ closer[p] = "idle" /\ sender[p] = "idle"
        /\ handler[p] = "idle" \/ (handler[p] = "notified" /\ ~exists[p])

Quiet == (AtRest \/ ~conn_ok \/ irregular # {}) /\ UNCHANGED vars

Init ==
    /\ exists = [p \in Peers |-> TRUE] /\ being_closed = [p \in Peers |-> FALSE]
    /\ wait_reply = [p \in Peers |-> FALSE] /\ wait_queue = [p \in Peers |-> <<>>]
    /\ closer = [p \in Peers |-> "idle"] /\ closes = [p \in Peers |-> 0]
    /\ handler = [p \in Peers |-> "idle"] /\ sender = [p \in Peers |-> "idle"]
    /\ sent = [p \in Peers |-> 0] /\ outstanding = [p \in Peers |-> 0]
    /\ received = [p \in Peers |-> 0] /\ answered = [p \in Peers |-> 0]
    /\ written = [p \in Peers |-> 0]
    /\ pending0 = [p \in Peers |-> <<>>] /\ pending = [p \in Peers |-> <<>>]
    /\ tcp = [p \in Peers |-> <<>>] /\ conn_ok = TRUE /\ accused = FALSE
    /\ irregular = {}

Recv(p) ==
    \/ \E type \in {"MSG", "RPY", "ERR"} : RecvOnChannel(p, type)
    \/ RecvClose(p) \/ \E type \in {"ok", "error"} : RecvVerdict(p, type)

Next ==
    \/ \E p \in Peers :
        \/ CheckOpen(p) \/ QueueMsg(p) \/ Answer(p) \/ Write0(p) \/ Write(p) \/ Recv(p)
        \/ Close(p) \/ Closer(p) \/ TimeOut(p) \/ Handler(p)
    \/ BreakConnection \/ Quiet

\* Threads, sequencers and readers run; the application answers what it gets
\* and decides what it is told.  No call needs its timeout to return.
Fairness ==
    \A p \in Peers :
        /\ WF_vars(QueueMsg(p)) /\ WF_vars(Answer(p)) /\ WF_vars(Write0(p))
        /\ WF_vars(Write(p)) /\ WF_vars(Recv(p))
        /\ WF_vars(Closer(p)) /\ WF_vars(Handler(p))

Spec == Init /\ [][Next]_vars /\ Fairness

-----------------------------------------------------------------------------
(* Properties *)

Frames0 == [type : {"close", "ok", "error"}, no : {0}]
Frames  == [type : {"MSG", "RPY", "ERR"}, no : 1 .. MaxMessages]

\* Every variable has the shape of the field, queue or place it stands for.
TypeOK ==
    /\ exists \in [Peers -> BOOLEAN] /\ being_closed \in [Peers -> BOOLEAN]
    /\ wait_reply \in [Peers -> BOOLEAN] /\ wait_queue \in [Peers -> Seq({"ok", "error"})]
    /\ closer \in [Peers -> {"idle", "following", "register", "replies", "check", "send",
                             "sent", "await", "remove"}]
    /\ closes \in [Peers -> 0 .. MaxCloses]
    /\ handler \in [Peers -> {"idle", "find", "get", "lock", "transit", "notified",
                              "replies", "reply", "remove", "crashed"}]
    /\ sender \in [Peers -> {"idle", "checked"}]
    /\ sent \in [Peers -> 0 .. MaxMessages] /\ outstanding \in [Peers -> 0 .. MaxMessages]
    /\ received \in [Peers -> 0 .. MaxMessages] /\ answered \in [Peers -> 0 .. MaxMessages]
    /\ written \in [Peers -> 0 .. MaxMessages]
    /\ pending0 \in [Peers -> Seq(Frames0)] /\ pending \in [Peers -> Seq(Frames)]
    /\ tcp \in [Peers -> Seq(Frames0 \cup Frames)]
    /\ conn_ok \in BOOLEAN /\ accused \in BOOLEAN /\ irregular \subseteq Events

\* No reader gets a frame for a channel it does not have and shuts the
\* connection down (vortex_reader.c), unless a message slipped past
\* being_closed, a close was accepted in transit before its own messages were
\* answered, or somebody gave up waiting.
Unaccused == accused => irregular \cap {"slipped", "early", "late"} # {}

\* A peer only lets a channel go with every message answered, those it sent
\* and those it got, with the same exceptions.
AnsweredFirst ==
    [][\A p \in Peers :
        /\ exists[p] /\ ~exists'[p] /\ conn_ok
        /\ irregular \cap {"slipped", "early", "late"} = {}
        => outstanding[p] = 0 /\ answered[p] = received[p] /\ pending[p] = <<>>]_vars

\* ... and only when the other peer is closing it, or somebody gave up waiting.
RemovedByConsent ==
    [][\A p \in Peers :
        exists[p] /\ ~exists'[p] /\ conn_ok /\ "late" \notin irregular =>
            being_closed[Other(p)]]_vars

\* When nothing is on its way, both peers have the channel or none has, unless
\* an application said no or a close was refused because the channel was gone:
\* it was sent or looked at after the peer's had been accepted in transit.
Agreement ==
    AtRest /\ conn_ok /\ irregular \cap {"declined", "gone"} = {} =>
        \A p \in Peers : exists[p] = exists[Other(p)]

\* A call of vortex_channel_close returns, with no need of a timeout, unless one
\* of the events happened or the process ended.
CloseReturns ==
    \A p \in Peers :
        closer[p] # "idle" ~> closer[p] = "idle" \/ irregular # {} \/ ~Runs(p)

=============================================================================
