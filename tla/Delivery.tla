------------------------------ MODULE Delivery ------------------------------
(***************************************************************************)
(* What happens to the frames of a channel once the reader has checked     *)
(* them: fragments are joined, a reply goes to the thread that waits for   *)
(* it (vortex_channel_wait_reply), everything else to the frame received   *)
(* handler, in a task of the thread pool, one after the other when the     *)
(* channel is serialized (vortex_channel_set_serialize).                   *)
(*                                                                         *)
(* Each call that waits has an AsyncQueue.  A connection that breaks runs  *)
(* its on close handlers in threads of their own, which push a beacon.     *)
(* Replies come in the order of the messages, as Replies shows.            *)
(***************************************************************************)
EXTENDS AsyncQueue

CONSTANTS
    Workers,        \* threads of the pool
    Calls,          \* messages sent
    Waiters,        \* those of them that may wait for the reply
    MaxMsgs,        \* bound: messages of the peer
    MaxParts,       \* bound: frames of a message
    Sizes,          \* octets of a frame
    complete_flag, serialize,
    MayBreak,
    None

\* A frame of a message or of a reply, with the call it answers.
Frames == [type : {"MSG", "RPY"}, seqno : Nat, size : Nat, more : BOOLEAN, call : Calls \cup {None}]

DeliveryAssumption ==
    /\ Queues = Waiters /\ Waiters \subseteq Calls
    /\ Sizes \subseteq Nat /\ MaxParts \in Nat \ {0} /\ MaxMsgs \in Nat
    /\ {complete_flag, serialize, MayBreak} \subseteq BOOLEAN
    /\ None \notin Workers \cup Calls \cup Nat \cup {"MSG", "RPY"} \cup Frames
    /\ "broken" \notin Calls \cup {None}
ASSUME DeliveryAssumption

VARIABLES
    connected,
    on_close, fired,        \* calls with an on close handler, with one in a thread
    notified,               \* the handlers were run
    sent, replied,          \* calls in the order of their numbers, replies received
    msgs, parts,            \* messages of the peer, parts of the one that comes
    coming,                 \* the message whose parts come: "MSG", "RPY" or None
    reading,                \* the frame the reader has in hands
    last_seq_no_expected,
    previous_frame,         \* the first frame kept, with the octets of all, or None
    waiting_msgno,
    tasks,                  \* the queue of the pool
    at, frame,              \* where a worker is, and its frame
    serialize_next_seqno, serialize_hash,
    refs,                   \* references to the channel the deliveries hold
    call, got,              \* where a call is, and what it popped
    holders,                \* who has a reference to its wait reply or the queue of it
    delivered, handled,     \* history: frames for the handler, in order, and its calls
    misused,                \* history: a released queue was used
    irregular               \* history: what excuses the properties

conn    == <<connected, on_close, fired, notified>>
peer    == <<sent, replied, msgs, parts, coming, last_seq_no_expected>>
pool    == <<tasks, at, frame>>
serial  == <<serialize_next_seqno, serialize_hash>>
calls   == <<call, got, holders, waiting_msgno>>
hist    == <<delivered, handled, misused>>
vars == <<queueVars, conn, peer, reading, previous_frame, pool, serial, refs, calls, hist, irregular>>

\* empty:  a frame without octets goes to the handler of a serialized channel
\* waited: a reply of a serialized channel is taken by the thread that waits
\* unseen: a call starts to wait when the on close handlers have run
\* late:   a reply comes when its call has given up and not yet said so
Note(event, condition) ==
    irregular' = irregular \cup (IF condition THEN {event} ELSE {})

Init ==
    /\ QueueInit
    /\ connected = TRUE /\ on_close = {} /\ fired = {} /\ notified = FALSE
    /\ sent = <<>> /\ replied = 0 /\ msgs = 0 /\ parts = 0 /\ coming = None
    /\ reading = None /\ last_seq_no_expected = 0 /\ previous_frame = None
    /\ waiting_msgno = <<>> /\ tasks = <<>>
    /\ at = [w \in Workers |-> "idle"] /\ frame = [w \in Workers |-> None]
    /\ serialize_next_seqno = 0 /\ serialize_hash = {} /\ refs = 0
    /\ call = [c \in Calls |-> "idle"] /\ got = [c \in Calls |-> None]
    /\ holders = [c \in Calls |-> {}]
    /\ delivered = 0 /\ handled = <<>> /\ misused = FALSE /\ irregular = {}

-----------------------------------------------------------------------------
(* The reader *)

\* A frame of a message or of the next reply, the last or with more to come; only a
\* message of one frame is empty.
Read ==
    /\ reading = None /\ connected
    /\ \E type \in {"MSG", "RPY"}, size \in Sizes, more \in BOOLEAN :
        /\ coming \in {None, type}
        /\ coming = None => IF type = "MSG" THEN msgs < MaxMsgs ELSE replied < Len(sent)
        /\ more => parts + 1 < MaxParts
        /\ size = 0 => coming = None /\ ~more
        /\ reading' = [type |-> type, seqno |-> last_seq_no_expected, size |-> size,
                       more |-> more, call |-> IF type = "RPY" THEN sent[replied + 1] ELSE None]
        /\ last_seq_no_expected' = last_seq_no_expected + size
        /\ coming' = IF more THEN type ELSE None
        /\ parts' = IF more THEN parts + 1 ELSE 0
        /\ msgs' = IF type = "MSG" /\ ~more THEN msgs + 1 ELSE msgs
        /\ replied' = IF type = "RPY" /\ ~more THEN replied + 1 ELSE replied
    /\ UNCHANGED <<queueVars, conn, sent, previous_frame, pool, serial, refs, calls, hist,
                   irregular>>

\* A frame with those kept before it is one frame, at the place of the first.
SinglePendingFrame ==
    IF previous_frame = None THEN reading
    ELSE [previous_frame EXCEPT !.more = FALSE, !.size = @ + reading.size]

\* With the complete flag the parts are kept until the last one.
StorePrevious ==
    /\ reading # None /\ complete_flag /\ reading.more
    /\ previous_frame' = SinglePendingFrame
    /\ reading' = None
    /\ UNCHANGED <<queueVars, conn, peer, pool, serial, refs, calls, hist, irregular>>

Dispatches == reading # None /\ ~(complete_flag /\ reading.more)

\* A reply goes to the first call that waits, if it is the one it answers;
Awaited ==
    reading.type = "RPY" /\ waiting_msgno # <<>> /\ Head(waiting_msgno) = reading.call

PushReply ==
    /\ Dispatches /\ Awaited
    /\ LET c == Head(waiting_msgno) IN
        /\ Push(c, reading.call)
        /\ holders' = [holders EXCEPT ![c] = @ \ {"channel"}]
        /\ irregular' = irregular
              \cup (IF serialize THEN {"waited"} ELSE {})
              \cup (IF call[c] \in {"remove", "beacon"} /\ got[c] = None THEN {"late"} ELSE {})
    /\ waiting_msgno' = Tail(waiting_msgno)
    /\ reading' = None /\ previous_frame' = None
    /\ UNCHANGED <<conn, peer, pool, serial, refs, call, got, hist>>

\* the others to the handler, in a task with a reference to the channel and one to
\* the connection, which a broken connection refuses.
NewTask ==
    /\ Dispatches /\ ~Awaited
    /\ IF connected
       THEN /\ tasks' = Append(tasks, [id |-> delivered + 1, seqno |-> SinglePendingFrame.seqno,
                                       size |-> SinglePendingFrame.size])
            /\ refs' = refs + 1 /\ delivered' = delivered + 1
            /\ Note("empty", serialize /\ SinglePendingFrame.size = 0)
       ELSE UNCHANGED <<tasks, refs, delivered, irregular>>
    /\ reading' = None /\ previous_frame' = None
    /\ UNCHANGED <<queueVars, conn, peer, at, frame, serial, calls, handled, misused>>

-----------------------------------------------------------------------------
(* A worker in __vortex_channel_invoke_received_handler *)

Take(w) ==
    /\ at[w] = "idle" /\ tasks # <<>>
    /\ at' = [at EXCEPT ![w] = "check"]
    /\ frame' = [frame EXCEPT ![w] = Head(tasks)]
    /\ tasks' = Tail(tasks)
    /\ UNCHANGED <<queueVars, conn, peer, reading, previous_frame, serial, refs, calls, hist,
                   irregular>>

Handle(w, f) ==
    /\ at' = [at EXCEPT ![w] = "handler"]
    /\ frame' = [frame EXCEPT ![w] = f]
    /\ handled' = Append(handled, f.id)

Drop(w) ==
    /\ at' = [at EXCEPT ![w] = "idle"] /\ frame' = [frame EXCEPT ![w] = None]
    /\ UNCHANGED handled

\* Mutant: a frame is handled as soon as there is a thread for it.
AnyTurn(f) == TRUE

\* vortex_channel_check_serialize: it is the turn of the frame, or it is stored.
ItsTurn(f) == serialize => f.seqno = serialize_next_seqno

\* Mutant: a frame that is dropped keeps its references.
CheckKeeps(w) ==
    /\ at[w] = "check"
    /\ \/ connected /\ ItsTurn(frame[w]) /\ Handle(w, frame[w])
       \/ ~(connected /\ ItsTurn(frame[w])) /\ Drop(w)
    /\ UNCHANGED <<queueVars, conn, peer, reading, previous_frame, tasks, serial, refs, calls,
                   delivered, misused, irregular>>

\* A frame that finds the connection broken is dropped.
Check(w) ==
    /\ at[w] = "check"
    /\ \/ /\ connected /\ ItsTurn(frame[w]) /\ Handle(w, frame[w])
          /\ UNCHANGED <<serialize_hash, refs>>
       \/ /\ connected /\ ~ItsTurn(frame[w]) /\ Drop(w)
          /\ serialize_hash' = {f \in serialize_hash : f.seqno # frame[w].seqno} \cup {frame[w]}
          /\ UNCHANGED refs
       \/ /\ ~connected /\ Drop(w) /\ refs' = refs - 1
          /\ UNCHANGED serialize_hash
    /\ UNCHANGED <<queueVars, conn, peer, reading, previous_frame, tasks, serialize_next_seqno,
                   calls, delivered, misused, irregular>>

\* Mutant: the frame stays in the hash.
NextKept(w) ==
    LET next == frame[w].seqno + frame[w].size
    IN  /\ serialize_next_seqno' = next /\ Drop(w)
        /\ refs' = refs - 1 /\ UNCHANGED serialize_hash

\* vortex_channel_check_serialize_pending: after the handler, the next stored frame
\* gives back the references it was stored with and is handled by the same thread.
NextStored(w) ==
    LET next == frame[w].seqno + frame[w].size
        pending == {f \in serialize_hash : f.seqno = next}
    IN  /\ serialize_next_seqno' = next
        /\ serialize_hash' = serialize_hash \ pending
        /\ IF pending = {} THEN Drop(w) ELSE Handle(w, CHOOSE f \in pending : TRUE)
        /\ refs' = refs - 1

HandlerReturns(w) ==
    /\ at[w] = "handler"
    /\ IF serialize THEN NextStored(w)
       ELSE Drop(w) /\ refs' = refs - 1 /\ UNCHANGED serial
    /\ UNCHANGED <<queueVars, conn, peer, reading, previous_frame, tasks, calls, delivered,
                   misused, irregular>>

-----------------------------------------------------------------------------
(* The calls *)

\* vortex_channel_send_msg, and vortex_channel_send_msg_and_wait, which queues the
\* wait reply before the message.
Send(c) ==
    /\ call[c] = "idle" /\ connected
    /\ sent' = Append(sent, c)
    /\ \/ call' = [call EXCEPT ![c] = "done"] /\ UNCHANGED <<holders, waiting_msgno>>
       \/ /\ c \in Waiters /\ call' = [call EXCEPT ![c] = "sent"]
          /\ holders' = [holders EXCEPT ![c] = {"caller", "channel"}]
          /\ waiting_msgno' = Append(waiting_msgno, c)
    /\ UNCHANGED <<queueVars, conn, replied, msgs, parts, coming, last_seq_no_expected, reading,
                   previous_frame, pool, serial, refs, got, hist, irregular>>

Goes(c, from, to) == call[c] = from /\ call' = [call EXCEPT ![c] = to]

\* vortex_channel_wait_reply looks at the connection, and then installs its handler.
WaitReply(c) ==
    /\ Goes(c, "sent", IF connected THEN "install" ELSE "free")
    /\ holders' = [holders EXCEPT ![c] = IF connected THEN @ \cup {"wait"} ELSE @]
    /\ UNCHANGED <<queueVars, conn, peer, reading, previous_frame, pool, serial, refs, got,
                   waiting_msgno, hist, irregular>>

Install(c) ==
    /\ Goes(c, "install", "pop")
    /\ on_close' = on_close \cup {c}
    /\ Note("unseen", notified)
    /\ UNCHANGED <<queueVars, connected, fired, notified, peer, reading, previous_frame, pool,
                   serial, refs, got, holders, waiting_msgno, hist>>

\* It pops with a timeout: a reply, the beacon of the handler, or nothing.
Items == Calls \cup {"broken"}

TimedPop(c) ==
    /\ \/ /\ call[c] = "pop"
          /\ \/ /\ \E i \in Items : PopAtOnce(c, i) /\ got' = [got EXCEPT ![c] = i]
                /\ Goes(c, "pop", "remove")
             \/ PopWait(c, c) /\ Goes(c, "pop", "wait") /\ UNCHANGED got
       \/ /\ call[c] = "wait"
          /\ \E i \in Items : PopWoken(c, c, i) /\ got' = [got EXCEPT ![c] = i]
          /\ Goes(c, "wait", "remove")
    /\ UNCHANGED <<conn, peer, reading, previous_frame, pool, serial, refs, holders,
                   waiting_msgno, hist, irregular>>

TimeOut(c) ==
    /\ PopNothing(c, c) /\ Goes(c, "wait", "remove")
    /\ UNCHANGED <<conn, peer, reading, previous_frame, pool, serial, refs, got, holders,
                   waiting_msgno, hist, irregular>>

\* Mutant: the beacon is waited for whatever was popped.
AlwaysPending(c) == TRUE

\* Mutant: it is not waited for.
NeverPending(c) == FALSE

\* The beacon of a handler that was taken is still to be popped.
BeaconPending(c) == got[c] # "broken"

\* The handler is removed; when it is not found the beacon has to be waited for.
RemoveOnClose(c) ==
    /\ Goes(c, "remove", IF c \notin on_close /\ BeaconPending(c) THEN "beacon" ELSE "free")
    /\ on_close' = on_close \ {c}
    /\ holders' = [holders EXCEPT ![c] = IF call'[c] = "free" THEN @ \ {"wait"} ELSE @]
    /\ UNCHANGED <<queueVars, connected, fired, notified, peer, reading, previous_frame, pool,
                   serial, refs, got, waiting_msgno, hist, irregular>>

PopBeacon(c) ==
    /\ Goes(c, "beacon", "free")
    /\ \E i \in Items : PopAtOnce(c, i)
    /\ holders' = [holders EXCEPT ![c] = @ \ {"wait"}]
    /\ UNCHANGED <<conn, peer, reading, previous_frame, pool, serial, refs, got, waiting_msgno,
                   hist, irregular>>

\* The wait reply is released, by the function or by the caller that got nothing.
FreeWaitReply(c) ==
    /\ Goes(c, "free", "done")
    /\ holders' = [holders EXCEPT ![c] = @ \ {"caller"}]
    /\ UNCHANGED <<queueVars, conn, peer, reading, previous_frame, pool, serial, refs, got,
                   waiting_msgno, hist, irregular>>

-----------------------------------------------------------------------------
(* The connection *)

BreakConnection ==
    /\ MayBreak /\ connected /\ connected' = FALSE
    /\ UNCHANGED <<queueVars, on_close, fired, notified, peer, reading, previous_frame, pool,
                   serial, refs, calls, hist, irregular>>

\* __vortex_connection_invoke_on_close takes the handlers and starts their threads,
TakeHandler(c) ==
    /\ ~connected /\ ~notified /\ c \in on_close
    /\ on_close' = on_close \ {c} /\ fired' = fired \cup {c}
    /\ UNCHANGED <<queueVars, connected, notified, peer, reading, previous_frame, pool, serial,
                   refs, calls, hist, irregular>>

AllTaken ==
    /\ ~connected /\ ~notified /\ on_close = {}
    /\ notified' = TRUE
    /\ UNCHANGED <<queueVars, connected, on_close, fired, peer, reading, previous_frame, pool,
                   serial, refs, calls, hist, irregular>>

\* which push the beacon.
PushBroken(c) ==
    /\ c \in fired /\ fired' = fired \ {c}
    /\ Push(c, "broken")
    /\ misused' = (misused \/ holders[c] = {})
    /\ UNCHANGED <<connected, on_close, notified, peer, reading, previous_frame, pool, serial,
                   refs, calls, delivered, handled, irregular>>

Reader == Read \/ StorePrevious \/ PushReply \/ NewTask
Worker(w) == Take(w) \/ Check(w) \/ HandlerReturns(w)
Waits(c) ==
    \/ WaitReply(c) \/ Install(c) \/ TimedPop(c) \/ RemoveOnClose(c) \/ PopBeacon(c)
    \/ FreeWaitReply(c)
Notifier == AllTaken \/ \E c \in Waiters : TakeHandler(c) \/ PushBroken(c)

Next ==
    \/ Reader \/ Notifier \/ BreakConnection
    \/ \E w \in Workers : Worker(w)
    \/ \E c \in Calls : Send(c)
    \/ \E c \in Waiters : Waits(c) \/ TimeOut(c)

\* Threads go on and the peer answers what it got; no wait times out in time.
Spec == /\ Init /\ [][Next]_vars
        /\ WF_vars(Reader) /\ WF_vars(Notifier)
        /\ \A w \in Workers : WF_vars(Worker(w))
        /\ \A c \in Waiters : WF_vars(Waits(c))

-----------------------------------------------------------------------------
(* Properties *)

TypeOK ==
    /\ {reading, previous_frame} \subseteq Frames \cup {None}
    /\ \A c \in Waiters : data[c] \in Seq(Items)
    /\ waiters \in [Waiters -> 0..1] /\ \A c \in Waiters : asleep[c] \subseteq {c}
    /\ on_close \subseteq Waiters /\ fired \subseteq Waiters
    /\ waiting_msgno \in Seq(Waiters) /\ refs \in Nat
    /\ got \in [Calls -> Items \cup {None}]
    /\ \A w \in Workers : at[w] = "idle" <=> frame[w] = None

\* On a serialized channel the handler is called in the order of the frames, and by
\* one thread at a time, unless a frame is empty: it has the number of the next one.
Serialized ==
    serialize /\ "empty" \notin irregular =>
        /\ \A i \in DOMAIN handled : handled[i] = i
        /\ Cardinality({w \in Workers : at[w] = "handler"}) <= 1

\* The beacon is never pushed to a queue that was released, unless the reply comes
\* between the timeout of the call and the removal of the handler: then it is popped
\* in the place of the beacon.
BeaconSafe == misused => "late" \in irregular

\* A call that waits ends when its reply comes or the connection breaks, before any
\* timeout, unless it starts to wait when the handlers have run.
WaitEnds == \A c \in Waiters : call[c] = "sent" ~> (call[c] = "done" \/ "unseen" \in irregular)

\* Every frame for the handler is handled, unless the connection breaks, or on a
\* serialized channel a frame was empty or was taken by a thread that waits.
AllHandled ==
    delivered > Len(handled) ~>
        (delivered = Len(handled) \/ ~connected \/ irregular \cap {"waited", "empty"} # {})

\* When the connection is broken the references the deliveries hold are given back,
\* but for those of the frames that stay in the hash.
ReferencesReturn ==
    ~connected ~> (refs = Cardinality(serialize_hash) \/ "empty" \in irregular)
=============================================================================
