# Verification of Vortex (libvortex-1.1)

Vortex is a C implementation of BEEP (RFC 3080 and 3081): peers open a
connection, create channels on it, send messages (MSG) on a channel and answer
them (RPY, ERR, or a series of ANS ended by NUL). Several threads of a context
work on a channel at once. The modules here describe the parts where their
order matters, from the window of a channel to the end of the library; TLC
checks them on small instances, and TLAPS proves the safety of the flow control,
the sequencer, the thread pool and the start and close of channels for every
value of their constants.

Source paths are those of `PROJECT.json`: `src/src/` is the core library.

## The system

| Component | State it keeps | Operations | Interacts through |
|---|---|---|---|
| Channel flow control (`vortex_channel.c`, reader, frame factory) | `last_seq_no`, `last_seq_no_expected`, `consumed_seqno`, `seq_no_window`, `window_size`, `desired_window_size`, `remote_consumed_seq_no`, `remote_window` | build a frame within the window, check an incoming frame, announce window (SEQ), apply a SEQ, change the window | frames and SEQ frames on one TCP stream each way |
| Sequencer (`vortex_sequencer.c`) | ready channels, their pending messages, `exit`, one mutex | queue a message, a pass over the ready channels, a send round, wake a channel on SEQ, remove a channel, stop | its mutex; application threads, the reader, the frame writer |
| Frame writer (`vortex_frame_send_raw`) | octets written, tries | write, wait for the socket, give up | the socket of a connection |
| Messages and replies (`vortex_channel.c`, reader) | `next_proposed_msgno`, `outstanding_msg`, `incoming_msg`, `stored_replies`, `last_ansno_sent`, `last_fixed_more_msg_no`, outstanding limit, `send_mutex`, `send_cond` | send a message or a part of one, answer in one or several pieces, take a message, take a reply | the sequencer, the reader, threads of the pool |
| Payload feeders (`vortex_payload_feeder.c`) | status, close_transfer, octets left | read, pause, resume by sending again | the sequencer reads them in a round |
| Delivery (`vortex_channel_invoke_received_handler`) | `serialize_hash`, `serialize_next_seqno`, previous fragments, references to the channel | join fragments, give a reply to who waits, call a handler in a task, hold a frame for later | reader to thread pool |
| Wait replies (`vortex_channel_wait_reply`) | `waiting_msgno`, a queue and a reference count per call, an on close handler | wait with a timeout, push the reply, push a beacon when the connection breaks, release | reader, application, thread of the on close handler |
| Channel life cycle | table of channels of a connection, `is_opened`, `being_closed`, references, the exchange on channel 0 | start (accepted, denied, deferred), close by one peer or both | channel 0, delivery, all of the above |
| Connection (`vortex_connection.c`) | `ref_count`, `is_connected`, `session`, `close_called`, `is_blocked`, on close handlers | create, ref, unref, free, shut down, close, block | reader loop, handlers, listener |
| Reader loop, I/O (`vortex_reader.c`, `vortex_io.c`) | lists of connections, `reader_queue`, `reader_stopped` | watch, build the set, wait, read, accept, foreach, change the mechanism, stop | async queue of requests |
| Listener (`vortex_listener.c`) | master connection, accepted connections that hold it | accept, shut down with all its connections | reader loop |
| Thread pool (`vortex_thread_pool.c`) | `threads`, `stopped`, events, the queue | new task, events, add and remove threads, resize, exit | async queue; every handler runs here |
| Async queue (`vortex_thread.c`) | `data`, `waiters`, mutex and condition | push, pop, pop with a timeout | conditions |
| Context (`vortex_ctx.c`, `vortex.c`) | `vortex_exit` | exit | reader, sequencer, pool, in this order |
| Channel pool (`vortex_channel_pool.c`) | channels ready and in use | get next, release, shrink, close | channel life cycle |
| Profiles, greetings, frame parsing, containers | tables and data | | |
| TLS, SASL, tunnel, HTTP, WebSocket, external, ALIVE, PULL, XML-RPC, bindings | | profiles and transports over the core | |

Hard behaviour, listed line by line under `hazards` in `PROJECT.json`: state
read under one mutex and used under another (stalled channels, the outstanding
list), rounds made with the mutex released, two threads that write the same
socket, 32-bit sequence numbers that wrap, window announcements withheld until
half of the window is used, replies handed over out of turn and in pieces,
senders that sleep on a condition another thread signals, waits that end by a
reply, a timeout or a broken connection at the same moment, channels looked up
by number twice, references released by several threads, a queue whose items
mean something else while the reader changes its mechanism, and the end of the
library while threads are being removed.

What makes each component correct: octets are never sent beyond the window and
always arrive (flow control); each channel sees a queue, nothing is forgotten
and nothing mixed (sequencer, writer); answers come back whole, once, in order,
and limits hold (replies); handlers are called in order and waits end
(delivery); both peers agree on which channels exist (life cycle); nothing is
used after its release and everything is released (connection); no wake-up is
lost and a thread remains to serve tasks (pool); what must end ends (exit).

## Modules

| Module | Models | Correspondence |
|---|---|---|
| `CreditPipe` | abstract: a pipe of octets whose reader grants credit | |
| `FlowControl` | one direction of a channel | variables named after the fields of `struct _VortexChannel`; `ReadLimit`/`SendFrame` are the sequencer's round, `RecvFrame` and `RecvSeq` the readers', `SetWindowSize` the application |
| `FlowControlProofs` | lemmas on numbers modulo the sequence space, theorems about `FlowControl` | |
| `FrameQueue` | abstract: what one channel sees of the sequencer | |
| `Sequencer` | sequencer thread, senders, reader | `pc` follows `__vortex_sequencer_run`, `vortex_sequencer_process_channels` and `__vortex_sequencer_do_send_round`; `adding` is a thread inside `vortex_sequencer_add_channel`; `reader` one inside `vortex_sequencer_signal_update` |
| `SequencerProofs` | theorems about `Sequencer`, `FrameQueue` among them | |
| `FrameWriter` | `vortex_frame_send_raw` called by two threads | `at` is the place in the function, `stream` what the socket took |
| `OrderedReplies` | abstract: messages answered in any order, answers that come back in order | |
| `Replies`, `MCReplies` | messages and replies of one channel between two peers, and instances for TLC | `sender` is a thread in `vortex_channel_send_msg_common`; `Answer` is `__vortex_channel_common_rpy`, which keeps `send_mutex` all along and is one step; `RecvReply` and `SignalReduced` are the two critical sections of the reader |
| `RepliesProofs` | lemmas on flattened sequences, theorems about `Replies`, `OrderedReplies` among them | |
| `AsyncQueue` | the queue threads wait on | operators that are parts of actions: `Push`, `PopAtOnce`, `PopWait`, `PopWoken`, `PopNothing`; `waiters` is the counter of the code, `asleep` those nobody signalled |
| `ThreadPool` | workers, tasks, events, the number of threads, the end of the pool | `pc` follows `__vortex_thread_pool_dispatcher` and `__vortex_thread_pool_process_events`; `exit` follows `vortex_exit_ctx` and `vortex_thread_pool_exit` |
| `ThreadPoolProofs` | theorems about `ThreadPool` and its queue | |
| `Delivery` | a channel from the reader to the handler, and calls that wait | `reading` is the frame the reader has in hands; `at` the place of a worker in `__vortex_channel_invoke_received_handler`; `call` the place in `vortex_channel_wait_reply` |
| `DeliveryProofs` | theorems about `Delivery` and the queues of its calls | |
| `Connection` | references, shutdown and close of connections; the reader's queue and loop; a listener; exit | `shutting` is the step of `__vortex_connection_set_not_connected`, `at` the place of an application thread in `vortex_connection_close` or `_block`, `readerAt` that of the reader; `serverAt`, `tunerAt`, `exitAt` are threads in `vortex_listener_shutdown`, `vortex_io_waiting_use`, `vortex_exit_ctx` |
| `ConnectionProofs` | theorems about `Connection` | |
| `ChannelStart` | channels started, answered and removed | `at` is the place of a thread in `__vortex_channel_new`, `serverAt` that of the thread that handles the start message; `table`, `refs` and their `server` counterparts are the tables and reference counts of the peers |
| `ChannelStartProofs` | theorems about `ChannelStart` | |
| `ChannelClose` | a channel closed by one peer or both | `closer` is the place in `__vortex_channel_close`, `handler` the place in `__vortex_channel_0_frame_received_close_msg` and `vortex_channel_notify_close`; `pending0` and `pending` are what the sequencer holds of channel 0 and of the channel |
| `ChannelCloseProofs` | theorems about `ChannelClose` | |

How they compose. `Sequencer` replaces the numbers of `FlowControl` by octets
counted from the start and lets the peer grant what `CreditPipe` allows, which
`FlowControl` implements. `Replies` lets the messages of a channel leave whole
and in the order they are queued, which is what `FrameQueue` promises and
`Sequencer` implements; the peer's frames come back the same way. `ChannelClose`
takes from `Sequencer` that each channel is a queue and that nothing orders the
frames of two channels, and from `Replies` that messages are answered in order.
`ThreadPool` and `Delivery` are composed with `AsyncQueue` by EXTENDS: the pool
has one queue and many waiters, each waiting call a queue of its own. `Delivery`
takes the order of replies from `Replies` and the threads from `ThreadPool`.
`Connection` abstracts a channel to whether its close is agreed to
(`ChannelClose`) and a frame to the task that handles it (`Delivery`).
`ChannelStart` contains the close of `ChannelClose` in short, because what a
late answer meets is a table a close has changed.

Abstractions. A frame is a record with its number and size, a message a number
and the octets it has left; MIME headers, payloads and logging are left out.
ERR takes the paths of RPY in `Replies`. Memory failures are left out. In `Replies` the
message number is the code's (from 0) and does not wrap. `last_seq_no` and the
other 32-bit fields of `FlowControl` wrap at `SeqMod`; `sent`, `received`,
`acked` and `consumed` are histories that no guard of the protocol reads. In
`Sequencer`, `stale` is a history too: it marks the reading of
`vortex_sequencer_add_channel` that is out of date (see Disagreements).

## Runs

| Run | Checks | Instance and why it is enough |
|---|---|---|
| `flow_control` | `TypeOK`, `CreditNeverExceeded`, `NoProtocolViolation`, `LimitNeverShrinks`, `ImplementsPipe` | `SeqMod` 16, windows 4 to 6, 40 octets: the numbers wrap more than twice, with windows, frames and SEQ frames on both sides of a wrap; odd and even windows for the half; window changes in the first 5 octets. The proof covers every other value |
| `sequencer` | `NeverWrongSize`, `SendableIsReady`, `ReadyIsServed`, `ImplementsQueues` | channel 0 and another, two messages of two octets, a window of 2 and frames of 1: messages in several frames, both passes, stalls with messages left, feeders closed in the middle, one removal, break or stop |
| `replies` | `NoAccusation`, `WithinLimit`, `AnsNumbered`, `ImplementsExchange`, `CallReturns` | two senders, three calls, answers of up to three pieces, and three settings: block at one outstanding message, fail at two, messages in parts without a limit. Three messages let two answers be stored and follow a third; three pieces let an answer have two ANS before its NUL, so that their numbers have an order. Four calls with answers of up to two pieces pass too (46,760 states) |
| `delivery` | `Serialized`, `BeaconSafe`, `WaitEnds`, `AllHandled`, `ReferencesReturn` | two workers, two calls of which one may wait, one message of the peer, two frames for each: two workers are needed to meet in the hash, and one waiting call meets reply, timeout and beacon in every order. Frames of 0 and 1 octets; serialized and complete, which contains the other settings' paths |
| `pool` | `NoLostWakeup`, `OneThreadLeft`, `EventSafe`, `ReleasedUnused`, `ExitReturns` | three workers of which one is there from the start, a task, an event, one call of add and of remove besides the resizing: two removals may overlap, an exit may meet each step of a removal, and a task may end the context |
| `start` | `ReturnedUsable`, `SameChannels`, `Referenced`, `StartReturns` | two threads, three starts of the same number, one close by either peer: two threads choose one number, a denied start meets a new one, a late answer a closed channel, and a number kept by the peer is closed while it is started again |
| `close` | `Unaccused`, `AnsweredFirst`, `RemovedByConsent`, `Agreement`, `CloseReturns` | two peers that close up to twice each, one message of one of them, handlers that accept, decline or are told; timeouts and a broken connection at any point. Two messages of each peer pass too, without timeouts and breaks (the safety properties) |
| `listener` | `ReferencesHeld`, `ListenerTakesAll`, `OnCloseRuns`, `ReaderStops` | a listener, an accepted connection with a frame, `vortex_listener_shutdown` and `vortex_exit_ctx` |
| `reader` | `BlockedNotRead`, `ForeachReturns`, `ClosedFreed` | an initiator with a frame, one call to block, a change of the mechanism, and the listener that keeps the reader awake |
| `sequencer_lost`, `writer_mixed`, `reader_stop` | `PendingSent`, `FramesWhole`, `StopObeyed` | the smallest instance that shows that the code does not have the property |

`listener` and `reader` are two instances of `Connection`: an initiator, an
accepted connection, an exit and a change of mechanism together are beyond TLC
(a connection alone has about 20 independent places), and what the two ends of a
connection share is modelled once. The type invariants of the other modules
(`TypeOK` in each) hold in the same instances; only that of `flow_control` is
listed, because only its fields have a range the code could leave.

`MaxMessages`, `MaxMsgs`, `MaxCalls`, `MaxParts`, `MaxFrames`, `MaxStarts`, `Once`,
`MaxCloses`, `MaxAdds`, `MaxRemoves`, `MaxBlocks`, `Bytes`, `ChangeUntil` and the
`May...` constants are the bounds on what an instance does; every other
constant is a parameter of the code or of the application.

Abstract specifications are checked as properties: `ImplementsPipe`
(`FlowControl` implements `CreditPipe`, its fairness included),
`ImplementsQueues` (each channel of `Sequencer` is a `FrameQueue`) and
`ImplementsExchange` (`Replies` implements `OrderedReplies`).

`CHECK_DEADLOCK FALSE` is given where the code really stops: a writer that has
no frame left, a library that was finished, calls that have all been made.

The properties of `close` name, in the history `irregular`, the events after
which the code does not keep them, and each is needed: without it TLC finds a
counterexample. They read as a list of what to know about closing:

- `slipped`: a thread passed the test of `being_closed` before the close and
  queues its message after it. The peer has removed the channel and shuts the
  connection down.
- `early`: of two closes in transit, one is accepted while messages of the peer
  that accepts are unanswered. The other removes the channel, and shuts the
  connection down when it gets them (`vortex_channel_notify_close` waits, the
  branch for closes in transit does not).
- `gone`: a close that crosses another is looked up, or sent, after the channel
  was removed, and refused with 554. When this reaches the thread that closes
  before it is told that the peer's close was accepted, its channel stays.
- `late`: no answer in time is taken for a yes.
- `failed`: after a reply with ERR the thread that closes waits for its timeout
  (`vortex_sequencer_direct_send` counts RPY and NUL as written).
- `declined`: a close the peer declined leaves `being_closed` set (see
  Disagreements).

The state `crashed` is the use of a channel looked up a second time and not
found, because a close in between removed it or the connection broke.

The other modules do the same:

- `ThreadPool`. `overlapped`: threads are asked to stop while others that were
  asked before still count, so all may go. `removing`: the context ends while a
  thread is being removed, whose lists `vortex_thread_pool_exit` releases
  without a lock.
- `Delivery`. `empty`: a frame without octets goes to a serialized channel, and
  has the number of the next one. `waited`: a reply of a serialized channel is
  taken by the thread that waits, and its octets are never added to
  `serialize_next_seqno`. `unseen`: a call looked at the connection before it
  broke and installs its handler when the handlers have run. `late`: a reply
  comes after the timeout of its call and before the handler is removed, and is
  popped in the place of the beacon.
- `ChannelStart`. `stolen`: a denied start removes its channel twice, by number,
  the second time perhaps another thread's. `timedout`: a start was given up and
  the peer accepts it all the same. `hasty`: a deferred start was answered before
  its start handler returned, and the channel may be gone when the library asks
  it whether it was deferred. `early`: a close took a channel that is in the table
  and whose thread has not taken its reference yet; `Referenced` says that this
  takes a start that was given up.
- `Connection`. `overreleased`: `vortex_connection_close`, called on an accepted
  connection, could not get its reference and releases one that is not its own.
  `late`: a connection is accepted while the listener is shut down. `swallowed`:
  a foreach comes where the reader expects the end of a change of mechanism.
  `unstopped`: the item that stops the reader was forgotten.

### Fairness

Threads that loop for ever are weakly fair: the sequencer and the readers in
`FlowControl`, a sender inside a call and the readers in `Replies`. A thread
that waits for a mutex gets it in the end although the mutex is taken and given
back in between, so what needs a mutex is strongly fair (`Sequence` and
`MoveToReady` in `Sequencer`, `Resume` and `SignalReduced` in `Replies`): POSIX
mutexes promise no order, but the code relies on no thread being kept out for
ever. In `Sequencer` a stalled channel receives SEQ frames (strongly fair,
because the one reader of the context serves the channels in turn): this is what
`ImplementsPipe` says of `FlowControl`. In `ChannelClose` and `ChannelStart`
threads, sequencers and readers are weakly fair, and timeouts are not fair at
all, so `CloseReturns` and `StartReturns` never rely on them; a start handler
decides, and a deferred start is answered. In `ThreadPool` workers and the
thread that exits go on (what a thread calls returns), and nobody has to give
the pool a task. In `Delivery` the reader, the workers, the calls and the threads
of the on close handlers are weakly fair; the timeout of a call is not, so
`WaitEnds` is about replies and beacons. In `Connection` the reader, threads
inside the library and handlers go on; the peer, and the application between
calls, owe nothing. Two duties are the application's: a message that
was delivered is answered, and a message left open is ended (strongly fair,
because another sender may hold the mutex). Nobody owes a new message, a window
change, a pause, a failure or a resumption.

The program of `Connection` finishes the library when no call of its own that
waits for the reader is in progress (`CallsReturned`), and the sixty seconds of
`vortex_reader_stop` only pass when the reader forgot to stop.

### Disagreements

Three are runs that expect a violation, with a finding in `PROJECT.json`:

- `sequencer_lost`: the wake-up of a channel is lost when a SEQ frame is applied
  between the reading of `vortex_channel_is_stalled` and the queueing of the
  message. `SendableIsReady` shows that it is the only way to forget a channel.
- `writer_mixed`: the reader and the sequencer write a socket without a lock.
- `reader_stop`: `vortex_reader_read_pending` remembers what the last item of a
  batch said, so the item that stops the reader is forgotten when a connection
  was pushed behind it.

The others were observed while the code was modelled, with the models in the
form that shows them, and are described here without a run of their own:

- A window halved when half of it is used is announced although it ends where
  the old one ends (`vortex_channel.c:4471`); a Vortex peer then closes the
  connection. `flow_control` asks for its changes before that.
- A paused transfer does not block its channel (`vortex_sequencer.c:328`), as
  the documentation of `vortex_payload_feeder_pause` says it does. `sequencer`
  closes transfers that are paused. Without it the channel is dropped from the
  ready set with what is queued behind the paused transfer, also when the
  feeder was resumed before the sequencer has its mutex again
  (`vortex_sequencer.c:625`), and a message may be moved away between two of its
  frames; `stale` marks the first, and the refinement of `FrameQueue` is stated
  for closed transfers. The other theorems about `Sequencer` cover both.
- A frame given up after short writes leaves the connection open
  (`vortex_frame_factory.c:2049`).
- Parts of a reply out of turn replace one another (`vortex_channel.c:3284`).
  `replies` uses `vortex_channel_send_rpy_more` in turn only (`PatientParts`).
- A message left open and an outstanding limit of one block the call that would
  end it. `replies` has no limit when messages go in parts.
- A declined close leaves the channel flagged as being closed
  (`vortex_channel.c:5893`).
- Removals that overlap leave a pool without threads, and the step by which
  threads are added may pass the limit of threads (`vortex_thread_pool.c:280`).
- `vortex_thread_pool_exit` releases the lists while a thread that was asked to
  stop may unlink itself.
- The beacon of a broken connection may reach a waiting object that was
  released (`BeaconSafe` names the only case), and a serialized channel with
  waiting calls stores frames for ever. Frames that stay in `serialize_hash`
  keep their references.
- `vortex_connection_close` releases a reference of an accepted connection that
  it did not get (`vortex_connection.c:2866`).
- The reply cache of channel starts takes a reply that differs for a hit
  (`vortex_channel.c:779`).
- A new channel is in the table with the one reference of the table, the handlers
  for added channels are called, and then its thread takes a reference "to ensure
  we don't loose reference during creation" (`vortex_channel.c:944`). When a start
  of the same number was given up before and the peer had accepted it, a close by
  the peer comes in between and frees the channel (`vortex_channel.c:936-945`,
  `early` above).
- A channel the peer closes before `vortex_channel_new` returns it is a dangling
  pointer for the caller: `ReturnedUsable` excludes closed channels.

## Proofs

Each module of proofs follows one plan. None of the safety properties is
inductive, so an invariant (`IInv` or `Inv`), a conjunction of named parts, is shown
to hold at first and to survive every step: one lemma per action or group of
actions with the same effect, one step per part. The properties follow from it.
Each invariant was checked by TLC as an invariant on the instance of the run before it
was proved.

**`FlowControlProofs`**, for every `SeqMod`, window set, frame size and amount of
octets that `FlowAssumption` admits:

| Theorem | Says |
|---|---|
| `Invariant` | `IInv` always holds |
| `TypeCorrect`, `CreditSafe`, `NoShutdown` | `TypeOK`, `CreditNeverExceeded` and `NoProtocolViolation` always hold |
| `LimitGrows` | `LimitNeverShrinks`: no step takes back what the receiver allowed |
| `PipeSafety` | every behaviour is one of `CreditPipe`, but for its fairness |
| `ReceiverHolds` | octets in flight fit in the largest window |

Whether a frame is
accepted depends on the credit its sender had, which depends on SEQ frames that
are still in flight. `IInv` adds that every 32-bit field is its history modulo
`SeqMod` (`FieldsFollow`), that the frames in flight carry the octets from
`received` to `sent` in order (`DataInOrder`), that the SEQ frames in flight
lead, each granting more than the last, from what the sender knows to what the
receiver granted (`SeqsInOrder`), and that the limit a round has read is still
good (`LimitRead`). Each C comparison is then shown to decide the question on
the unbounded histories (`RoomLeft`, `WindowLeft`, `FrameAccepted`, `BytesLeft`,
`NotStalled`, `InsideIs`), from the lemmas on numbers
modulo `SeqMod` the module begins with.

Assumptions. `FlowAssumption`: a window is a positive C int, so it fits in half
of the sequence space. `SafeChanges`: windows are not changed, or changed by
less than half while no limit in use has passed the end of the sequence space.
Without it the comparison of `vortex_channel_update_incoming_buffer`, which
does not wrap, and the halved window above make the theorems about announcing
false; with one window (no call to `vortex_channel_set_window_size`) it holds
by itself.

**`SequencerProofs`**, for any channels, messages, windows and frame sizes:

| Theorem | Says |
|---|---|
| `Types` | the shapes of queues, locals and histories |
| `SizesAreRight`, `NobodyForgotten` | `NeverWrongSize` and `SendableIsReady` always hold |
| `WithinCredit` | no channel sends beyond its credit |
| `EachChannelIsAQueue` | with `ClosesOnly`, `ImplementsQueues`: each channel sees a `FrameQueue` |

A round reads the credit and the head of a queue under the mutex, releases it to
write, and takes it again. `IInv` says what of that reading is still true then:
the size that was found fits in the credit (`CreditInv`), every queued message
asks for octets but the one whose last frame is under way (`MessageInv`), and a
channel that was stalled when it was left, and no longer is, is one the reader
is about to wake (`AfterInv`). `NobodyForgotten` is about connections that work: on a
broken one the round cannot have its reference, and the channel is dropped with
what is queued (`vortex_sequencer.c:573`). The refinement adds what is known of a message
that was begun (`OpenInv`). `ClosesOnly`, a hypothesis of the refinement alone,
says that transfers are paused with `close_transfer`; without it the refinement
is false, which is the disagreement on paused transfers above.

**`ThreadPoolProofs`**, for any number of workers, tasks and events:

| Theorem | Says |
|---|---|
| `Types` | the shapes, and that `waiters` counts the threads in the wait |
| `NobodySleepsOnAnItem` | `NoLostWakeup` |
| `HandlersAreSafe` | `EventSafe` |
| `AThreadIsLeft`, `ReleasedAfterUse` | `OneThreadLeft` and `ReleasedUnused` |

The argument counts. Threads in the wait that were signalled and have not popped
are on their way, and while somebody is asleep there are as many of them as
items (`QueueInv`, which is `NoLostWakeup` and that `waiters` counts the wait).
An event handler is called by one worker because `processing_events` has one
holder at a time, and its event has a reference for the list and one for the
call (`EventInv`). A thread is left because the beacons to stop, queued or popped,
are fewer than the threads of the list (`StopInv`), and the pool is released
unused because nothing is being removed from the time the threads are joined
(`RemovingInv`, `JoinedInv`). The cardinalities are those of sets of threads and
of places in the queue, with the facts of the library.

**`ChannelCloseProofs`**, for any bounds on closes, messages and breaks:

| Theorem | Says |
|---|---|
| `Types` | the shapes and bounds |
| `Consent`, `AllAnswered`, `NobodyAccused`, `BothOrNone` | `RemovedByConsent`, `AnsweredFirst`, `Unaccused`, `Agreement` |

Consent is inductive with little: a close and an ok on the way are from a peer
that closes (`FrameInv`), and who takes one knows (`ConsentInv`). The others count
frames by their numbers, which follow one another from the counters of the sender
through the queue of the channel and the connection to the counters of the
receiver (`Numbered`, `CountInv`); that a peer waits for its replies before it
closes then leaves nothing of the channel on its way (`NothingLeft`, `DoneInv`).
`BothOrNone` adds what a peer that closes is owed: its close is in the other's
hands, or on its way, or was answered, once (`AskInv`). Late answers and a broken
connection are excluded as the properties exclude them.

**`ChannelStartProofs`**, for any number of threads, starts and channel numbers:

| Theorem | Says |
|---|---|
| `ShapesHold` | the shapes |
| `ReturnedIsUsable`, `SameOnBothSides`, `NobodyUsesAFreedChannel` | `ReturnedUsable`, `SameChannels`, `Referenced` |

The invariant is told of calls, not of threads: a call has a place, and is in
the table of either peer or not. Its parts are the holders of each reference
(`RefsInv`, `ServerInv`), what each place knows of the answer (`ReplyInv`), where
the exchange of a close is between the two tables (`CloseInv`) and that while
nobody gave up the peer has no channel the caller does not have (`SameInv`). From the
last follows that only after a start was given up a channel may be closed before its
thread has a reference (`EarlyInv`), and with the holders that nothing freed is used
(`UseInv`). All but the shapes are claimed while no denied start has taken a channel that is not
its own ("stolen"), which the double removal of a denied start makes possible.

**`DeliveryProofs`**, for any number of workers, calls and frames, with and without
the complete flag:

| Theorem | Says |
|---|---|
| `BeaconIsSafe`, `HandledInOrder` | `BeaconSafe`, `Serialized` |

For the beacon the invariant follows the one on close handler, the one reply and
the one beacon of a call (`BeaconOnce`, `ReplyOnce`): the handler is on the
connection, or in its thread, or has pushed the beacon, and only while the call is
between its installation and the pop that takes the beacon, so that its reference
(`Referenced`) covers the push. It is claimed until a reply is late.

For the order, a frame has its number in the series of the frames (a history) and
its sequence number, and the code compares only the latter. The frames out are so
far apart in octets as in number at least (`Ordered`), hence the one that has
the number expected is the next in the series and none has it while a handler runs;
and a frame is in one place (`OnePlace`), so that no other copy of it is handled. A
frame without octets breaks the first part, a reply taken by a thread that waits
does not.

**`RepliesProofs`**, for any senders, calls, pieces of an answer and settings:

| Theorem | Says |
|---|---|
| `Types` | the shapes; message numbers stay below the number of calls |
| `NobodyAccused`, `NumbersFromZero` | `NoAccusation`, `AnsNumbered` always hold |
| `Limited` | `WithinLimit` always holds |
| `Ordered` | with `PatientParts`, `ImplementsExchange`: the channel is an `OrderedReplies` |

A message number goes through a line of places without gaps, and the invariant
`Inv` names where the line is cut: `Entering` is the number of the next piece to be
queued, `Arriving` of the next on the wire, `Answered` that whose turn it is, `Oldest`
the first outstanding. The list of outstanding messages counts up from `Oldest`
(`OutInv`), the pieces on the wire from `Arriving` to `Entering` (`WireInv`), the
numbers to be answered from `Answered` (`ArriveInv`), so the checks of
`vortex_channel_check_msg_no` and of the reader find the number they expect. On the
way back each piece follows the one before (`BackInv`): it goes on with its answer,
or begins the next one after the last piece; what is stored is what was handed over
for the numbers after `Answered` (`HandedInv`). The hard step is a reply in turn,
which takes the stored ones with it. That this is a run without gaps (`PiecesAre`),
that its ANS replies are numbered as the recursion on `last_ansno_sent` numbers them
(`AnsNosIs`, `RunNumbers`) and how far it goes (`FollowingIs`) are lemmas, and so is
what `FlattenSeq` computes (`Flattened`). A blocked call counts as a message that is
not numbered yet (`CallInv`), because two of them may have taken the last numbers.

The induction theorems of the library cannot be used, and these lemmas are
inductions. They are made with sets: a set of numbers that has 0, and with each number
below n the next, has all up to n (`UpTo`), because else there is a least one missing
(`LeastElement`). A recursive function is characterised by the sequences of its first
values, which exist and are unique for each length.

`NobodyAccused`, `NumbersFromZero` and `Limited` hold with any use of
`vortex_channel_send_rpy_more`; `Ordered` has the hypothesis `PatientParts` because
without it parts are lost, which is the disagreement on parts of a reply above.

**`ConnectionProofs`**, for any initiators, accepted connections and bounds that
`ConnectionAssumption` admits:

| Theorem | Says |
|---|---|
| `Types` | the shapes |
| `CountsHolders`, `ShutdownTakesAll`, `BlockedUnread` | `ReferencesHeld`, `ListenerTakesAll`, `BlockedNotRead` |

`CountsHolders` needs more than the sum of the holders. A thread that releases a
reference must have it (`CloseInv`: one thread is inside `vortex_connection_close`, with
the reference of the creator), a connection is in the queue of the reader once or in its
list, and a connected one the listener accepted is in one of them (`WatchInv`), and
nothing is known of a connection before it is created (`LifeInv`). The holders are counted by their places, the accepted
connections apart, since a listener has one reference for each of them. The theorem
is claimed, as the property is, until `vortex_connection_close` releases a reference it
did not get.

`ShutdownTakesAll` follows the question of `vortex_listener_shutdown` through the
queue: an answer is for the thread that asked (`AskInv`), and a connection that is still
connected is in the list, before the question in the queue, or not yet visited
(`VisitInv`); like the property this is claimed while no connection is accepted
during the shutdown. `BlockedUnread` is the same question asked by `vortex_connection_block`:
while it is not answered the set of the reader may still have the connection
(`BlockInv`).

What stays with TLC. Every invariant and every safety property of a step that the
runs check is a theorem, and so is the safety of the
three abstractions (`PipeSafety`, `EachChannelIsAQueue`, `Ordered`). Left are the properties of liveness (`ReadyIsServed`,
`CallReturns`, `CloseReturns`, `StartReturns`, `ExitReturns`, `WaitEnds`, `AllHandled`,
`ReferencesReturn`, `OnCloseRuns`, `ReaderStops`, `ForeachReturns`, `ClosedFreed` and the
fairness part of `ImplementsPipe`), which are out of the prover's reach, and
`FrameWriter`, whose one run shows a disagreement.

## Not modelled

`PROJECT.json` gives the reason for each component. The channel pool, the ALIVE
profile and the close of channel 0 are in the plan. Parsing, containers,
profiles and logging are data handling without a protocol of their own. TLS,
SASL and the transports change how octets travel, not what is said; XML-RPC and
the bindings are marshalling and glue over the modelled API, and together with
these data-handling parts they are most of the code, which is why the modules
stand for a small share of its lines. The handlers with which an application
replaces the choice of frame sizes may return anything and are left out, and so
are the messages of no octets in `Sequencer`.

Inside modelled components: first level and connection-wide frame handlers,
reconnection, port sharing and pre-read handlers, memory failures, the periods
of the thread pool (whether one passed is left open), a fatal error of the I/O
mechanism, `vortex_connection_close` on a running master listener, starts made
inside start handlers, and the reply cache of channel starts. A start message that
is left to another component (`VORTEX_CONNECTION_SKIP_HANDLING`,
`vortex_channel.c:7300`) gets no answer from the library; nothing in the repository
sets the flag, and `ChannelStart` answers every start. In `ThreadPool` a new task looks
at the exit and is queued in one step, and the application makes no call to the pool
(new task, add, remove, removal of an event) after its end: the code has no check of
its own for most of them. In `Connection` the reader's unwatch, its idle handler
and its cleanup after a descriptor error are left out.

## Plan

1. Done: `FlowControl` with its abstract pipe and proofs; `Sequencer`,
   `FrameQueue`, `FrameWriter`; `Replies`, `OrderedReplies`; `ChannelClose`.
2. Done: `AsyncQueue`, `ThreadPool`, `Delivery`, `Connection` (with the reader
   loop and the listener), `ChannelStart`.
3. Done: proofs of `FlowControl`, `Sequencer` with `FrameQueue`, `ThreadPool`,
   `ChannelClose`, `ChannelStart`, `Delivery`, `Connection` and `Replies` with
   `OrderedReplies`.
4. Left: `ChannelPool`, the ALIVE profile, the close of channel 0 inside
   `Connection`, senders blocked by the limit when a channel closes.
   The question for `ChannelPool`: `vortex_channel_pool_get_next_ready_full`
   finds a ready channel under the mutex and marks it busy after releasing it
   (`vortex_channel_pool.c:1280-1295`), so another caller may get it, or
   `vortex_channel_pool_remove` close it, in between; and the latter waits for
   the peer's answer to its close with that mutex held (`:730`).
