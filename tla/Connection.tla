----------------------------- MODULE Connection -----------------------------
(***************************************************************************)
(* The life of connections: who holds references to them, how they are     *)
(* shut down and closed, and the loop of the reader that watches them.     *)
(*                                                                         *)
(* A connection is freed when its reference count gets to 0. References    *)
(* are held by the application that created it, the queue and the list of  *)
(* the reader, calls in progress, frames being handled, the thread of an   *)
(* on-close handler, and, for a listener, the connections it accepted.     *)
(* Channels are abstracted to the answer of the peer to their close (see   *)
(* ChannelClose), a frame to the task that handles it (see Delivery).      *)
(***************************************************************************)
EXTENDS Integers, Sequences, FiniteSets

CONSTANTS Initiators,   \* connections made with vortex_connection_new
          Accepted,     \* connections the listener may accept
          Listener,     \* the master listener
          MayStop,      \* the library may be finished (vortex_exit_ctx)
          MayChange,    \* the I/O mechanism may be changed
          MayShutdown,  \* vortex_listener_shutdown may be called
          MaxBlocks     \* bound on calls to vortex_connection_block

Peers == Initiators \cup Accepted
Conns == Peers \cup {Listener}

(* Threads of the application: the one that created a connection, and the  *)
(* thread of the pool that handles a frame of it.                          *)
Threads == (Initiators \X {"owner"}) \cup (Peers \X {"task"})
ThreadConn(t) == t[1]
Owner(c) == <<c, "owner">>
Task(c) == <<c, "task">>

Reader == <<Listener, "reader">>
Server == <<Listener, "server">>      \* the thread inside vortex_listener_shutdown
Nobody == <<Listener, "nobody">>

ASSUME ConnectionAssumption ==
    /\ Initiators \cap Accepted = {} /\ Listener \notin Peers
    /\ {Reader, Server, Nobody} \cap Conns = {}
    /\ {MayStop, MayChange, MayShutdown} \subseteq BOOLEAN
    /\ MaxBlocks \in Nat

VARIABLES refCount,     \* connection->ref_count, 0 before and after its life
          created,
          connected,    \* connection->is_connected
          session,      \* connection->session is a socket
          closeCalled,
          blocked,      \* connection->is_blocked
          onClose,      \* its on-close handler
          linked,       \* accepted connections that hold their listener
          owned,        \* the reference of the creator is still there
          shutting,     \* the step of __vortex_connection_set_not_connected
          shutBy,       \* and the thread inside
          queue,        \* ctx->reader_queue
          conList,      \* ctx->conn_list and ctx->srv_list
          readerAt, back, left, fdSet, pending, goOn, dropping,
          at,           \* threads of the application
          refRead, blocks,
          serverAt, tunerAt, exitAt,
          notified,     \* threads whose foreach was notified
          stopped,      \* items of ctx->reader_stopped
          irregular, crashed

connVars == <<refCount, created, connected, session, closeCalled, blocked,
              onClose, linked, owned, shutting, shutBy>>
readerVars == <<queue, conList, readerAt, back, left, fdSet, pending, goOn, dropping>>
appVars == <<at, refRead, blocks, serverAt, tunerAt, exitAt, notified, stopped,
             irregular, crashed>>
vars == <<connVars, readerVars, appVars>>

-----------------------------------------------------------------------------
(* vortex_connection_is_ok *)
Ok(c) == session[c] /\ connected[c]
Exiting == exitAt # "idle"
Alive(c) == refCount[c] > 0
Busy(t) == \E c \in Conns : shutBy[c] = t

(* vortex_connection_unref and vortex_connection_free: freeing an accepted *)
(* connection releases its listener.                                       *)
Released(refs, c) ==
    LET less == [refs EXCEPT ![c] = @ - 1]
    IN  IF less[c] = 0 /\ c \in linked THEN [less EXCEPT ![Listener] = @ - 1] ELSE less

Unref(c) == refCount' = Released(refCount, c)
Ref(c) == refCount' = [refCount EXCEPT ![c] = @ + 1]

(* Every use of a connection has to find it alive. *)
Use(c) == crashed' = IF Alive(c) THEN crashed ELSE crashed \cup {"connection"}

(* The queue of the reader; the last field is the connection to watch, or   *)
(* the thread to notify.                                                    *)
Push(item) == queue' = Append(queue, item)
Item(type, c) == [type |-> type, conn |-> c]

-----------------------------------------------------------------------------
(* __vortex_connection_set_not_connected, in four steps: the flag, under   *)
(* its mutex; the on-close handlers; the socket; the reference taken.      *)

BeginShutdown(t, c) ==
    IF connected[c]
      THEN /\ Ref(c)
           /\ connected' = [connected EXCEPT ![c] = FALSE]
           /\ shutting' = [shutting EXCEPT ![c] = "handlers"]
           /\ shutBy' = [shutBy EXCEPT ![c] = t]
      ELSE UNCHANGED <<refCount, connected, shutting, shutBy>>

\* Mutant: the handlers are called only while the connection is ok.
InvokeWhileOk(c) ==
    /\ shutting[c] = "handlers"
    /\ IF onClose[c] = "installed" /\ ~Exiting /\ Ok(c)
         THEN onClose' = [onClose EXCEPT ![c] = "running"] /\ Ref(c)
         ELSE UNCHANGED <<onClose, refCount>>
    /\ shutting' = [shutting EXCEPT ![c] = "socket"]
    /\ Use(c)
    /\ UNCHANGED <<created, connected, session, closeCalled, blocked, linked, owned, shutBy,
                   readerVars, at, refRead, blocks, serverAt, tunerAt, exitAt, notified,
                   stopped, irregular>>

(* __vortex_connection_invoke_on_close: the handler is taken from the list *)
(* and given a thread, which holds a reference.                            *)
InvokeOnClose(c) ==
    /\ shutting[c] = "handlers"
    /\ IF onClose[c] = "installed" /\ ~Exiting
         THEN onClose' = [onClose EXCEPT ![c] = "running"] /\ Ref(c)
         ELSE UNCHANGED <<onClose, refCount>>
    /\ shutting' = [shutting EXCEPT ![c] = "socket"]
    /\ Use(c)
    /\ UNCHANGED <<created, connected, session, closeCalled, blocked, linked, owned, shutBy,
                   readerVars, at, refRead, blocks, serverAt, tunerAt, exitAt, notified,
                   stopped, irregular>>

CloseSocket(c) ==
    /\ shutting[c] = "socket"
    /\ session' = [session EXCEPT ![c] = FALSE]
    /\ shutting' = [shutting EXCEPT ![c] = "unref"]
    /\ Use(c)
    /\ UNCHANGED <<refCount, created, connected, closeCalled, blocked, onClose, linked, owned,
                   shutBy, readerVars, at, refRead, blocks, serverAt, tunerAt, exitAt,
                   notified, stopped, irregular>>

EndShutdown(c) ==
    /\ shutting[c] = "unref"
    /\ Unref(c)
    /\ Use(c)
    /\ shutting' = [shutting EXCEPT ![c] = "no"]
    /\ shutBy' = [shutBy EXCEPT ![c] = Nobody]
    /\ UNCHANGED <<created, connected, session, closeCalled, blocked, onClose, linked, owned,
                   readerVars, at, refRead, blocks, serverAt, tunerAt, exitAt, notified,
                   stopped, irregular>>

(* __vortex_connection_on_close_do_notify, in its own thread. *)
OnCloseNotified(c) ==
    /\ onClose[c] = "running"
    /\ onClose' = [onClose EXCEPT ![c] = "done"]
    /\ Unref(c)
    /\ Use(c)
    /\ UNCHANGED <<created, connected, session, closeCalled, blocked, linked, owned, shutting,
                   shutBy, readerVars, at, refRead, blocks, serverAt, tunerAt, exitAt,
                   notified, stopped, irregular>>

-----------------------------------------------------------------------------
(* The application *)

(* vortex_connection_new up to the exchange of greetings, which may fail. *)
NewConnection(c) ==
    /\ at[Owner(c)] = "none"
    /\ ~Exiting
    /\ created' = created \cup {c}
    /\ owned' = owned \cup {c}
    /\ refCount' = [refCount EXCEPT ![c] = 1]
    /\ \E greeted \in BOOLEAN :
         /\ connected' = [connected EXCEPT ![c] = greeted]
         /\ session' = [session EXCEPT ![c] = greeted]
         /\ at' = [at EXCEPT ![Owner(c)] = IF greeted THEN "greeted" ELSE "open"]
         /\ onClose' = [onClose EXCEPT ![c] = IF greeted THEN "installed" ELSE "none"]
    /\ UNCHANGED <<closeCalled, blocked, linked, shutting, shutBy, readerVars,
                   refRead, blocks, serverAt, tunerAt, exitAt, notified, stopped,
                   irregular, crashed>>

(* vortex_reader_watch_connection *)
WatchConnection(c) ==
    /\ at[Owner(c)] = "greeted"
    /\ Ref(c)
    /\ Push(Item("connection", c))
    /\ at' = [at EXCEPT ![Owner(c)] = "open"]
    /\ UNCHANGED <<created, connected, session, closeCalled, blocked, onClose, linked, owned,
                   shutting, shutBy, conList, readerAt, back, left, fdSet, pending, goOn,
                   dropping, refRead, blocks, serverAt, tunerAt, exitAt, notified, stopped,
                   irregular, crashed>>

Working(t) == at[t] = IF t[2] = "owner" THEN "open" ELSE "run"
GoesOn(t) == IF t[2] = "owner" THEN "open" ELSE "run"

\* Mutant: the call does not wait for the reader.
BlockAndGo(c) ==
    /\ at[Owner(c)] = "open" /\ ~closeCalled[c]
    /\ ~Exiting
    /\ blocks < MaxBlocks
    /\ blocks' = blocks + 1
    /\ blocked' = [blocked EXCEPT ![c] = ~@]
    /\ UNCHANGED <<refCount, created, connected, session, closeCalled, onClose, linked, owned,
                   shutting, shutBy, readerVars, at, refRead, serverAt, tunerAt, exitAt,
                   notified, stopped, irregular, crashed>>

(* vortex_connection_block: the flag, and a foreach without function that  *)
(* gets the reader around its loop.                                        *)
Block(c) ==
    /\ at[Owner(c)] = "open" /\ ~closeCalled[c]
    /\ ~Exiting
    /\ blocks < MaxBlocks
    /\ blocks' = blocks + 1
    /\ blocked' = [blocked EXCEPT ![c] = ~@]
    /\ Push(Item("foreach", c))
    /\ at' = [at EXCEPT ![Owner(c)] = "blocking"]
    /\ UNCHANGED <<refCount, created, connected, session, closeCalled, onClose, linked, owned,
                   shutting, shutBy, conList, readerAt, back, left, fdSet, pending, goOn,
                   dropping, refRead, serverAt, tunerAt, exitAt, notified, stopped,
                   irregular, crashed>>

BlockReturns(c) ==
    /\ at[Owner(c)] = "blocking"
    /\ c \in notified
    /\ notified' = notified \ {c}
    /\ at' = [at EXCEPT ![Owner(c)] = "open"]
    /\ UNCHANGED <<connVars, readerVars, refRead, blocks, serverAt, tunerAt, exitAt, stopped,
                   irregular, crashed>>

(* A handler shuts its connection down. *)
TaskShutdown(c) ==
    /\ at[Task(c)] = "run"
    /\ BeginShutdown(Task(c), c)
    /\ Use(c)
    /\ at' = [at EXCEPT ![Task(c)] = "closed"]
    /\ UNCHANGED <<created, session, closeCalled, blocked, onClose, linked, owned, readerVars,
                   refRead, blocks, serverAt, tunerAt, exitAt, notified, stopped, irregular>>

(* The handler returns and its frame is released. *)
TaskEnds(c) ==
    /\ at[Task(c)] \in {"run", "closed"}
    /\ ~Busy(Task(c))
    /\ Unref(c)
    /\ Use(c)
    /\ at' = [at EXCEPT ![Task(c)] = "ended"]
    /\ UNCHANGED <<created, connected, session, closeCalled, blocked, onClose, linked, owned,
                   shutting, shutBy, readerVars, refRead, blocks, serverAt, tunerAt, exitAt,
                   notified, stopped, irregular>>

-----------------------------------------------------------------------------
(* vortex_connection_close, called by the thread t. The creator does not   *)
(* call it when somebody else has, as the function says.                   *)

CloseCall(t) ==
    LET c == ThreadConn(t) IN
    /\ Working(t)
    /\ t[2] = "owner" => ~closeCalled[c]
    /\ Use(c)
    /\ closeCalled' = [closeCalled EXCEPT ![c] = TRUE]
    /\ at' = [at EXCEPT ![t] = IF closeCalled[c] THEN "closed"
                               ELSE IF Ok(c) THEN "ref" ELSE "release"]
    /\ UNCHANGED <<refCount, created, connected, session, blocked, onClose, linked, owned,
                   shutting, shutBy, readerVars, refRead, blocks, serverAt, tunerAt, exitAt,
                   notified, stopped, irregular>>

(* The reference taken for the call: it is refused when the connection     *)
(* broke in between, and a reference is released all the same.             *)
CloseRef(t) ==
    LET c == ThreadConn(t) IN
    /\ at[t] = "ref"
    /\ Use(c)
    /\ IF Ok(c)
         THEN Ref(c) /\ at' = [at EXCEPT ![t] = "channels"] /\ UNCHANGED <<owned, irregular>>
         ELSE /\ Unref(c)
              /\ owned' = owned \ {c}
              /\ irregular' = IF c \in Accepted THEN irregular \cup {"overreleased"} ELSE irregular
              /\ at' = [at EXCEPT ![t] = "closed"]
    /\ UNCHANGED <<created, connected, session, closeCalled, blocked, onClose, linked,
                   shutting, shutBy, readerVars, refRead, blocks, serverAt, tunerAt, exitAt,
                   notified, stopped>>

(* vortex_connection_close_all_channels: a channel could not be closed, as *)
(* the peer declined or the connection broke before the message was sent.  *)
(* The call is undone.                                                     *)
CloseDeclined(t) ==
    LET c == ThreadConn(t) IN
    /\ at[t] = "channels"
    /\ Unref(c)
    /\ Use(c)
    /\ closeCalled' = [closeCalled EXCEPT ![c] = FALSE]
    /\ at' = [at EXCEPT ![t] = GoesOn(t)]
    /\ UNCHANGED <<created, connected, session, blocked, onClose, linked, owned, shutting,
                   shutBy, readerVars, refRead, blocks, serverAt, tunerAt, exitAt, notified,
                   stopped, irregular>>

CloseAgreed(t) ==
    LET c == ThreadConn(t) IN
    /\ at[t] = "channels"
    /\ BeginShutdown(t, c)
    /\ Use(c)
    /\ at' = [at EXCEPT ![t] = "count"]
    /\ UNCHANGED <<created, session, closeCalled, blocked, onClose, linked, owned, readerVars,
                   refRead, blocks, serverAt, tunerAt, exitAt, notified, stopped, irregular>>

ReadCount(t) ==
    LET c == ThreadConn(t) IN
    /\ at[t] = "count"
    /\ ~Busy(t)
    /\ Use(c)
    /\ refRead' = [refRead EXCEPT ![t] = refCount[c]]
    /\ at' = [at EXCEPT ![t] = "drop"]
    /\ UNCHANGED <<connVars, readerVars, blocks, serverAt, tunerAt, exitAt, notified, stopped,
                   irregular>>

CloseUnref(t) ==
    LET c == ThreadConn(t) IN
    /\ at[t] = "drop"
    /\ Use(c)
    /\ Unref(c)
    /\ at' = [at EXCEPT ![t] = IF refRead[t] - 1 = 0 THEN "closed" ELSE "release"]
    /\ UNCHANGED <<created, connected, session, closeCalled, blocked, onClose, linked, owned,
                   shutting, shutBy, readerVars, refRead, blocks, serverAt, tunerAt, exitAt,
                   notified, stopped, irregular>>

(* The reference of the creator is released when its role is initiator. *)
CloseRelease(t) ==
    LET c == ThreadConn(t) IN
    /\ at[t] = "release"
    /\ Use(c)
    /\ IF c \in Initiators
         THEN Unref(c) /\ owned' = owned \ {c}
         ELSE UNCHANGED <<refCount, owned>>
    /\ at' = [at EXCEPT ![t] = "closed"]
    /\ UNCHANGED <<created, connected, session, closeCalled, blocked, onClose, linked,
                   shutting, shutBy, readerVars, refRead, blocks, serverAt, tunerAt, exitAt,
                   notified, stopped, irregular>>

-----------------------------------------------------------------------------
(* The reader: one item of its queue, or one connection of its lists, at a *)
(* time. It first shuts down, and then releases, a connection it drops.    *)

ReaderReady == ~Busy(Reader) /\ dropping = Nobody

(* vortex_reader_register_watch *)
Dead(item) == item.type = "connection" /\ ~Ok(item.conn)
RegisterWatch(item) ==
    IF Dead(item)
      THEN Unref(item.conn) /\ UNCHANGED conList
      ELSE /\ conList' = IF item.type \in {"connection", "listener"}
                          THEN conList \cup {item.conn} ELSE conList
           /\ UNCHANGED refCount

(* __vortex_reader_change_io_mech: an acknowledgement, and the next item of *)
(* the queue, whatever it is, says that the new mechanism is installed.     *)
ChangeMechanism(item) ==
    /\ item.type = "change"
    /\ stopped' = stopped + 1
    /\ readerAt' = "change"
    /\ UNCHANGED <<left, notified>>

\* Mutant: only a foreach with a function is notified.
ForeachSilent(item, next) ==
    /\ item.type = "foreach"
    /\ IF item.conn = Server
         THEN left' = conList \ {Listener} /\ readerAt' = "foreach"
         ELSE readerAt' = next /\ UNCHANGED left
    /\ UNCHANGED <<notified, stopped>>

(* vortex_reader_foreach_impl: without a function it only notifies. *)
Foreach(item, next) ==
    /\ item.type = "foreach"
    /\ IF item.conn = Server
         THEN left' = conList \ {Listener} /\ readerAt' = "foreach" /\ UNCHANGED notified
         ELSE notified' = notified \cup {item.conn} /\ readerAt' = next /\ UNCHANGED left
    /\ UNCHANGED stopped

Handle(item, next) ==
    /\ queue' = Tail(queue)
    /\ RegisterWatch(item)
    /\ back' = next
    /\ \/ ChangeMechanism(item)
       \/ Foreach(item, next)
       \/ /\ item.type \notin {"change", "foreach"}
          /\ readerAt' = next
          /\ UNCHANGED <<stopped, left, notified>>

(* vortex_reader_read_queue: the reader sleeps until there is something to *)
(* watch.                                                                  *)
PopFirst ==
    /\ readerAt = "first" /\ ReaderReady
    /\ queue # <<>>
    /\ LET item == Head(queue)
       IN  Handle(item, IF item.type = "terminate" THEN "stopping"
                        ELSE IF Dead(item) THEN "first" ELSE "loop")
    /\ UNCHANGED <<created, connected, session, closeCalled, blocked, onClose, linked, owned,
                   shutting, shutBy, fdSet, pending, goOn, dropping, at, refRead, blocks,
                   serverAt, tunerAt, exitAt, irregular, crashed>>

(* vortex_reader_read_pending: as many items as there were. Each of them   *)
(* says whether the reader goes on.                                        *)
ReadPending ==
    /\ readerAt = "read" /\ ReaderReady
    /\ pending' = Len(queue)
    /\ goOn' = TRUE
    /\ readerAt' = "pending"
    /\ UNCHANGED <<connVars, queue, conList, back, left, fdSet, dropping, appVars>>

\* Mutant: the result of the last item is not looked at.
GoesOnAlways(item) == TRUE
GoesOnAfter(item) == item.type # "terminate"

PopPending ==
    /\ readerAt = "pending" /\ ReaderReady
    /\ pending > 0 /\ queue # <<>>
    /\ pending' = pending - 1
    /\ goOn' = GoesOnAfter(Head(queue))
    /\ irregular' = IF ~goOn /\ goOn' THEN irregular \cup {"unstopped"} ELSE irregular
    /\ Handle(Head(queue), "pending")
    /\ UNCHANGED <<created, connected, session, closeCalled, blocked, onClose, linked, owned,
                   shutting, shutBy, fdSet, dropping, at, refRead, blocks, serverAt, tunerAt,
                   exitAt, crashed>>

EndPending ==
    /\ readerAt = "pending" /\ ReaderReady
    /\ pending = 0
    /\ readerAt' = IF goOn THEN "loop" ELSE "stopping"
    /\ UNCHANGED <<connVars, queue, conList, back, left, fdSet, pending, goOn, dropping, appVars>>

(* An item of another kind is registered only: a foreach that comes while  *)
(* the mechanism changes is not done, and nobody is notified.              *)
PopReady ==
    /\ readerAt = "change" /\ ReaderReady
    /\ queue # <<>>
    /\ queue' = Tail(queue)
    /\ RegisterWatch(Head(queue))
    /\ readerAt' = IF back = "loop" /\ Dead(Head(queue)) THEN "first" ELSE back
    /\ irregular' = CASE Head(queue).type = "foreach"   -> irregular \cup {"swallowed"}
                      [] Head(queue).type = "terminate" -> irregular \cup {"unstopped"}
                      [] OTHER                          -> irregular
    /\ UNCHANGED <<created, connected, session, closeCalled, blocked, onClose, linked, owned,
                   shutting, shutBy, back, left, fdSet, pending, goOn, dropping, at, refRead,
                   blocks, serverAt, tunerAt, exitAt, notified, stopped, crashed>>

(* __vortex_listener_shutdown_foreach *)
ForeachVisit(c) ==
    /\ readerAt = "foreach" /\ ReaderReady
    /\ c \in left
    /\ left' = left \ {c}
    /\ IF Ok(c) /\ c \in linked
         THEN BeginShutdown(Reader, c)
         ELSE UNCHANGED <<refCount, connected, shutting, shutBy>>
    /\ Use(c)
    /\ UNCHANGED <<created, session, closeCalled, blocked, onClose, linked, owned, queue,
                   conList, readerAt, back, fdSet, pending, goOn, dropping, at, refRead,
                   blocks, serverAt, tunerAt, exitAt, notified, stopped, irregular>>

ForeachNotify ==
    /\ readerAt = "foreach" /\ ReaderReady
    /\ left = {}
    /\ notified' = notified \cup {Server}
    /\ readerAt' = back
    /\ UNCHANGED <<connVars, queue, conList, back, left, fdSet, pending, goOn, dropping, at,
                   refRead, blocks, serverAt, tunerAt, exitAt, stopped, irregular, crashed>>

(* The loop: an empty list takes the reader back to its queue. *)
Loop ==
    /\ readerAt = "loop" /\ ReaderReady
    /\ readerAt' = IF conList = {} THEN "first" ELSE "build"
    /\ left' = conList
    /\ fdSet' = {}
    /\ UNCHANGED <<connVars, queue, conList, back, pending, goOn, dropping, appVars>>

\* Mutant: a connection stays in the list after its release.
DiscardLater(c) == conList' = conList
(* __vortex_reader_build_set_to_watch_aux: a connection that is not        *)
(* connected is taken off the list before it is released, a blocked one is *)
(* skipped, and one that cannot be added is shut down.                     *)
Discard(c) == conList' = conList \ {c}

\* Mutant: a connection that was shut down is taken off and kept.
VisitKeeps(c) ==
    /\ readerAt = "build" /\ ReaderReady
    /\ c \in left /\ ~Ok(c)
    /\ left' = left \ {c}
    /\ conList' = conList \ {c}
    /\ UNCHANGED <<connVars, queue, readerAt, back, fdSet, pending, goOn, dropping, at,
                   refRead, blocks, serverAt, tunerAt, exitAt, notified, stopped, irregular,
                   crashed>>

VisitDead(c) ==
    /\ readerAt = "build" /\ ReaderReady
    /\ c \in left /\ ~Ok(c)
    /\ left' = left \ {c}
    /\ Discard(c)
    /\ Unref(c)
    /\ Use(c)
    /\ UNCHANGED <<created, connected, session, closeCalled, blocked, onClose, linked, owned,
                   shutting, shutBy, queue, readerAt, back, fdSet, pending, goOn, dropping, at,
                   refRead, blocks, serverAt, tunerAt, exitAt, notified, stopped, irregular>>

Watchable(c) == ~blocked[c]

Visit(c) ==
    /\ readerAt = "build" /\ ReaderReady
    /\ c \in left /\ Ok(c)
    /\ left' = left \ {c}
    /\ fdSet' = IF Watchable(c) THEN fdSet \cup {c} ELSE fdSet
    /\ Use(c)
    /\ UNCHANGED <<connVars, queue, conList, readerAt, back, pending, goOn, dropping, at,
                   refRead, blocks, serverAt, tunerAt, exitAt, notified, stopped, irregular>>

VisitFails(c) ==
    /\ readerAt = "build" /\ ReaderReady
    /\ c \in left /\ Ok(c) /\ Watchable(c)
    /\ left' = left \ {c}
    /\ Discard(c)
    /\ BeginShutdown(Reader, c)
    /\ dropping' = c
    /\ Use(c)
    /\ UNCHANGED <<created, session, closeCalled, blocked, onClose, linked, owned, queue,
                   readerAt, back, fdSet, pending, goOn, at, refRead, blocks, serverAt,
                   tunerAt, exitAt, notified, stopped, irregular>>

DropReleased ==
    /\ dropping # Nobody
    /\ ~Busy(Reader)
    /\ Unref(dropping)
    /\ Use(dropping)
    /\ dropping' = Nobody
    /\ UNCHANGED <<created, connected, session, closeCalled, blocked, onClose, linked, owned,
                   shutting, shutBy, queue, conList, readerAt, back, left, fdSet, pending,
                   goOn, at, refRead, blocks, serverAt, tunerAt, exitAt, notified, stopped,
                   irregular>>

BuildEnds ==
    /\ readerAt = "build" /\ ReaderReady
    /\ left = {}
    /\ readerAt' = "wait"
    /\ UNCHANGED <<connVars, queue, conList, back, left, fdSet, pending, goOn, dropping, appVars>>

(* The wait of half a second, and the dispatch of what it found. *)
WaitEnds ==
    /\ readerAt = "wait" /\ ReaderReady
    /\ readerAt' = "read"
    /\ UNCHANGED <<connVars, queue, conList, back, left, fdSet, pending, goOn, dropping, appVars>>

(* A frame is read and given to a handler in the pool. *)
DispatchFrame(c) ==
    /\ readerAt = "wait" /\ ReaderReady
    /\ c \in fdSet \cap Peers
    /\ fdSet' = fdSet \ {c}
    /\ Ok(c)
    /\ at[Task(c)] = "none"
    /\ at' = [at EXCEPT ![Task(c)] = "run"]
    /\ Ref(c)
    /\ Use(c)
    /\ UNCHANGED <<created, connected, session, closeCalled, blocked, onClose, linked, owned,
                   shutting, shutBy, queue, conList, readerAt, back, left, pending, goOn,
                   dropping, refRead, blocks, serverAt, tunerAt, exitAt, notified, stopped,
                   irregular>>

(* The peer broke the connection, or sent something wrong. *)
DispatchBroken(c) ==
    /\ readerAt = "wait" /\ ReaderReady
    /\ c \in fdSet \cap Peers
    /\ fdSet' = fdSet \ {c}
    /\ Ok(c)
    /\ BeginShutdown(Reader, c)
    /\ Use(c)
    /\ UNCHANGED <<created, session, closeCalled, blocked, onClose, linked, owned, queue,
                   conList, readerAt, back, left, pending, goOn, dropping, at, refRead, blocks,
                   serverAt, tunerAt, exitAt, notified, stopped, irregular>>

(* vortex_listener_accept_connections. The new connection holds its        *)
(* listener, if that is still connected. When the application refuses it,  *)
(* it is shut down and released.                                           *)
Linked(c) == IF Ok(Listener) THEN linked \cup {c} ELSE linked
MasterRefs == IF Ok(Listener) THEN refCount[Listener] + 1 ELSE refCount[Listener]

Accept(c) ==
    /\ readerAt = "wait" /\ ReaderReady
    /\ Listener \in fdSet /\ session[Listener]
    /\ fdSet' = fdSet \ {Listener}
    /\ c \in Accepted \ created
    /\ created' = created \cup {c}
    /\ linked' = Linked(c)
    /\ session' = [session EXCEPT ![c] = TRUE]
    /\ onClose' = [onClose EXCEPT ![c] = "installed"]
    /\ Use(Listener)
    /\ \/ /\ connected' = [connected EXCEPT ![c] = TRUE]
          /\ refCount' = [refCount EXCEPT ![c] = 1, ![Listener] = MasterRefs]
          /\ Push(Item("connection", c))
          /\ irregular' = IF serverAt # "idle" THEN irregular \cup {"late"} ELSE irregular
          /\ UNCHANGED <<shutting, shutBy, dropping>>
       \/ /\ connected' = connected
          /\ refCount' = [refCount EXCEPT ![c] = 2, ![Listener] = MasterRefs]
          /\ shutting' = [shutting EXCEPT ![c] = "handlers"]
          /\ shutBy' = [shutBy EXCEPT ![c] = Reader]
          /\ dropping' = c
          /\ UNCHANGED <<queue, irregular>>
    /\ UNCHANGED <<closeCalled, blocked, owned, conList, readerAt, back, left, pending, goOn,
                   at, refRead, blocks, serverAt, tunerAt, exitAt, notified, stopped>>

(* __vortex_reader_stop_process: the lists are released, each connection   *)
(* with a shutdown, and the thread inside vortex_reader_stop is told.      *)
StopConnection(c) ==
    /\ readerAt = "stopping" /\ ReaderReady
    /\ c \in conList
    /\ Discard(c)
    /\ dropping' = c
    /\ BeginShutdown(Reader, c)
    /\ Use(c)
    /\ UNCHANGED <<created, session, closeCalled, blocked, onClose, linked, owned, queue,
                   readerAt, back, left, fdSet, pending, goOn, at, refRead, blocks, serverAt,
                   tunerAt, exitAt, notified, stopped, irregular>>

StopEnds ==
    /\ readerAt = "stopping" /\ ReaderReady
    /\ conList = {}
    /\ readerAt' = "stopped"
    /\ stopped' = stopped + 1
    /\ UNCHANGED <<connVars, queue, conList, back, left, fdSet, pending, goOn, dropping, at,
                   refRead, blocks, serverAt, tunerAt, exitAt, notified, irregular, crashed>>

-----------------------------------------------------------------------------
(* vortex_listener_shutdown: the connections, by the reader, and then the  *)
(* listener.                                                               *)

ServerCalls ==
    /\ MayShutdown /\ serverAt = "idle"
    /\ ~Exiting
    /\ Ok(Listener)
    /\ Use(Listener)
    /\ Ref(Listener)
    /\ serverAt' = "foreach"
    /\ UNCHANGED <<created, connected, session, closeCalled, blocked, onClose, linked, owned,
                   shutting, shutBy, readerVars, at, refRead, blocks, tunerAt, exitAt,
                   notified, stopped, irregular>>

\* Mutant: the listener is shut down before the connections are.
ServerHurries ==
    /\ serverAt = "foreach"
    /\ Push(Item("foreach", Server))
    /\ notified' = notified \cup {Server}
    /\ serverAt' = "waiting"
    /\ UNCHANGED <<connVars, conList, readerAt, back, left, fdSet, pending, goOn, dropping, at,
                   refRead, blocks, tunerAt, exitAt, stopped, irregular, crashed>>

ServerForeach ==
    /\ serverAt = "foreach"
    /\ Push(Item("foreach", Server))
    /\ serverAt' = "waiting"
    /\ UNCHANGED <<connVars, conList, readerAt, back, left, fdSet, pending, goOn, dropping, at,
                   refRead, blocks, tunerAt, exitAt, notified, stopped, irregular, crashed>>

ServerShutdown ==
    /\ serverAt = "waiting"
    /\ Server \in notified
    /\ notified' = notified \ {Server}
    /\ BeginShutdown(Server, Listener)
    /\ Use(Listener)
    /\ serverAt' = "unref"
    /\ UNCHANGED <<created, session, closeCalled, blocked, onClose, linked, owned, readerVars,
                   at, refRead, blocks, tunerAt, exitAt, stopped, irregular>>

ServerReturns ==
    /\ serverAt = "unref" /\ ~Busy(Server)
    /\ Unref(Listener)
    /\ Use(Listener)
    /\ serverAt' = "done"
    /\ UNCHANGED <<created, connected, session, closeCalled, blocked, onClose, linked, owned,
                   shutting, shutBy, readerVars, at, refRead, blocks, tunerAt, exitAt,
                   notified, stopped, irregular>>

-----------------------------------------------------------------------------
(* vortex_io_waiting_use: the reader is asked to stop, the mechanism is    *)
(* replaced, and the reader is told.                                       *)

TunerAsks ==
    /\ MayChange /\ tunerAt = "idle"
    /\ ~Exiting
    /\ Push(Item("change", Nobody))
    /\ tunerAt' = "waiting"
    /\ UNCHANGED <<connVars, conList, readerAt, back, left, fdSet, pending, goOn, dropping, at,
                   refRead, blocks, serverAt, exitAt, notified, stopped, irregular, crashed>>

TunerInstalls ==
    /\ tunerAt = "waiting"
    /\ stopped > 0
    /\ stopped' = stopped - 1
    /\ tunerAt' = "installed"
    /\ UNCHANGED <<connVars, readerVars, at, refRead, blocks, serverAt, exitAt, notified,
                   irregular, crashed>>

TunerDone ==
    /\ tunerAt = "installed"
    /\ Push(Item("ready", Nobody))
    /\ tunerAt' = "done"
    /\ UNCHANGED <<connVars, conList, readerAt, back, left, fdSet, pending, goOn, dropping, at,
                   refRead, blocks, serverAt, exitAt, notified, stopped, irregular, crashed>>

-----------------------------------------------------------------------------
(* vortex_exit_ctx and vortex_reader_stop. The program finishes the        *)
(* library when no call of its own that uses the reader is in progress.    *)

CallsReturned ==
    /\ \A c \in Initiators : at[Owner(c)] \notin {"greeted", "blocking"}
    /\ serverAt \in {"idle", "done"}
    /\ tunerAt \in {"idle", "done"}

StartExit ==
    /\ MayStop /\ exitAt = "idle"
    /\ CallsReturned
    /\ Push(Item("terminate", Nobody))
    /\ exitAt' = "waiting"
    /\ UNCHANGED <<connVars, conList, readerAt, back, left, fdSet, pending, goOn, dropping, at,
                   refRead, blocks, serverAt, tunerAt, notified, stopped, irregular, crashed>>

StopReturns ==
    /\ exitAt = "waiting"
    /\ stopped > 0
    /\ stopped' = stopped - 1
    /\ exitAt' = "stopped"
    /\ UNCHANGED <<connVars, readerVars, at, refRead, blocks, serverAt, tunerAt, notified,
                   irregular, crashed>>

(* Sixty seconds are longer than a round of the reader. *)
StopTimesOut ==
    /\ exitAt = "waiting"
    /\ "unstopped" \in irregular
    /\ exitAt' = "timedout"
    /\ UNCHANGED <<connVars, readerVars, at, refRead, blocks, serverAt, tunerAt, notified,
                   stopped, irregular, crashed>>

-----------------------------------------------------------------------------
Init ==
    /\ refCount = [c \in Conns |-> IF c = Listener THEN 1 ELSE 0]
    /\ created = {Listener}
    /\ connected = [c \in Conns |-> c = Listener]
    /\ session = [c \in Conns |-> c = Listener]
    /\ closeCalled = [c \in Conns |-> FALSE]
    /\ blocked = [c \in Conns |-> FALSE]
    /\ onClose = [c \in Conns |-> "none"]
    /\ linked = {} /\ owned = {}
    /\ shutting = [c \in Conns |-> "no"]
    /\ shutBy = [c \in Conns |-> Nobody]
    /\ queue = <<Item("listener", Listener)>>
    /\ conList = {} /\ left = {} /\ fdSet = {}
    /\ readerAt = "first" /\ back = "loop"
    /\ pending = 0 /\ goOn = TRUE /\ dropping = Nobody
    /\ at = [t \in Threads |-> "none"]
    /\ refRead = [t \in Threads |-> 0]
    /\ blocks = 0
    /\ serverAt = "idle" /\ tunerAt = "idle" /\ exitAt = "idle"
    /\ notified = {} /\ stopped = 0
    /\ irregular = {} /\ crashed = {}

Shutdowns(c) == InvokeOnClose(c) \/ CloseSocket(c) \/ EndShutdown(c)
CloseGoesOn(t) == CloseRef(t) \/ CloseAgreed(t) \/ ReadCount(t) \/ CloseUnref(t) \/ CloseRelease(t)
ReaderStep ==
    \/ PopFirst \/ ReadPending \/ PopPending \/ EndPending \/ PopReady
    \/ ForeachNotify \/ Loop \/ DropReleased \/ BuildEnds \/ WaitEnds \/ StopEnds
    \/ \E c \in Conns : ForeachVisit(c) \/ VisitDead(c) \/ Visit(c) \/ StopConnection(c)
ServerStep == ServerForeach \/ ServerShutdown \/ ServerReturns
TunerStep == TunerInstalls \/ TunerDone
ExitStep == StopReturns \/ StopTimesOut

Next ==
    \/ \E c \in Conns : Shutdowns(c) \/ OnCloseNotified(c)
    \/ \E c \in Initiators : NewConnection(c) \/ WatchConnection(c) \/ Block(c) \/ BlockReturns(c)
    \/ \E c \in Peers : TaskShutdown(c) \/ TaskEnds(c)
    \/ \E t \in Threads : CloseCall(t) \/ CloseDeclined(t) \/ CloseGoesOn(t)
    \/ ReaderStep
    \/ \E c \in Conns : VisitFails(c) \/ DispatchFrame(c) \/ DispatchBroken(c) \/ Accept(c)
    \/ ServerCalls \/ ServerStep
    \/ TunerAsks \/ TunerStep
    \/ StartExit \/ ExitStep

(* The reader, the threads inside the library and the handlers go on.      *)
Fairness ==
    /\ WF_vars(ReaderStep)
    /\ \A c \in Conns : WF_vars(Shutdowns(c)) /\ WF_vars(OnCloseNotified(c))
    /\ \A c \in Initiators : WF_vars(WatchConnection(c)) /\ WF_vars(BlockReturns(c))
    /\ \A c \in Peers : WF_vars(TaskEnds(c))
    /\ \A t \in Threads : WF_vars(CloseGoesOn(t))
    /\ WF_vars(ServerStep) /\ WF_vars(TunerStep) /\ WF_vars(ExitStep)

Spec == Init /\ [][Next]_vars /\ Fairness

-----------------------------------------------------------------------------
(* Every variable has the shape of the field, list or place it stands for. *)
Places == {"none", "greeted", "open", "blocking", "run", "closed", "ended",
           "ref", "channels", "count", "drop", "release"}
Rounds == {"first", "loop", "pending", "stopping"}
Items == [type : {"connection", "listener"}, conn : Conns]
           \cup [type : {"foreach"}, conn : Initiators \cup {Server}]
           \cup [type : {"change", "ready", "terminate"}, conn : {Nobody}]

TypeOK ==
    /\ refCount \in [Conns -> Int]
    /\ linked \subseteq Conns /\ created \subseteq Conns /\ owned \subseteq Conns
    /\ conList \subseteq Conns /\ left \subseteq Conns /\ fdSet \subseteq Conns
    /\ connected \in [Conns -> BOOLEAN] /\ session \in [Conns -> BOOLEAN]
    /\ closeCalled \in [Conns -> BOOLEAN] /\ blocked \in [Conns -> BOOLEAN]
    /\ onClose \in [Conns -> {"none", "installed", "running", "done"}]
    /\ shutting \in [Conns -> {"no", "handlers", "socket", "unref"}]
    /\ shutBy \in [Conns -> Threads \cup {Reader, Server, Nobody}]
    /\ queue \in Seq(Items) /\ back \in Rounds
    /\ readerAt \in Rounds \cup {"read", "change", "foreach", "build", "wait", "stopped"}
    /\ pending \in Nat /\ goOn \in BOOLEAN /\ dropping \in Conns \cup {Nobody}
    /\ at \in [Threads -> Places] /\ refRead \in [Threads -> Int] /\ blocks \in 0 .. MaxBlocks
    /\ serverAt \in {"idle", "foreach", "waiting", "unref", "done"}
    /\ tunerAt \in {"idle", "waiting", "installed", "done"}
    /\ exitAt \in {"idle", "waiting", "stopped", "timedout"}
    /\ notified \subseteq Initiators \cup {Server} /\ stopped \in Nat
    /\ irregular \subseteq {"overreleased", "late", "swallowed", "unstopped"}
    /\ crashed \subseteq {"connection"}

One(condition) == IF condition THEN 1 ELSE 0
Holders(c) ==
    One(c \in owned) + One(c \in conList) + One(dropping = c) + One(shutting[c] # "no")
    + One(onClose[c] = "running")
    + Cardinality({k \in 1..Len(queue) : queue[k].conn = c /\ queue[k].type \in {"connection", "listener"}})
    + Cardinality({t \in Threads : ThreadConn(t) = c /\ at[t] \in {"channels", "count", "drop"}})
    + One(c \in Peers /\ at[Task(c)] \notin {"none", "ended"})
    + One(c = Listener /\ serverAt \notin {"idle", "done"})
    + One(c = Listener) * Cardinality({d \in linked : refCount[d] > 0})

(* Every reference is held by somebody, and everybody who works with a     *)
(* connection holds one: the count (vortex_connection_ref, _unref) is that *)
(* of the holders, and nobody uses a connection that was freed, unless a   *)
(* close released a reference it had not got.                              *)
ReferencesHeld ==
    "overreleased" \notin irregular =>
        crashed = {} /\ \A c \in Conns : refCount[c] = Holders(c)

(* A blocked connection is not read once vortex_connection_block returned. *)
BlockedNotRead ==
    [][\A c \in Peers : DispatchFrame(c) => (blocked[c] => at[Owner(c)] = "blocking")]_vars

(* The on-close handler of a connection that was set up is called when it  *)
(* is no longer connected, unless the library is finished.                 *)
OnCloseRuns ==
    \A c \in Peers : (onClose[c] = "installed" /\ ~connected[c])
                       ~> (onClose[c] = "done" \/ Exiting)

(* A connection its creator closed, or one accepted that broke, is freed.  *)
ClosedFreed ==
    \A c \in Peers : (c \in created /\ ~connected[c] /\ c \notin owned)
                       ~> (refCount[c] = 0 \/ "overreleased" \in irregular \/ Exiting)

(* A thread that waits for the reader to go round its loop                 *)
(* (vortex_connection_block, vortex_listener_shutdown) gets its answer.    *)
ForeachReturns ==
    /\ \A c \in Initiators : at[Owner(c)] = "blocking" ~> (at[Owner(c)] # "blocking" \/ "swallowed" \in irregular)
    /\ serverAt = "waiting" ~> (serverAt # "waiting" \/ "swallowed" \in irregular)

(* vortex_listener_shutdown shuts down every connection of the listener,   *)
(* but those accepted while it runs.                                       *)
ListenerTakesAll ==
    (serverAt = "done" /\ "late" \notin irregular) => \A c \in linked : ~connected[c]

(* vortex_reader_stop stops the reader, unless another item of the queue   *)
(* came behind the one that stops it.                                      *)
ReaderStops == exitAt = "waiting" ~> (readerAt = "stopped" \/ "unstopped" \in irregular)

(* The reader that reads TERMINATE does no further round of its loop.      *)
StopObeyed == "unstopped" \notin irregular
=============================================================================
