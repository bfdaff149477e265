--------------------------- MODULE ConnectionProofs ---------------------------
(***************************************************************************)
(* Proofs about the life of connections: the counts of references, the     *)
(* listener that takes its connections with it, and the blocked connection *)
(* that is not read.                                                       *)
(*                                                                         *)
(* The invariant has a part for each of the things a count depends on:     *)
(* which connections live (LifeInv), where the reader has them (WatchInv), *)
(* who is inside vortex_connection_close (CloseInv), who waits for a round *)
(* of the reader (AskInv); and one for each result: VisitInv, BlockInv and *)
(* RefInv. A lemma is named for the steps it is about and the part they    *)
(* keep: OwnerTypes, OwnerLife, OwnerWatch, AskOwner, OwnerCount.          *)
(***************************************************************************)
EXTENDS Connection, FiniteSetTheorems, SequenceTheorems, TLAPS

\* The queue of the reader holds a reference to a connection that is to be watched.
Slot(k, c) == queue[k].conn = c /\ queue[k].type \in {"connection", "listener"}
InQueue(c) == \E k \in 1 .. Len(queue) : Slot(k, c)

\* Places inside vortex_connection_close, and those with the reference it takes for itself.
Closing(t) == at[t] \in {"ref", "channels", "count", "drop", "release"}
CallPlaces == {"channels", "count", "drop"}
Calling(c) == \E t \in Threads : ThreadConn(t) = c /\ at[t] \in CallPlaces
Handled(c) == c \in Peers /\ at[Task(c)] \notin {"none", "ended"}
Serving(c) == c = Listener /\ serverAt \notin {"idle", "done"}

\* The accepted connections that hold the listener.
Live == {d \in linked : refCount[d] > 0}

\* The references held by the reader, the application, a shutdown, and accepted connections.
ReaderHolds(c) == One(c \in conList) + One(dropping = c) + One(InQueue(c))
AppHolds(c) == One(c \in owned) + One(Calling(c)) + One(Handled(c)) + One(Serving(c))
EndHolds(c) == One(shutting[c] # "no") + One(onClose[c] = "running")
Listening(c) == IF c = Listener THEN Cardinality(Live) ELSE 0

Held(c) == ReaderHolds(c) + AppHolds(c) + EndHolds(c)
Own(c) == refCount[c] - Listening(c)
Counted == \A c \in Conns : Own(c) = Held(c)

\* A connected connection has its socket and is not being shut down; one that was not
\* created has nothing, and its threads are nowhere.
LifeInv ==
    /\ linked \subseteq Accepted \cap created /\ owned \subseteq Initiators \cap created
    /\ Listener \in created /\ IsFiniteSet(linked)
    /\ \A c \in Conns : connected[c] => session[c] /\ shutting[c] = "no"
    /\ \A c \in Conns \ created :
          /\ ~connected[c] /\ shutting[c] = "no" /\ onClose[c] = "none" /\ dropping # c
          /\ refCount[c] = 0
    /\ \A c \in Initiators : at[Owner(c)] = "none" <=> c \notin created
    /\ \A c \in Peers : at[Task(c)] # "none" => c \in created

\* The reader has a connection once, in its queue or in its list; and it has every
\* connected one that was accepted. In a round it works with what is in the list.
OneSlot == \A c \in Conns : \A j, k \in 1 .. Len(queue) : Slot(j, c) /\ Slot(k, c) => j = k
Watched ==
    /\ OneSlot
    /\ \A c \in Conns : /\ c \in conList => c \in created
                        /\ InQueue(c) => c \in created /\ c \notin conList
    /\ \A c \in Initiators : at[Owner(c)] = "greeted" => ~InQueue(c) /\ c \notin conList
    /\ \A c \in Accepted \cup {Listener} : connected[c] => InQueue(c) \/ c \in conList
Rounded ==
    /\ readerAt \in {"foreach", "build"} => left \subseteq conList
    /\ readerAt = "build" => fdSet \subseteq conList \ left
    /\ readerAt = "wait" => fdSet \subseteq conList
WatchInv == Watched /\ Rounded

\* One thread is inside vortex_connection_close of a connection, and the reference of the
\* creator is there for it to release.
CloseInv ==
    /\ \A t \in Threads : Closing(t) => closeCalled[ThreadConn(t)]
    /\ \A t, u \in Threads : Closing(t) /\ Closing(u) /\ ThreadConn(t) = ThreadConn(u) => t = u
    /\ \A t \in Threads : Closing(t) /\ ThreadConn(t) \in Initiators => ThreadConn(t) \in owned
    /\ \A c \in Initiators \cap created : ~closeCalled[c] => c \in owned

\* A thread that waits for a round has asked once: in the queue, in the reader, or with
\* the answer given.
Askers == Initiators \cup {Server}
Waits(c) == IF c = Server THEN serverAt = "waiting" ELSE at[Owner(c)] = "blocking"
AskFor(k, c) == queue[k].type = "foreach" /\ queue[k].conn = c
Asked(c) == \E k \in 1 .. Len(queue) : AskFor(k, c)
AskInv ==
    /\ \A c \in Askers : \A j, k \in 1 .. Len(queue) : AskFor(j, c) /\ AskFor(k, c) => j = k
    /\ \A c \in Askers : Asked(c) => Waits(c) /\ c \notin notified
    /\ \A c \in notified : Waits(c)
    /\ readerAt = "foreach" => Waits(Server) /\ ~Asked(Server) /\ Server \notin notified

\* What vortex_listener_shutdown has still to come by: a connected connection is in the
\* list, or before the question in the queue, or among those not visited yet.
NoneConnected == \A c \in linked : ~connected[c]
VisitInv ==
  "late" \notin irregular =>
    /\ \A k \in 1 .. Len(queue) : AskFor(k, Server) =>
          \A c \in linked : connected[c] => c \in conList \/ \E j \in 1 .. k - 1 : Slot(j, c)
    /\ readerAt = "foreach" => \A c \in linked : connected[c] => c \in left
    /\ Server \in notified => NoneConnected
    /\ serverAt \in {"unref", "done"} => NoneConnected

\* A blocked connection among those waited on is one whose vortex_connection_block has
\* not gone round yet.
BlockInv ==
    /\ \A c \in Conns : blocked[c] => c \in Initiators
    /\ readerAt \in {"build", "wait"} =>
          \A c \in fdSet : blocked[c] => at[Owner(c)] = "blocking" /\ c \notin notified

\* Nothing was used after it was freed, and every count is that of the holders.
RefInv == "overreleased" \notin irregular => crashed = {} /\ Counted

Inv ==
    TypeOK /\ LifeInv /\ WatchInv /\ CloseInv /\ AskInv /\ VisitInv /\ BlockInv /\ RefInv
-----------------------------------------------------------------------------
(* Names *)

\* The names of connections and threads as the proofs use them.
LEMMA Names ==
    /\ Listener \in Conns /\ Listener \notin Peers /\ Initiators \cap Accepted = {}
    /\ Initiators \subseteq Peers /\ Accepted \subseteq Peers /\ Peers \subseteq Conns
    /\ Nobody \notin Conns /\ Server \notin Conns /\ Reader \notin Conns
    /\ Nobody # Server /\ Nobody # Reader /\ Reader # Server
    /\ Nobody \notin Threads /\ Server \notin Threads /\ Reader \notin Threads
    /\ MaxBlocks \in Nat
BY ConnectionAssumption DEF Conns, Peers, Threads, Nobody, Server, Reader

\* A thread is the creator of a connection or handles a frame of it.
LEMMA ThreadFacts ==
    /\ \A c \in Initiators : Owner(c) \in Threads /\ ThreadConn(Owner(c)) = c /\ Owner(c)[2] = "owner"
    /\ \A c \in Peers : Task(c) \in Threads /\ ThreadConn(Task(c)) = c /\ Task(c)[2] = "task"
    /\ \A t \in Threads : /\ ThreadConn(t) \in Peers /\ ThreadConn(t) \in Conns
                          /\ \/ /\ t[2] = "owner" /\ ThreadConn(t) \in Initiators
                                /\ t = Owner(ThreadConn(t))
                             \/ t[2] = "task" /\ t = Task(ThreadConn(t))
    /\ \A c, d : /\ Owner(c) # Task(d)
                 /\ Owner(c) = Owner(d) => c = d
                 /\ Task(c) = Task(d) => c = d
BY DEF Threads, Owner, Task, ThreadConn, Peers, Conns

-----------------------------------------------------------------------------
(* Types *)

LEMMA TypeStart == Init => TypeOK
<1> SUFFICES ASSUME Init PROVE TypeOK
  OBVIOUS
<1>1. <<Item("listener", Listener)>> \in Seq(Items)
  BY Names DEF Item, Items
<1> QED BY <1>1, Names DEF Init, TypeOK, Places, Rounds

\* What the queue gets and loses has the shape of an item.
LEMMA PushType ==
    ASSUME queue \in Seq(Items), NEW item \in Items, Push(item)
    PROVE  queue' \in Seq(Items)
BY DEF Push

LEMMA HeadType ==
    ASSUME TypeOK, queue # <<>>
    PROVE  Head(queue) \in Items /\ Tail(queue) \in Seq(Items)
BY HeadTailProperties DEF TypeOK

\* References are taken and released one or two at a time.
LEMMA UnrefType ==
    ASSUME refCount \in [Conns -> Int], NEW c \in Conns
    PROVE  Released(refCount, c) \in [Conns -> Int]
BY Names DEF Released

\* A shutdown that begins keeps the shape of what it sets.
LEMMA BeginType ==
    ASSUME refCount \in [Conns -> Int], connected \in [Conns -> BOOLEAN],
           shutting \in [Conns -> {"no", "handlers", "socket", "unref"}],
           shutBy \in [Conns -> Threads \cup {Reader, Server, Nobody}],
           NEW c \in Conns, NEW t \in Threads \cup {Reader, Server}, BeginShutdown(t, c)
    PROVE  /\ refCount' \in [Conns -> Int] /\ connected' \in [Conns -> BOOLEAN]
           /\ shutting' \in [Conns -> {"no", "handlers", "socket", "unref"}]
           /\ shutBy' \in [Conns -> Threads \cup {Reader, Server, Nobody}]
<1>1. CASE connected[c]
  <2>1. refCount' = [refCount EXCEPT ![c] = @ + 1] /\ connected' = [connected EXCEPT ![c] = FALSE]
    BY <1>1 DEF BeginShutdown, Ref
  <2>2. shutting' = [shutting EXCEPT ![c] = "handlers"] /\ shutBy' = [shutBy EXCEPT ![c] = t]
    BY <1>1 DEF BeginShutdown
  <2>3. shutBy' \in [Conns -> Threads \cup {Reader, Server, Nobody}]
    BY <2>2
  <2>4. shutting' \in [Conns -> {"no", "handlers", "socket", "unref"}]
    BY <2>2
  <2>5. refCount' \in [Conns -> Int] /\ connected' \in [Conns -> BOOLEAN]
    BY <2>1
  <2> QED BY <2>3, <2>4, <2>5
<1>2. CASE ~connected[c]
  BY <1>2 DEF BeginShutdown
<1> QED BY <1>1, <1>2

LEMMA UseType ==
    ASSUME crashed \subseteq {"connection"}, NEW c, Use(c)
    PROVE  crashed' \subseteq {"connection"}
BY DEF Use

\* The steps of a shutdown and of an on-close handler.
LEMMA ShutdownTypes ==
    ASSUME TypeOK, NEW c \in Conns, Shutdowns(c) \/ OnCloseNotified(c)
    PROVE  TypeOK'
<1> USE Names DEF TypeOK, connVars, readerVars, appVars
<1>1. CASE InvokeOnClose(c)
  BY <1>1, UseType DEF InvokeOnClose, Ref
<1>2. CASE CloseSocket(c)
  BY <1>2, UseType DEF CloseSocket
<1>3. CASE EndShutdown(c)
  BY <1>3, UseType, UnrefType DEF EndShutdown, Unref
<1>4. CASE OnCloseNotified(c)
  BY <1>4, UseType, UnrefType DEF OnCloseNotified, Unref
<1> QED BY <1>1, <1>2, <1>3, <1>4 DEF Shutdowns

\* The steps of the application before and beside vortex_connection_close.
LEMMA OwnerTypes ==
    ASSUME TypeOK, NEW c \in Initiators,
           NewConnection(c) \/ WatchConnection(c) \/ Block(c) \/ BlockReturns(c)
    PROVE  TypeOK'
<1> USE Names DEF TypeOK, connVars, readerVars, appVars
<1>1. CASE NewConnection(c)
  <2>1. PICK greeted \in BOOLEAN :
          /\ connected' = [connected EXCEPT ![c] = greeted]
          /\ session' = [session EXCEPT ![c] = greeted]
          /\ at' = [at EXCEPT ![Owner(c)] = IF greeted THEN "greeted" ELSE "open"]
          /\ onClose' = [onClose EXCEPT ![c] = IF greeted THEN "installed" ELSE "none"]
    BY <1>1 DEF NewConnection
  <2>2. at' \in [Threads -> Places]
    BY <2>1 DEF Places
  <2>3. onClose' \in [Conns -> {"none", "installed", "running", "done"}]
    BY <2>1
  <2> QED BY <1>1, <2>1, <2>2, <2>3 DEF NewConnection
<1>2. CASE WatchConnection(c)
  <2>1. at' \in [Threads -> Places]
    BY <1>2 DEF WatchConnection, Places
  <2>2. queue' \in Seq(Items)
    BY <1>2, PushType DEF WatchConnection, Item, Items
  <2> QED BY <1>2, <2>1, <2>2 DEF WatchConnection, Ref
<1>3. CASE Block(c)
  <2>1. at' \in [Threads -> Places]
    BY <1>3 DEF Block, Places
  <2>2. queue' \in Seq(Items)
    BY <1>3, PushType DEF Block, Item, Items
  <2> QED BY <1>3, <2>1, <2>2 DEF Block
<1>4. CASE BlockReturns(c)
  <2>1. at' \in [Threads -> Places]
    BY <1>4 DEF BlockReturns, Places
  <2> QED BY <1>4, <2>1 DEF BlockReturns
<1> QED BY <1>1, <1>2, <1>3, <1>4

LEMMA TaskTypes ==
    ASSUME TypeOK, NEW c \in Peers, TaskShutdown(c) \/ TaskEnds(c)
    PROVE  TypeOK'
<1> USE Names DEF TypeOK, connVars, readerVars, appVars
<1>1. CASE TaskShutdown(c)
  <2>1. at' \in [Threads -> Places]
    BY <1>1 DEF TaskShutdown, Places
  <2>2. /\ refCount' \in [Conns -> Int] /\ connected' \in [Conns -> BOOLEAN]
        /\ shutting' \in [Conns -> {"no", "handlers", "socket", "unref"}]
        /\ shutBy' \in [Conns -> Threads \cup {Reader, Server, Nobody}]
    BY <1>1, BeginType, ThreadFacts DEF TaskShutdown
  <2> QED BY <1>1, <2>1, <2>2, UseType DEF TaskShutdown
<1>2. CASE TaskEnds(c)
  <2>1. at' \in [Threads -> Places]
    BY <1>2 DEF TaskEnds, Places
  <2> QED BY <1>2, <2>1, UseType, UnrefType DEF TaskEnds, Unref
<1> QED BY <1>1, <1>2

LEMMA CloseTypes ==
    ASSUME TypeOK, NEW t \in Threads, CloseCall(t) \/ CloseDeclined(t) \/ CloseGoesOn(t)
    PROVE  TypeOK'
<1> DEFINE c == ThreadConn(t)
<1>c. c \in Conns
  BY ThreadFacts
<1> USE Names DEF TypeOK, connVars, readerVars, appVars
<1>1. CASE CloseCall(t)
  <2>1. at' \in [Threads -> Places]
    BY <1>1 DEF CloseCall, Places
  <2> QED BY <1>1, <1>c, <2>1, UseType DEF CloseCall
<1>2. CASE CloseDeclined(t)
  <2>1. at' \in [Threads -> Places]
    BY <1>2 DEF CloseDeclined, Places, GoesOn
  <2> QED BY <1>2, <1>c, <2>1, UseType, UnrefType DEF CloseDeclined, Unref
<1>3. CASE CloseRef(t)
  <2>1. at' \in [Threads -> Places]
    BY <1>3 DEF CloseRef, Places
  <2>2. refCount' \in [Conns -> Int]
    BY <1>3, <1>c, UnrefType DEF CloseRef, Ref, Unref
  <2>3. /\ owned' \subseteq Conns
        /\ irregular' \subseteq {"overreleased", "late", "swallowed", "unstopped"}
    BY <1>3 DEF CloseRef
  <2> QED BY <1>3, <1>c, <2>1, <2>2, <2>3, UseType DEF CloseRef
<1>4. CASE CloseAgreed(t)
  <2>1. at' \in [Threads -> Places]
    BY <1>4 DEF CloseAgreed, Places
  <2>2. /\ refCount' \in [Conns -> Int] /\ connected' \in [Conns -> BOOLEAN]
        /\ shutting' \in [Conns -> {"no", "handlers", "socket", "unref"}]
        /\ shutBy' \in [Conns -> Threads \cup {Reader, Server, Nobody}]
    BY <1>4, <1>c, BeginType DEF CloseAgreed
  <2> QED BY <1>4, <2>1, <2>2, UseType DEF CloseAgreed
<1>5. CASE ReadCount(t)
  <2>1. at' \in [Threads -> Places]
    BY <1>5 DEF ReadCount, Places
  <2> QED BY <1>5, <1>c, <2>1, UseType DEF ReadCount
<1>6. CASE CloseUnref(t)
  <2>1. at' \in [Threads -> Places]
    BY <1>6 DEF CloseUnref, Places
  <2> QED BY <1>6, <1>c, <2>1, UseType, UnrefType DEF CloseUnref, Unref
<1>7. CASE CloseRelease(t)
  <2>1. at' \in [Threads -> Places]
    BY <1>7 DEF CloseRelease, Places
  <2>2. refCount' \in [Conns -> Int]
    BY <1>7, <1>c, UnrefType DEF CloseRelease, Unref
  <2> QED BY <1>7, <1>c, <2>1, <2>2, UseType DEF CloseRelease
<1> QED BY <1>1, <1>2, <1>3, <1>4, <1>5, <1>6, <1>7 DEF CloseGoesOn

\* An item taken from the queue: what it does to the lists and the place of the reader.
LEMMA HandleType ==
    ASSUME TypeOK, queue # <<>>, NEW next \in Rounds, Handle(Head(queue), next)
    PROVE  /\ queue' \in Seq(Items) /\ back' \in Rounds
           /\ refCount' \in [Conns -> Int] /\ conList' \subseteq Conns /\ left' \subseteq Conns
           /\ readerAt' \in Rounds \cup {"read", "change", "foreach", "build", "wait", "stopped"}
           /\ stopped' \in Nat /\ notified' \subseteq Initiators \cup {Server}
<1> DEFINE item == Head(queue)
<1>1. item \in Items /\ Tail(queue) \in Seq(Items)
  BY HeadType
<1>2. item.type \in {"connection", "listener"} => item.conn \in Conns
  BY <1>1 DEF Items
<1>3. item.type = "foreach" => item.conn \in Initiators \cup {Server}
  BY <1>1 DEF Items
<1>4. queue' = Tail(queue) /\ back' = next /\ RegisterWatch(item)
  BY DEF Handle
<1>5. \/ ChangeMechanism(item) \/ Foreach(item, next)
      \/ /\ item.type \notin {"change", "foreach"}
         /\ readerAt' = next
         /\ UNCHANGED <<stopped, left, notified>>
  BY DEF Handle
<1> HIDE DEF item
<1>6. refCount' \in [Conns -> Int] /\ conList' \subseteq Conns
  BY <1>2, <1>4, UnrefType DEF RegisterWatch, Dead, Unref, TypeOK
<1>7. /\ left' \subseteq Conns /\ stopped' \in Nat /\ notified' \subseteq Initiators \cup {Server}
      /\ readerAt' \in Rounds \cup {"change", "foreach"}
  BY <1>3, <1>5 DEF ChangeMechanism, Foreach, TypeOK
<1> QED BY <1>1, <1>4, <1>6, <1>7

\* The steps of the reader that take an item.
LEMMA PopTypes ==
    ASSUME TypeOK, PopFirst \/ ReadPending \/ PopPending \/ EndPending \/ PopReady
    PROVE  TypeOK'
<1> USE Names DEF TypeOK, connVars, readerVars, appVars
<1>1. CASE PopFirst
  <2>1. PICK next \in Rounds : Handle(Head(queue), next)
    BY <1>1 DEF PopFirst, Rounds
  <2>2. queue # <<>>
    BY <1>1 DEF PopFirst
  <2>3. /\ queue' \in Seq(Items) /\ back' \in Rounds
        /\ refCount' \in [Conns -> Int] /\ conList' \subseteq Conns /\ left' \subseteq Conns
        /\ readerAt' \in Rounds \cup {"read", "change", "foreach", "build", "wait", "stopped"}
        /\ stopped' \in Nat /\ notified' \subseteq Initiators \cup {Server}
    BY <2>1, <2>2, HandleType
  <2> QED BY <1>1, <2>3 DEF PopFirst
<1>2. CASE ReadPending
  <2>1. pending' \in Nat
    BY <1>2 DEF ReadPending
  <2> QED BY <1>2, <2>1 DEF ReadPending, Rounds
<1>3. CASE PopPending
  <2>1. "pending" \in Rounds /\ Handle(Head(queue), "pending") /\ queue # <<>>
    BY <1>3 DEF PopPending, Rounds
  <2>2. /\ queue' \in Seq(Items) /\ back' \in Rounds
        /\ refCount' \in [Conns -> Int] /\ conList' \subseteq Conns /\ left' \subseteq Conns
        /\ readerAt' \in Rounds \cup {"read", "change", "foreach", "build", "wait", "stopped"}
        /\ stopped' \in Nat /\ notified' \subseteq Initiators \cup {Server}
    BY <2>1, HandleType
  <2>3. /\ pending' \in Nat /\ goOn' \in BOOLEAN
        /\ irregular' \subseteq {"overreleased", "late", "swallowed", "unstopped"}
    BY <1>3 DEF PopPending, GoesOnAfter
  <2> QED BY <1>3, <2>2, <2>3 DEF PopPending
<1>4. CASE EndPending
  BY <1>4 DEF EndPending, Rounds
<1>5. CASE PopReady
  <2>1. Head(queue) \in Items /\ Tail(queue) \in Seq(Items)
    BY <1>5, HeadType DEF PopReady
  <2>2. Head(queue).type \in {"connection", "listener"} => Head(queue).conn \in Conns
    BY <2>1 DEF Items
  <2>3. refCount' \in [Conns -> Int] /\ conList' \subseteq Conns
    BY <1>5, <2>2, UnrefType DEF PopReady, RegisterWatch, Dead, Unref
  <2>4. irregular' \subseteq {"overreleased", "late", "swallowed", "unstopped"}
    BY <1>5 DEF PopReady
  <2>5. readerAt' \in Rounds
    BY <1>5 DEF PopReady, Rounds
  <2> QED BY <1>5, <2>1, <2>3, <2>4, <2>5 DEF PopReady
<1> QED BY <1>1, <1>2, <1>3, <1>4, <1>5

\* The steps of the reader without a connection.
LEMMA RoundTypes ==
    ASSUME TypeOK,
           ForeachNotify \/ Loop \/ DropReleased \/ BuildEnds \/ WaitEnds \/ StopEnds
    PROVE  TypeOK'
<1> USE Names DEF TypeOK, connVars, readerVars, appVars
<1>1. CASE ForeachNotify
  BY <1>1 DEF ForeachNotify
<1>2. CASE Loop
  BY <1>2 DEF Loop, Rounds
<1>3. CASE DropReleased
  BY <1>3, UseType, UnrefType DEF DropReleased, Unref
<1>4. CASE BuildEnds
  BY <1>4 DEF BuildEnds
<1>5. CASE WaitEnds
  BY <1>5 DEF WaitEnds
<1>6. CASE StopEnds
  BY <1>6 DEF StopEnds
<1> QED BY <1>1, <1>2, <1>3, <1>4, <1>5, <1>6

\* The steps of the reader with a connection of its lists.
LEMMA VisitTypes ==
    ASSUME TypeOK, NEW c \in Conns,
           \/ ForeachVisit(c) \/ VisitDead(c) \/ Visit(c) \/ VisitFails(c) \/ StopConnection(c)
           \/ DispatchFrame(c) \/ DispatchBroken(c)
    PROVE  TypeOK'
<1> USE Names DEF TypeOK, connVars, readerVars, appVars
<1>1. ASSUME BeginShutdown(Reader, c) \/ UNCHANGED <<refCount, connected, shutting, shutBy>>
      PROVE  /\ refCount' \in [Conns -> Int] /\ connected' \in [Conns -> BOOLEAN]
             /\ shutting' \in [Conns -> {"no", "handlers", "socket", "unref"}]
             /\ shutBy' \in [Conns -> Threads \cup {Reader, Server, Nobody}]
  BY <1>1, BeginType
<1>2. CASE ForeachVisit(c)
  <2>1. BeginShutdown(Reader, c) \/ UNCHANGED <<refCount, connected, shutting, shutBy>>
    BY <1>2 DEF ForeachVisit
  <2> QED BY <1>2, <1>1, <2>1, UseType DEF ForeachVisit
<1>3. CASE VisitDead(c)
  BY <1>3, UseType, UnrefType DEF VisitDead, Unref, Discard
<1>4. CASE Visit(c)
  BY <1>4, UseType DEF Visit
<1>5. CASE VisitFails(c)
  BY <1>5, <1>1, UseType DEF VisitFails, Discard
<1>6. CASE StopConnection(c)
  BY <1>6, <1>1, UseType DEF StopConnection, Discard
<1>7. CASE DispatchFrame(c)
  <2>1. at' \in [Threads -> Places]
    BY <1>7 DEF DispatchFrame, Places
  <2> QED BY <1>7, <2>1, UseType DEF DispatchFrame, Ref
<1>8. CASE DispatchBroken(c)
  BY <1>8, <1>1, UseType DEF DispatchBroken
<1> QED BY <1>2, <1>3, <1>4, <1>5, <1>6, <1>7, <1>8

LEMMA AcceptTypes ==
    ASSUME TypeOK, NEW c \in Conns, Accept(c)
    PROVE  TypeOK'
<1> USE Names DEF TypeOK, connVars, readerVars, appVars
<1>1. MasterRefs \in Int
  BY DEF MasterRefs
<1>2. linked' \subseteq Conns /\ created' \subseteq Conns
  BY DEF Accept, Linked
<1>3. refCount' \in [Conns -> Int]
  <2>1. PICK n \in {1, 2} : refCount' = [refCount EXCEPT ![c] = n, ![Listener] = MasterRefs]
    BY DEF Accept
  <2> QED BY <1>1, <2>1
<1>4. \/ /\ connected' = [connected EXCEPT ![c] = TRUE]
         /\ Push(Item("connection", c))
         /\ irregular' = IF serverAt # "idle" THEN irregular \cup {"late"} ELSE irregular
         /\ shutting' = shutting /\ shutBy' = shutBy /\ dropping' = dropping
      \/ /\ connected' = connected
         /\ shutting' = [shutting EXCEPT ![c] = "handlers"]
         /\ shutBy' = [shutBy EXCEPT ![c] = Reader]
         /\ dropping' = c /\ queue' = queue /\ irregular' = irregular
  BY DEF Accept
<1>5. connected' \in [Conns -> BOOLEAN] /\ dropping' \in Conns \cup {Nobody}
  BY <1>4
<1>6. /\ shutting' \in [Conns -> {"no", "handlers", "socket", "unref"}]
      /\ shutBy' \in [Conns -> Threads \cup {Reader, Server, Nobody}]
  BY <1>4
<1>7. irregular' \subseteq {"overreleased", "late", "swallowed", "unstopped"}
  BY <1>4
<1>8. queue' \in Seq(Items)
  BY <1>4, PushType DEF Item, Items
<1>9. session' \in [Conns -> BOOLEAN] /\ onClose' \in [Conns -> {"none", "installed", "running", "done"}]
  BY DEF Accept
<1> QED BY <1>2, <1>3, <1>5, <1>6, <1>7, <1>8, <1>9, UseType DEF Accept

LEMMA ServerTypes ==
    ASSUME TypeOK, ServerCalls \/ ServerStep
    PROVE  TypeOK'
<1> USE Names DEF TypeOK, connVars, readerVars, appVars
<1>1. CASE ServerCalls
  BY <1>1, UseType DEF ServerCalls, Ref
<1>2. CASE ServerForeach
  <2>1. queue' \in Seq(Items)
    BY <1>2, PushType DEF ServerForeach, Item, Items
  <2> QED BY <1>2, <2>1 DEF ServerForeach
<1>3. CASE ServerShutdown
  <2>1. /\ refCount' \in [Conns -> Int] /\ connected' \in [Conns -> BOOLEAN]
        /\ shutting' \in [Conns -> {"no", "handlers", "socket", "unref"}]
        /\ shutBy' \in [Conns -> Threads \cup {Reader, Server, Nobody}]
    BY <1>3, BeginType DEF ServerShutdown
  <2> QED BY <1>3, <2>1, UseType DEF ServerShutdown
<1>4. CASE ServerReturns
  BY <1>4, UseType, UnrefType DEF ServerReturns, Unref
<1> QED BY <1>1, <1>2, <1>3, <1>4 DEF ServerStep

LEMMA TunerTypes ==
    ASSUME TypeOK, TunerAsks \/ TunerStep \/ StartExit \/ ExitStep
    PROVE  TypeOK'
<1> USE Names DEF TypeOK, connVars, readerVars, appVars
<1>1. CASE TunerAsks
  <2>1. queue' \in Seq(Items)
    BY <1>1, PushType DEF TunerAsks, Item, Items
  <2> QED BY <1>1, <2>1 DEF TunerAsks
<1>2. CASE TunerInstalls
  BY <1>2 DEF TunerInstalls
<1>3. CASE TunerDone
  <2>1. queue' \in Seq(Items)
    BY <1>3, PushType DEF TunerDone, Item, Items
  <2> QED BY <1>3, <2>1 DEF TunerDone
<1>4. CASE StartExit
  <2>1. queue' \in Seq(Items)
    BY <1>4, PushType DEF StartExit, Item, Items
  <2> QED BY <1>4, <2>1 DEF StartExit
<1>5. CASE StopReturns
  BY <1>5 DEF StopReturns
<1>6. CASE StopTimesOut
  BY <1>6 DEF StopTimesOut
<1> QED BY <1>1, <1>2, <1>3, <1>4, <1>5, <1>6 DEF TunerStep, ExitStep

LEMMA TypeStep == TypeOK /\ [Next]_vars => TypeOK'
<1> SUFFICES ASSUME TypeOK, [Next]_vars PROVE TypeOK'
  OBVIOUS
<1>1. CASE UNCHANGED vars
  BY <1>1 DEF vars, connVars, readerVars, appVars, TypeOK
<1>2. CASE Next
  BY <1>2, ShutdownTypes, OwnerTypes, TaskTypes, CloseTypes, PopTypes, RoundTypes, VisitTypes,
     AcceptTypes, ServerTypes, TunerTypes DEF Next, ReaderStep
<1> QED BY <1>1, <1>2

\* Every variable has the shape of the field, list or place it stands for.
THEOREM Types == Spec => []TypeOK
<1>1. Init => TypeOK
  BY TypeStart
<1>2. TypeOK /\ [Next]_vars => TypeOK'
  BY TypeStep
<1> QED BY <1>1, <1>2, PTL DEF Spec

-----------------------------------------------------------------------------
(* What the helpers of the actions do *)

\* A push adds one item at the end, a pop takes the first.
LEMMA PushSlots ==
    ASSUME queue \in Seq(Items), NEW item \in Items, Push(item)
    PROVE  /\ Len(queue) \in Nat /\ Len(queue') = Len(queue) + 1
           /\ \A k \in 1 .. Len(queue) : queue'[k] = queue[k]
           /\ queue'[Len(queue) + 1] = item
BY DEF Push

LEMMA PopSlots ==
    ASSUME queue \in Seq(Items), queue # <<>>, queue' = Tail(queue)
    PROVE  /\ Len(queue) \in Nat \ {0} /\ Len(queue') = Len(queue) - 1
           /\ Head(queue) = queue[1] /\ Head(queue) \in Items
           /\ \A k \in 1 .. Len(queue) - 1 : queue'[k] = queue[k + 1]
<1>1. Len(queue) \in Nat \ {0} /\ Head(queue) = queue[1]
  BY EmptySeq
<1> QED BY <1>1, HeadTailProperties

\* vortex_connection_unref takes one from the count, and one from that of the listener
\* when the connection is freed.
LEMMA ReleasedFacts ==
    ASSUME refCount \in [Conns -> Int], linked \subseteq Accepted, NEW c \in Conns
    PROVE  \A d \in Conns :
              Released(refCount, c)[d] =
                  IF d = c THEN refCount[c] - 1
                  ELSE IF d = Listener /\ c \in linked /\ refCount[c] = 1 THEN refCount[d] - 1
                  ELSE refCount[d]
BY Names DEF Released, Peers

\* What a shutdown that begins does: nothing when there is nothing to do.
LEMMA BeginFacts ==
    ASSUME TypeOK, NEW c \in Conns, NEW t \in Threads \cup {Reader, Server}, BeginShutdown(t, c)
    PROVE  /\ \A d \in Conns : connected'[d] = (connected[d] /\ d # c)
           /\ \A d \in Conns :
                 /\ shutting'[d] = IF d = c /\ connected[c] THEN "handlers" ELSE shutting[d]
                 /\ refCount'[d] = IF d = c /\ connected[c] THEN refCount[c] + 1 ELSE refCount[d]
<1>1. /\ refCount \in [Conns -> Int] /\ connected \in [Conns -> BOOLEAN]
      /\ shutting \in [Conns -> {"no", "handlers", "socket", "unref"}]
  BY DEF TypeOK
<1>2. CASE connected[c]
  <2>1. connected' = [connected EXCEPT ![c] = FALSE]
    BY <1>2 DEF BeginShutdown
  <2>2. shutting' = [shutting EXCEPT ![c] = "handlers"]
    BY <1>2 DEF BeginShutdown
  <2>3. refCount' = [refCount EXCEPT ![c] = @ + 1]
    BY <1>2 DEF BeginShutdown, Ref
  <2>4. \A d \in Conns : connected'[d] = (connected[d] /\ d # c)
    BY <1>1, <2>1
  <2>5. \A d \in Conns : /\ shutting'[d] = IF d = c THEN "handlers" ELSE shutting[d]
                         /\ refCount'[d] = IF d = c THEN refCount[c] + 1 ELSE refCount[d]
    BY <1>1, <2>2, <2>3
  <2> QED BY <1>2, <2>4, <2>5
<1>3. CASE ~connected[c]
  <2>1. connected' = connected /\ shutting' = shutting /\ refCount' = refCount
    BY <1>3 DEF BeginShutdown
  <2>2. \A d \in Conns : connected[d] = (connected[d] /\ d # c)
    BY <1>1, <1>3
  <2> QED BY <1>3, <2>1, <2>2
<1> QED BY <1>2, <1>3

-----------------------------------------------------------------------------
(* Connections that live *)

\* What is left to show of a step that creates no connection.
LEMMA LifeKept ==
    ASSUME LifeInv, created' = created, linked' = linked, owned' \subseteq owned,
           \A d \in Conns : connected'[d] => connected[d] /\ session'[d] /\ shutting'[d] = "no",
           \A d \in Conns \ created : /\ shutting'[d] = "no" /\ onClose'[d] = "none"
                                      /\ refCount'[d] = refCount[d] /\ dropping' # d,
           \A d \in Initiators : at'[Owner(d)] = "none" <=> at[Owner(d)] = "none",
           \A d \in Peers \ created : at'[Task(d)] = "none"
    PROVE  LifeInv'
BY DEF LifeInv

\* The places of the threads but one stay.
LEMMA MoveFacts ==
    ASSUME at \in [Threads -> Places], NEW t \in Threads, NEW place, at' = [at EXCEPT ![t] = place]
    PROVE  \A u \in Threads : at'[u] = IF u = t THEN place ELSE at[u]
OBVIOUS

LEMMA ShutdownLife ==
    ASSUME TypeOK, LifeInv, NEW c \in Conns, Shutdowns(c) \/ OnCloseNotified(c)
    PROVE  LifeInv'
<1>t. /\ shutting \in [Conns -> {"no", "handlers", "socket", "unref"}]
      /\ onClose \in [Conns -> {"none", "installed", "running", "done"}]
      /\ refCount \in [Conns -> Int] /\ session \in [Conns -> BOOLEAN]
  BY DEF TypeOK
<1>1. CASE InvokeOnClose(c)
  <2>1. c \in created
    BY <1>1 DEF InvokeOnClose, LifeInv
  <2>2. \A d \in Conns \ created : onClose'[d] = "none" /\ refCount'[d] = refCount[d]
    BY <1>1, <1>t, <2>1 DEF InvokeOnClose, Ref, LifeInv
  <2>3. \A d \in Conns : /\ d # c => shutting'[d] = shutting[d]
                         /\ shutting[c] # "no" /\ connected' = connected /\ session' = session
    BY <1>1, <1>t DEF InvokeOnClose
  <2> QED BY <1>1, <2>1, <2>2, <2>3, LifeKept DEF InvokeOnClose, readerVars, LifeInv
<1>2. CASE CloseSocket(c)
  <2>1. c \in created
    BY <1>2 DEF CloseSocket, LifeInv
  <2>2. \A d \in Conns : /\ d # c => shutting'[d] = shutting[d] /\ session'[d] = session[d]
                         /\ shutting[c] # "no" /\ connected' = connected
    BY <1>2, <1>t DEF CloseSocket
  <2> QED BY <1>2, <2>1, <2>2, LifeKept DEF CloseSocket, readerVars, LifeInv
<1>3. CASE EndShutdown(c)
  <2>1. c \in created
    BY <1>3 DEF EndShutdown, LifeInv
  <2>2. \A d \in Conns : shutting'[d] = IF d = c THEN "no" ELSE shutting[d]
    BY <1>3, <1>t DEF EndShutdown
  <2>3. \A d \in Conns \ created : refCount'[d] = refCount[d]
    BY <1>3, <1>t, <2>1, ReleasedFacts DEF EndShutdown, Unref, LifeInv
  <2> QED BY <1>3, <2>1, <2>2, <2>3, LifeKept DEF EndShutdown, readerVars, LifeInv
<1>4. CASE OnCloseNotified(c)
  <2>1. c \in created
    BY <1>4 DEF OnCloseNotified, LifeInv
  <2>2. \A d \in Conns : d # c => onClose'[d] = onClose[d]
    BY <1>4, <1>t DEF OnCloseNotified
  <2>3. \A d \in Conns \ created : refCount'[d] = refCount[d]
    BY <1>4, <1>t, <2>1, ReleasedFacts DEF OnCloseNotified, Unref, LifeInv
  <2> QED BY <1>4, <2>1, <2>2, <2>3, LifeKept DEF OnCloseNotified, readerVars, LifeInv
<1> QED BY <1>1, <1>2, <1>3, <1>4 DEF Shutdowns

\* A connection somebody has is created, when it is shut down or released.
LEMMA ReleaseLife ==
    ASSUME TypeOK, LifeInv, NEW c \in created, Unref(c)
    PROVE  \A d \in Conns \ created : refCount'[d] = refCount[d]
<1>1. refCount \in [Conns -> Int] /\ c \in Conns
  BY DEF TypeOK
<1>2. linked \subseteq Accepted /\ Listener \in created
  BY DEF LifeInv
<1> QED BY <1>1, <1>2, ReleasedFacts DEF Unref

LEMMA BeginLife ==
    ASSUME TypeOK, LifeInv, NEW c \in created, NEW t \in Threads \cup {Reader, Server},
           BeginShutdown(t, c) \/ UNCHANGED <<refCount, connected, shutting, shutBy>>,
           session' = session
    PROVE  /\ \A d \in Conns : connected'[d] => connected[d] /\ session'[d] /\ shutting'[d] = "no"
           /\ \A d \in Conns \ created : shutting'[d] = "no" /\ refCount'[d] = refCount[d]
<1>1. c \in Conns
  BY DEF TypeOK
<1>2. CASE BeginShutdown(t, c)
  BY <1>1, <1>2, BeginFacts DEF LifeInv
<1>3. CASE UNCHANGED <<refCount, connected, shutting, shutBy>>
  BY <1>3 DEF LifeInv
<1> QED BY <1>2, <1>3

LEMMA OwnerLife ==
    ASSUME TypeOK, LifeInv, NEW c \in Initiators,
           NewConnection(c) \/ WatchConnection(c) \/ Block(c) \/ BlockReturns(c)
    PROVE  LifeInv'
<1>t. /\ at \in [Threads -> Places] /\ refCount \in [Conns -> Int]
      /\ connected \in [Conns -> BOOLEAN] /\ session \in [Conns -> BOOLEAN]
      /\ onClose \in [Conns -> {"none", "installed", "running", "done"}]
      /\ linked \subseteq Conns /\ c \in Conns /\ Owner(c) \in Threads
  BY Names, ThreadFacts DEF TypeOK
<1>1. CASE NewConnection(c)
  <2>1. PICK greeted \in BOOLEAN :
          /\ connected' = [connected EXCEPT ![c] = greeted]
          /\ session' = [session EXCEPT ![c] = greeted]
          /\ at' = [at EXCEPT ![Owner(c)] = IF greeted THEN "greeted" ELSE "open"]
          /\ onClose' = [onClose EXCEPT ![c] = IF greeted THEN "installed" ELSE "none"]
    BY <1>1 DEF NewConnection
  <2>2. /\ created' = created \cup {c} /\ owned' = owned \cup {c} /\ linked' = linked
        /\ shutting' = shutting /\ dropping' = dropping /\ at[Owner(c)] = "none"
        /\ refCount' = [refCount EXCEPT ![c] = 1]
    BY <1>1 DEF NewConnection, readerVars
  <2>3. \A d \in Conns : /\ connected'[d] = IF d = c THEN greeted ELSE connected[d]
                         /\ session'[d] = IF d = c THEN greeted ELSE session[d]
                         /\ d # c => onClose'[d] = onClose[d] /\ refCount'[d] = refCount[d]
    BY <1>t, <2>1, <2>2
  <2>4. \A u \in Threads : at'[u] = IF u = Owner(c) THEN IF greeted THEN "greeted" ELSE "open"
                                    ELSE at[u]
    BY <1>t, <2>1
  <2>5. c \notin created
    BY <2>2 DEF LifeInv
  <2>6. /\ \A d \in Initiators : at'[Owner(d)] = "none" <=> d \notin created'
        /\ \A d \in Peers : at'[Task(d)] # "none" => d \in created'
    BY <2>2, <2>4, ThreadFacts DEF LifeInv
  <2> QED BY <2>2, <2>3, <2>5, <2>6 DEF LifeInv
<1>2. CASE WatchConnection(c)
  <2>1. c \in created /\ at[Owner(c)] = "greeted"
    BY <1>2 DEF WatchConnection, LifeInv
  <2>2. \A d \in Conns \ created : refCount'[d] = refCount[d]
    BY <1>2, <1>t, <2>1 DEF WatchConnection, Ref
  <2>3. \A u \in Threads : at'[u] = IF u = Owner(c) THEN "open" ELSE at[u]
    BY <1>2, <1>t DEF WatchConnection
  <2> QED BY <1>2, <2>1, <2>2, <2>3, ThreadFacts, LifeKept DEF WatchConnection, LifeInv
<1>3. CASE Block(c)
  <2>1. \A u \in Threads : at'[u] = IF u = Owner(c) THEN "blocking" ELSE at[u]
    BY <1>3, <1>t DEF Block
  <2> QED BY <1>3, <2>1, ThreadFacts, LifeKept DEF Block, LifeInv
<1>4. CASE BlockReturns(c)
  <2>1. \A u \in Threads : at'[u] = IF u = Owner(c) THEN "open" ELSE at[u]
    BY <1>4, <1>t DEF BlockReturns
  <2> QED BY <1>4, <2>1, ThreadFacts, LifeKept DEF BlockReturns, LifeInv, connVars, readerVars
<1> QED BY <1>1, <1>2, <1>3, <1>4

\* Handlers, and threads inside vortex_connection_close.
LEMMA TaskLife ==
    ASSUME TypeOK, LifeInv, NEW c \in Peers, TaskShutdown(c) \/ TaskEnds(c)
    PROVE  LifeInv'
<1>t. at \in [Threads -> Places] /\ c \in Conns /\ Task(c) \in Threads
  BY Names, ThreadFacts DEF TypeOK
<1>1. CASE TaskShutdown(c)
  <2>1. c \in created
    BY <1>1 DEF TaskShutdown, LifeInv
  <2>2. \A u \in Threads : at'[u] = IF u = Task(c) THEN "closed" ELSE at[u]
    BY <1>1, <1>t DEF TaskShutdown
  <2>3. BeginShutdown(Task(c), c) /\ session' = session
    BY <1>1 DEF TaskShutdown
  <2> QED BY <1>1, <1>t, <2>1, <2>2, <2>3, BeginLife, ThreadFacts, LifeKept
          DEF TaskShutdown, LifeInv, readerVars
<1>2. CASE TaskEnds(c)
  <2>1. c \in created
    BY <1>2 DEF TaskEnds, LifeInv
  <2>2. \A u \in Threads : at'[u] = IF u = Task(c) THEN "ended" ELSE at[u]
    BY <1>2, <1>t DEF TaskEnds
  <2> QED BY <1>2, <2>1, <2>2, ReleaseLife, ThreadFacts, LifeKept DEF TaskEnds, LifeInv, readerVars
<1> QED BY <1>1, <1>2

\* A thread that is anywhere works with a connection that was created.
LEMMA SomewhereCreated ==
    ASSUME TypeOK, LifeInv, NEW t \in Threads, at[t] # "none"
    PROVE  ThreadConn(t) \in created
BY ThreadFacts DEF LifeInv

\* A thread that goes on keeps what LifeInv says of its place.
LEMMA OnwardLife ==
    ASSUME TypeOK, LifeInv, NEW t \in Threads, at[t] # "none", NEW place, place # "none",
           at' = [at EXCEPT ![t] = place]
    PROVE  /\ \A d \in Initiators : at'[Owner(d)] = "none" <=> at[Owner(d)] = "none"
           /\ \A d \in Peers \ created : at'[Task(d)] = "none"
<1>1. \A u \in Threads : at'[u] = IF u = t THEN place ELSE at[u]
  BY DEF TypeOK
<1> QED BY <1>1, ThreadFacts DEF LifeInv

LEMMA CloseLife ==
    ASSUME TypeOK, LifeInv, NEW t \in Threads, CloseCall(t) \/ CloseDeclined(t) \/ CloseGoesOn(t)
    PROVE  LifeInv'
<1> DEFINE c == ThreadConn(t)
<1>t. c \in Conns /\ (t[2] = "owner" \/ t[2] = "task")
  BY ThreadFacts
<1>p. at[t] # "none" => c \in created
  BY SomewhereCreated
<1>r. refCount \in [Conns -> Int]
  BY DEF TypeOK
<1>1. CASE CloseCall(t)
  <2>1. PICK place \in {"closed", "ref", "release"} : at' = [at EXCEPT ![t] = place]
    BY <1>1 DEF CloseCall
  <2>2. at[t] # "none"
    BY <1>1, <1>t DEF CloseCall, Working
  <2> QED BY <1>1, <2>1, <2>2, OnwardLife, LifeKept DEF CloseCall, LifeInv, readerVars
<1>2. CASE CloseDeclined(t)
  <2>1. PICK place \in {"open", "run"} : at' = [at EXCEPT ![t] = place]
    BY <1>2 DEF CloseDeclined, GoesOn
  <2>2. at[t] # "none" /\ Unref(c)
    BY <1>2 DEF CloseDeclined
  <2> QED BY <1>2, <1>p, <2>1, <2>2, OnwardLife, ReleaseLife, LifeKept
          DEF CloseDeclined, LifeInv, readerVars
<1>3. CASE CloseRef(t)
  <2>1. PICK place \in {"channels", "closed"} : at' = [at EXCEPT ![t] = place]
    BY <1>3 DEF CloseRef
  <2>2. at[t] # "none" /\ owned' \subseteq owned /\ (Ref(c) \/ Unref(c))
    BY <1>3 DEF CloseRef
  <2>3. \A d \in Conns \ created : refCount'[d] = refCount[d]
    BY <1>p, <1>r, <2>2, ReleaseLife DEF Ref
  <2> QED BY <1>3, <2>1, <2>2, <2>3, OnwardLife, LifeKept DEF CloseRef, LifeInv, readerVars
<1>4. CASE CloseAgreed(t)
  <2>1. at[t] # "none" /\ BeginShutdown(t, c) /\ at' = [at EXCEPT ![t] = "count"] /\ session' = session
    BY <1>4 DEF CloseAgreed
  <2> QED BY <1>4, <1>p, <2>1, OnwardLife, BeginLife, LifeKept DEF CloseAgreed, LifeInv, readerVars
<1>5. CASE ReadCount(t)
  <2>1. at[t] # "none" /\ at' = [at EXCEPT ![t] = "drop"]
    BY <1>5 DEF ReadCount
  <2> QED BY <1>5, <2>1, OnwardLife, LifeKept DEF ReadCount, LifeInv, readerVars, connVars
<1>6. CASE CloseUnref(t)
  <2>1. PICK place \in {"closed", "release"} : at' = [at EXCEPT ![t] = place]
    BY <1>6 DEF CloseUnref
  <2>2. at[t] # "none" /\ Unref(c)
    BY <1>6 DEF CloseUnref
  <2> QED BY <1>6, <1>p, <2>1, <2>2, OnwardLife, ReleaseLife, LifeKept
          DEF CloseUnref, LifeInv, readerVars
<1>7. CASE CloseRelease(t)
  <2>1. at[t] # "none" /\ at' = [at EXCEPT ![t] = "closed"]
    BY <1>7 DEF CloseRelease
  <2>2. owned' \subseteq owned /\ (Unref(c) \/ refCount' = refCount)
    BY <1>7 DEF CloseRelease
  <2>3. \A d \in Conns \ created : refCount'[d] = refCount[d]
    BY <1>p, <2>1, <2>2, ReleaseLife
  <2> QED BY <1>7, <2>1, <2>2, <2>3, OnwardLife, LifeKept DEF CloseRelease, LifeInv, readerVars
<1> QED BY <1>1, <1>2, <1>3, <1>4, <1>5, <1>6, <1>7 DEF CloseGoesOn

\* An item that is registered: its connection was created, and its reference goes to the
\* list or is released.
LEMMA WatchLife ==
    ASSUME TypeOK, LifeInv, WatchInv, queue # <<>>, RegisterWatch(Head(queue))
    PROVE  \A d \in Conns \ created : refCount'[d] = refCount[d]
<1> DEFINE item == Head(queue)
<1>1. Len(queue) \in Nat \ {0} /\ item = queue[1] /\ item \in Items
  BY EmptySeq, HeadType DEF TypeOK
<1>2. Dead(item) => item.conn \in created
  BY <1>1 DEF Dead, Items, WatchInv, Watched, Slot, InQueue
<1> QED BY <1>2, ReleaseLife DEF RegisterWatch

LEMMA PopLife ==
    ASSUME TypeOK, LifeInv, WatchInv,
           PopFirst \/ ReadPending \/ PopPending \/ EndPending \/ PopReady
    PROVE  LifeInv'
<1>1. CASE PopFirst
  BY <1>1, WatchLife, LifeKept DEF PopFirst, Handle, LifeInv
<1>2. CASE ReadPending
  BY <1>2, LifeKept DEF ReadPending, LifeInv, connVars, appVars
<1>3. CASE PopPending
  BY <1>3, WatchLife, LifeKept DEF PopPending, Handle, LifeInv
<1>4. CASE EndPending
  BY <1>4, LifeKept DEF EndPending, LifeInv, connVars, appVars
<1>5. CASE PopReady
  BY <1>5, WatchLife, LifeKept DEF PopReady, LifeInv
<1> QED BY <1>1, <1>2, <1>3, <1>4, <1>5

LEMMA RoundLife ==
    ASSUME TypeOK, LifeInv,
           ForeachNotify \/ Loop \/ DropReleased \/ BuildEnds \/ WaitEnds \/ StopEnds
    PROVE  LifeInv'
<1> USE DEF LifeInv, connVars, appVars
<1>1. CASE ForeachNotify
  BY <1>1, LifeKept DEF ForeachNotify
<1>2. CASE Loop
  BY <1>2, LifeKept DEF Loop
<1>3. CASE DropReleased
  <2>1. dropping \in created
    BY <1>3 DEF DropReleased, TypeOK
  <2>2. \A d \in Conns \ created : refCount'[d] = refCount[d]
    BY <1>3, <2>1, ReleaseLife DEF DropReleased
  <2> QED BY <1>3, <2>2, Names, LifeKept DEF DropReleased
<1>4. CASE BuildEnds
  BY <1>4, LifeKept DEF BuildEnds
<1>5. CASE WaitEnds
  BY <1>5, LifeKept DEF WaitEnds
<1>6. CASE StopEnds
  BY <1>6, LifeKept DEF StopEnds
<1> QED BY <1>1, <1>2, <1>3, <1>4, <1>5, <1>6

\* The reader only works with connections of its list, all of them created.
LEMMA ReaderLists ==
    ASSUME TypeOK, WatchInv
    PROVE  /\ readerAt \in {"foreach", "build"} => left \subseteq created
           /\ readerAt = "wait" => fdSet \subseteq created
           /\ conList \subseteq created
BY DEF WatchInv, Watched, Rounded, TypeOK

LEMMA VisitLife ==
    ASSUME TypeOK, LifeInv, WatchInv, NEW c \in Conns,
           \/ ForeachVisit(c) \/ VisitDead(c) \/ Visit(c) \/ VisitFails(c) \/ StopConnection(c)
           \/ DispatchFrame(c) \/ DispatchBroken(c)
    PROVE  LifeInv'
<1>1. CASE ForeachVisit(c)
  <2>1. c \in created
    BY <1>1, ReaderLists DEF ForeachVisit
  <2>2. /\ BeginShutdown(Reader, c) \/ UNCHANGED <<refCount, connected, shutting, shutBy>>
        /\ session' = session
    BY <1>1 DEF ForeachVisit
  <2> QED BY <1>1, <2>1, <2>2, BeginLife, LifeKept DEF ForeachVisit, LifeInv
<1>2. CASE VisitDead(c)
  <2>1. c \in created
    BY <1>2, ReaderLists DEF VisitDead
  <2> QED BY <1>2, <2>1, ReleaseLife, LifeKept DEF VisitDead, LifeInv
<1>3. CASE Visit(c)
  BY <1>3, LifeKept DEF Visit, LifeInv, connVars
<1>4. CASE VisitFails(c)
  <2>1. c \in created
    BY <1>4, ReaderLists DEF VisitFails
  <2>2. BeginShutdown(Reader, c) /\ session' = session
    BY <1>4 DEF VisitFails
  <2> QED BY <1>4, <2>1, <2>2, BeginLife, LifeKept DEF VisitFails, LifeInv
<1>5. CASE StopConnection(c)
  <2>1. c \in created
    BY <1>5, ReaderLists DEF StopConnection
  <2>2. BeginShutdown(Reader, c) /\ session' = session
    BY <1>5 DEF StopConnection
  <2> QED BY <1>5, <2>1, <2>2, BeginLife, LifeKept DEF StopConnection, LifeInv
<1>6. CASE DispatchFrame(c)
  <2>1. c \in created /\ c \in Peers
    BY <1>6, ReaderLists DEF DispatchFrame
  <2>2. \A u \in Threads : at'[u] = IF u = Task(c) THEN "run" ELSE at[u]
    BY <1>6, <2>1, ThreadFacts DEF DispatchFrame, TypeOK
  <2>3. \A d \in Conns \ created : refCount'[d] = refCount[d]
    BY <1>6, <2>1 DEF DispatchFrame, Ref, TypeOK
  <2> QED BY <1>6, <2>1, <2>2, <2>3, ThreadFacts, LifeKept DEF DispatchFrame, LifeInv
<1>7. CASE DispatchBroken(c)
  <2>1. c \in created
    BY <1>7, ReaderLists DEF DispatchBroken
  <2>2. BeginShutdown(Reader, c) /\ session' = session
    BY <1>7 DEF DispatchBroken
  <2> QED BY <1>7, <2>1, <2>2, BeginLife, LifeKept DEF DispatchBroken, LifeInv
<1> QED BY <1>1, <1>2, <1>3, <1>4, <1>5, <1>6, <1>7

\* A connection that is accepted.
LEMMA AcceptFacts ==
    ASSUME TypeOK, NEW c \in Conns, Accept(c)
    PROVE  /\ c \in Accepted \ created /\ c # Listener
           /\ created' = created \cup {c} /\ linked' = Linked(c)
           /\ \A d \in Conns : session'[d] = (session[d] \/ d = c)
           /\ \A d \in Conns : onClose'[d] = IF d = c THEN "installed" ELSE onClose[d]
           /\ \A d \in Conns : d # c /\ d # Listener => refCount'[d] = refCount[d]
           /\ refCount'[Listener] = MasterRefs
<1>t. /\ refCount \in [Conns -> Int] /\ session \in [Conns -> BOOLEAN]
      /\ onClose \in [Conns -> {"none", "installed", "running", "done"}]
  BY DEF TypeOK
<1>1. c \in Accepted \ created /\ c # Listener /\ Listener \in Conns
  BY Names DEF Accept
<1>2. PICK n \in {1, 2} : refCount' = [refCount EXCEPT ![c] = n, ![Listener] = MasterRefs]
  BY DEF Accept
<1>3. /\ \A d \in Conns : d # c /\ d # Listener => refCount'[d] = refCount[d]
      /\ refCount'[Listener] = MasterRefs
  BY <1>t, <1>1, <1>2
<1>4. session' = [session EXCEPT ![c] = TRUE] /\ onClose' = [onClose EXCEPT ![c] = "installed"]
  BY DEF Accept
<1>5. \A d \in Conns : session'[d] = (session[d] \/ d = c)
  BY <1>t, <1>4
<1>6. \A d \in Conns : onClose'[d] = IF d = c THEN "installed" ELSE onClose[d]
  BY <1>t, <1>4
<1>7. created' = created \cup {c} /\ linked' = Linked(c)
  BY DEF Accept
<1> QED BY <1>1, <1>3, <1>5, <1>6, <1>7

\* It is taken into use, or refused.
LEMMA AcceptKinds ==
    ASSUME TypeOK, NEW c \in Conns, Accept(c)
    PROVE  \/ /\ \A d \in Conns : connected'[d] = (connected[d] \/ d = c)
              /\ refCount'[c] = 1 /\ Push(Item("connection", c))
              /\ irregular' = IF serverAt # "idle" THEN irregular \cup {"late"} ELSE irregular
              /\ shutting' = shutting /\ dropping' = dropping
           \/ /\ connected' = connected /\ refCount'[c] = 2
              /\ \A d \in Conns : shutting'[d] = IF d = c THEN "handlers" ELSE shutting[d]
              /\ dropping' = c /\ queue' = queue /\ irregular' = irregular
<1>t. /\ refCount \in [Conns -> Int] /\ connected \in [Conns -> BOOLEAN]
      /\ shutting \in [Conns -> {"no", "handlers", "socket", "unref"}]
      /\ c # Listener
  BY AcceptFacts DEF TypeOK
<1>1. connected' = [connected EXCEPT ![c] = TRUE] =>
          \A d \in Conns : connected'[d] = (connected[d] \/ d = c)
  BY <1>t
<1>2. shutting' = [shutting EXCEPT ![c] = "handlers"] =>
          \A d \in Conns : shutting'[d] = IF d = c THEN "handlers" ELSE shutting[d]
  BY <1>t
<1>3. \A n \in {1, 2} : refCount' = [refCount EXCEPT ![c] = n, ![Listener] = MasterRefs]
                          => refCount'[c] = n
  BY <1>t
<1>4. \/ /\ connected' = [connected EXCEPT ![c] = TRUE]
         /\ refCount' = [refCount EXCEPT ![c] = 1, ![Listener] = MasterRefs]
         /\ Push(Item("connection", c))
         /\ irregular' = IF serverAt # "idle" THEN irregular \cup {"late"} ELSE irregular
         /\ shutting' = shutting /\ dropping' = dropping
      \/ /\ connected' = connected
         /\ refCount' = [refCount EXCEPT ![c] = 2, ![Listener] = MasterRefs]
         /\ shutting' = [shutting EXCEPT ![c] = "handlers"]
         /\ dropping' = c /\ queue' = queue /\ irregular' = irregular
  BY DEF Accept
<1> QED BY <1>1, <1>2, <1>3, <1>4

LEMMA AcceptLife ==
    ASSUME TypeOK, LifeInv, NEW c \in Conns, Accept(c)
    PROVE  LifeInv'
<1>1. owned' = owned /\ at' = at
  BY DEF Accept
<1>2. c \in Accepted /\ c \notin Initiators /\ c \notin created /\ created' = created \cup {c}
  BY AcceptFacts, Names
<1>3. linked' \subseteq Accepted \cap created' /\ IsFiniteSet(linked')
  BY <1>2, AcceptFacts, FS_AddElement DEF Linked, LifeInv
<1>4. c \in Conns \ created /\ ~connected[c] /\ shutting[c] = "no" /\ Listener \in created
  BY <1>2, Names DEF LifeInv, Peers
<1>5. /\ \A d \in Conns : session'[d] = (session[d] \/ d = c)
      /\ \A d \in Conns : onClose'[d] = IF d = c THEN "installed" ELSE onClose[d]
      /\ \A d \in Conns : d # c /\ d # Listener => refCount'[d] = refCount[d]
  BY AcceptFacts
<1>6. /\ \A d \in Conns : connected'[d] => connected[d] \/ (d = c /\ shutting' = shutting)
      /\ \A d \in Conns : d # c => shutting'[d] = shutting[d]
      /\ dropping' = dropping \/ dropping' = c
  BY AcceptKinds
<1>7. \A d \in Conns : connected'[d] => session'[d] /\ shutting'[d] = "no"
  BY <1>4, <1>5, <1>6 DEF LifeInv
<1>8. \A d \in Conns \ created' :
          /\ ~connected'[d] /\ shutting'[d] = "no" /\ onClose'[d] = "none" /\ dropping' # d
          /\ refCount'[d] = 0
  BY <1>2, <1>4, <1>5, <1>6 DEF LifeInv
<1> QED BY <1>1, <1>2, <1>3, <1>7, <1>8 DEF LifeInv

LEMMA ServerLife ==
    ASSUME TypeOK, LifeInv, ServerCalls \/ ServerStep
    PROVE  LifeInv'
<1>t. refCount \in [Conns -> Int] /\ Listener \in created
  BY DEF TypeOK, LifeInv
<1> USE DEF connVars, readerVars
<1>1. CASE ServerCalls
  <2>1. \A d \in Conns \ created : refCount'[d] = refCount[d]
    BY <1>1, <1>t DEF ServerCalls, Ref
  <2> QED BY <1>1, <2>1, LifeKept DEF ServerCalls, LifeInv
<1>2. CASE ServerForeach
  BY <1>2, LifeKept DEF ServerForeach, LifeInv
<1>3. CASE ServerShutdown
  <2>1. BeginShutdown(Server, Listener) /\ session' = session
    BY <1>3 DEF ServerShutdown
  <2> QED BY <1>3, <1>t, <2>1, BeginLife, LifeKept DEF ServerShutdown, LifeInv
<1>4. CASE ServerReturns
  BY <1>4, <1>t, ReleaseLife, LifeKept DEF ServerReturns, LifeInv
<1> QED BY <1>1, <1>2, <1>3, <1>4 DEF ServerStep

LEMMA TunerLife ==
    ASSUME TypeOK, LifeInv, TunerAsks \/ TunerStep \/ StartExit \/ ExitStep
    PROVE  LifeInv'
<1>1. UNCHANGED <<refCount, created, connected, session, onClose, linked, owned, shutting, dropping, at>>
  BY DEF TunerAsks, TunerStep, TunerInstalls, TunerDone, StartExit, ExitStep, StopReturns,
         StopTimesOut, connVars, readerVars
<1> QED BY <1>1, LifeKept DEF LifeInv

LEMMA LifeStart == Init => LifeInv
<1> SUFFICES ASSUME Init PROVE LifeInv
  OBVIOUS
<1>1. IsFiniteSet(linked)
  BY FS_EmptySet DEF Init
<1> QED BY <1>1, Names, ThreadFacts DEF Init, LifeInv

LEMMA LifeStep == TypeOK /\ LifeInv /\ WatchInv /\ [Next]_vars => LifeInv'
<1> SUFFICES ASSUME TypeOK, LifeInv, WatchInv, [Next]_vars PROVE LifeInv'
  OBVIOUS
<1>1. CASE UNCHANGED vars
  BY <1>1, LifeKept DEF vars, connVars, readerVars, appVars, LifeInv
<1>2. CASE Next
  BY <1>2, ShutdownLife, OwnerLife, TaskLife, CloseLife, PopLife, RoundLife, VisitLife,
     AcceptLife, ServerLife, TunerLife DEF Next, ReaderStep
<1> QED BY <1>1, <1>2

-----------------------------------------------------------------------------
(* What the reader watches *)

\* An item that is not a connection does not change which are queued.
LEMMA PushOther ==
    ASSUME TypeOK, OneSlot, NEW item \in Items, item.type \notin {"connection", "listener"}, Push(item)
    PROVE  OneSlot' /\ \A d \in Conns : InQueue(d)' <=> InQueue(d)
<1>1. /\ Len(queue) \in Nat /\ Len(queue') = Len(queue) + 1
      /\ \A k \in 1 .. Len(queue) : queue'[k] = queue[k]
      /\ queue'[Len(queue) + 1] = item
  BY PushSlots DEF TypeOK
<1>2. \A d \in Conns : \A k \in 1 .. Len(queue') : Slot(k, d)' <=> k \in 1 .. Len(queue) /\ Slot(k, d)
  BY <1>1 DEF Slot
<1> QED BY <1>1, <1>2 DEF OneSlot, InQueue

LEMMA PushConnection ==
    ASSUME TypeOK, OneSlot, NEW c \in Conns, Push(Item("connection", c)), ~InQueue(c)
    PROVE  OneSlot' /\ \A d \in Conns : InQueue(d)' <=> InQueue(d) \/ d = c
<1>1. Item("connection", c) \in Items
  BY DEF Item, Items
<1>2. /\ Len(queue) \in Nat /\ Len(queue') = Len(queue) + 1
      /\ \A k \in 1 .. Len(queue) : queue'[k] = queue[k]
      /\ queue'[Len(queue) + 1] = Item("connection", c)
  BY <1>1, PushSlots DEF TypeOK
<1>3. \A d \in Conns : \A k \in 1 .. Len(queue') :
          Slot(k, d)' <=> (k \in 1 .. Len(queue) /\ Slot(k, d)) \/ (k = Len(queue) + 1 /\ d = c)
  BY <1>2 DEF Slot, Item
<1> QED BY <1>2, <1>3 DEF OneSlot, InQueue

\* The first item of the queue, when it is taken and registered: another item, or a
\* connection that comes to the list or is dead and released.
LEMMA Registered ==
    ASSUME TypeOK, WatchInv, queue # <<>>, queue' = Tail(queue), RegisterWatch(Head(queue))
    PROVE  /\ OneSlot'
           /\ \/ /\ \A d \in Conns : InQueue(d)' <=> InQueue(d)
                 /\ conList' = conList /\ refCount' = refCount
              \/ \E c \in Conns :
                    /\ InQueue(c) /\ \A d \in Conns : InQueue(d)' <=> InQueue(d) /\ d # c
                    /\ \/ conList' = conList \cup {c} /\ refCount' = refCount
                       \/ ~Ok(c) /\ conList' = conList /\ Unref(c)
<1> DEFINE item == Head(queue)
<1>1. /\ Len(queue) \in Nat \ {0} /\ Len(queue') = Len(queue) - 1
      /\ item = queue[1] /\ item \in Items
      /\ \A k \in 1 .. Len(queue) - 1 : queue'[k] = queue[k + 1]
  BY PopSlots DEF TypeOK
<1>2. \A d \in Conns : \A k \in 1 .. Len(queue') : Slot(k, d)' <=> Slot(k + 1, d)
  BY <1>1 DEF Slot
<1>3. OneSlot'
  BY <1>1, <1>2 DEF OneSlot, WatchInv, Watched
<1>4. \A d \in Conns : InQueue(d)' <=> InQueue(d) /\ ~Slot(1, d)
  <2> SUFFICES ASSUME NEW d \in Conns PROVE InQueue(d)' <=> InQueue(d) /\ ~Slot(1, d)
    OBVIOUS
  <2>1. ASSUME InQueue(d)' PROVE InQueue(d) /\ ~Slot(1, d)
    <3>1. PICK k \in 1 .. Len(queue') : Slot(k, d)'
      BY <2>1 DEF InQueue
    <3>2. k + 1 \in 1 .. Len(queue) /\ Slot(k + 1, d) /\ k + 1 # 1 /\ 1 \in 1 .. Len(queue)
      BY <1>1, <1>2, <3>1
    <3> QED BY <3>2 DEF InQueue, OneSlot, WatchInv, Watched
  <2>2. ASSUME InQueue(d), ~Slot(1, d) PROVE InQueue(d)'
    <3>1. PICK k \in 1 .. Len(queue) : Slot(k, d)
      BY <2>2 DEF InQueue
    <3>2. k - 1 \in 1 .. Len(queue') /\ Slot(k - 1, d)'
      BY <1>1, <1>2, <2>2, <3>1
    <3> QED BY <3>2 DEF InQueue
  <2> QED BY <2>1, <2>2
<1>5. CASE item.type \notin {"connection", "listener"}
  <2>1. \A d \in Conns : ~Slot(1, d)
    BY <1>1, <1>5 DEF Slot
  <2> QED BY <1>3, <1>4, <1>5, <2>1 DEF RegisterWatch, Dead
<1>6. CASE item.type \in {"connection", "listener"}
  <2>1. item.conn \in Conns /\ \A d \in Conns : Slot(1, d) <=> d = item.conn
    BY <1>1, <1>6 DEF Items, Slot
  <2>2. InQueue(item.conn)
    BY <1>1, <2>1 DEF InQueue
  <2>3. \/ conList' = conList \cup {item.conn} /\ refCount' = refCount
        \/ ~Ok(item.conn) /\ conList' = conList /\ Unref(item.conn)
    BY <1>6 DEF RegisterWatch, Dead
  <2> QED BY <1>3, <1>4, <2>1, <2>2, <2>3
<1> QED BY <1>5, <1>6

\* What is left to show of a step that leaves list and connections of the queue alone.
LEMMA WatchedKept ==
    ASSUME Watched, OneSlot', \A d \in Conns : InQueue(d)' <=> InQueue(d), conList' = conList,
           created \subseteq created',
           \A d \in Conns : connected'[d] => connected[d] \/ d \in Initiators,
           \A d \in Initiators : at'[Owner(d)] = "greeted" => at[Owner(d)] = "greeted" \/ d \notin created
    PROVE  Watched'
BY Names DEF Watched

LEMMA QueueSame == OneSlot /\ UNCHANGED queue => OneSlot' /\ \A d \in Conns : InQueue(d)' <=> InQueue(d)
BY DEF OneSlot, InQueue, Slot

\* The same when nothing of the reader changes.
LEMMA WatchKept ==
    ASSUME WatchInv, UNCHANGED <<queue, conList, readerAt, left>>, fdSet' \subseteq fdSet,
           created \subseteq created',
           \A d \in Conns : connected'[d] => connected[d] \/ d \in Initiators,
           \A d \in Initiators : at'[Owner(d)] = "greeted" => at[Owner(d)] = "greeted" \/ d \notin created
    PROVE  WatchInv'
<1>1. Watched'
  BY QueueSame, WatchedKept DEF WatchInv, Watched
<1>2. Rounded'
  BY DEF WatchInv, Rounded
<1> QED BY <1>1, <1>2 DEF WatchInv

\* A thread that goes to a place other than "greeted" keeps what WatchInv says of places.
LEMMA OnwardWatch ==
    ASSUME TypeOK, NEW t \in Threads, NEW place, place # "greeted", at' = [at EXCEPT ![t] = place]
    PROVE  \A d \in Initiators : at'[Owner(d)] = "greeted" => at[Owner(d)] = "greeted"
<1>1. \A u \in Threads : at'[u] = IF u = t THEN place ELSE at[u]
  BY DEF TypeOK
<1> QED BY <1>1, ThreadFacts

\* A shutdown connects nobody.
LEMMA BeginWatch ==
    ASSUME TypeOK, NEW c \in Conns, NEW t \in Threads \cup {Reader, Server},
           BeginShutdown(t, c) \/ UNCHANGED <<refCount, connected, shutting, shutBy>>
    PROVE  \A d \in Conns : connected'[d] => connected[d]
BY BeginFacts

LEMMA ShutdownWatch ==
    ASSUME TypeOK, WatchInv, NEW c \in Conns, Shutdowns(c) \/ OnCloseNotified(c)
    PROVE  WatchInv'
<1>1. UNCHANGED <<queue, conList, readerAt, left, fdSet, created, connected, at>>
  BY DEF Shutdowns, InvokeOnClose, CloseSocket, EndShutdown, OnCloseNotified, readerVars
<1> QED BY <1>1, WatchKept

LEMMA OwnerWatch ==
    ASSUME TypeOK, LifeInv, WatchInv, NEW c \in Initiators,
           NewConnection(c) \/ WatchConnection(c) \/ Block(c) \/ BlockReturns(c)
    PROVE  WatchInv'
<1>t. /\ at \in [Threads -> Places] /\ connected \in [Conns -> BOOLEAN]
      /\ c \in Conns /\ Owner(c) \in Threads
  BY Names, ThreadFacts DEF TypeOK
<1>1. CASE NewConnection(c)
  <2>1. PICK greeted \in BOOLEAN :
          /\ connected' = [connected EXCEPT ![c] = greeted]
          /\ at' = [at EXCEPT ![Owner(c)] = IF greeted THEN "greeted" ELSE "open"]
    BY <1>1 DEF NewConnection
  <2>2. c \notin created
    BY <1>1 DEF NewConnection, LifeInv
  <2>3. \A u \in Threads : u # Owner(c) => at'[u] = at[u]
    BY <1>t, <2>1
  <2>4. \A d \in Conns : d # c => connected'[d] = connected[d]
    BY <1>t, <2>1
  <2> QED BY <1>1, <2>2, <2>3, <2>4, ThreadFacts, WatchKept DEF NewConnection, readerVars
<1>2. CASE WatchConnection(c)
  <2>1. ~InQueue(c) /\ c \notin conList /\ c \in created
    BY <1>2 DEF WatchConnection, WatchInv, Watched, LifeInv
  <2>2. OneSlot' /\ \A d \in Conns : InQueue(d)' <=> InQueue(d) \/ d = c
    BY <1>2, <1>t, <2>1, PushConnection DEF WatchConnection, WatchInv, Watched
  <2>3. \A u \in Threads : at'[u] = IF u = Owner(c) THEN "open" ELSE at[u]
    BY <1>2, <1>t DEF WatchConnection
  <2>4. UNCHANGED <<created, connected, conList, readerAt, left, fdSet>>
    BY <1>2 DEF WatchConnection
  <2>5. Watched'
    BY <2>1, <2>2, <2>3, <2>4, ThreadFacts, Names DEF WatchInv, Watched
  <2> QED BY <2>4, <2>5 DEF WatchInv, Rounded
<1>3. CASE Block(c)
  <2>1. OneSlot' /\ \A d \in Conns : InQueue(d)' <=> InQueue(d)
    BY <1>3, PushOther DEF Block, WatchInv, Watched, Item, Items
  <2>2. \A d \in Initiators : at'[Owner(d)] = "greeted" => at[Owner(d)] = "greeted"
    BY <1>3, <1>t, OnwardWatch DEF Block
  <2>3. UNCHANGED <<created, connected, conList, readerAt, left, fdSet>>
    BY <1>3 DEF Block
  <2>4. Watched'
    BY <2>1, <2>2, <2>3, WatchedKept DEF WatchInv
  <2> QED BY <2>3, <2>4 DEF WatchInv, Rounded
<1>4. CASE BlockReturns(c)
  <2>1. \A d \in Initiators : at'[Owner(d)] = "greeted" => at[Owner(d)] = "greeted"
    BY <1>4, <1>t, OnwardWatch DEF BlockReturns
  <2> QED BY <1>4, <2>1, WatchKept DEF BlockReturns, connVars, readerVars
<1> QED BY <1>1, <1>2, <1>3, <1>4

LEMMA TaskWatch ==
    ASSUME TypeOK, WatchInv, NEW c \in Peers, TaskShutdown(c) \/ TaskEnds(c)
    PROVE  WatchInv'
<1>1. c \in Conns /\ Task(c) \in Threads
  BY Names, ThreadFacts
<1>2. PICK place \in {"closed", "ended"} : at' = [at EXCEPT ![Task(c)] = place]
  BY DEF TaskShutdown, TaskEnds
<1>3. \A d \in Initiators : at'[Owner(d)] = "greeted" => at[Owner(d)] = "greeted"
  BY <1>1, <1>2, OnwardWatch
<1>4. \A d \in Conns : connected'[d] => connected[d]
  BY <1>1, BeginWatch DEF TaskShutdown, TaskEnds
<1>5. UNCHANGED <<queue, conList, readerAt, left, fdSet, created>>
  BY DEF TaskShutdown, TaskEnds, readerVars
<1> QED BY <1>3, <1>4, <1>5, WatchKept

LEMMA CloseWatch ==
    ASSUME TypeOK, WatchInv, NEW t \in Threads, CloseCall(t) \/ CloseDeclined(t) \/ CloseGoesOn(t)
    PROVE  WatchInv'
<1>1. ThreadConn(t) \in Conns
  BY ThreadFacts
<1>2. PICK place \in Places \ {"greeted"} : at' = [at EXCEPT ![t] = place]
  BY DEF CloseCall, CloseDeclined, CloseGoesOn, CloseRef, CloseAgreed, ReadCount, CloseUnref,
         CloseRelease, GoesOn, Places
<1>3. \A d \in Initiators : at'[Owner(d)] = "greeted" => at[Owner(d)] = "greeted"
  BY <1>2, OnwardWatch
<1>4. BeginShutdown(t, ThreadConn(t)) \/ connected' = connected
  BY DEF CloseCall, CloseDeclined, CloseGoesOn, CloseRef, CloseAgreed, ReadCount, CloseUnref,
         CloseRelease, connVars
<1>5. \A d \in Conns : connected'[d] => connected[d]
  BY <1>1, <1>4, BeginWatch
<1>6. UNCHANGED <<queue, conList, readerAt, left, fdSet, created>>
  BY DEF CloseCall, CloseDeclined, CloseGoesOn, CloseRef, CloseAgreed, ReadCount, CloseUnref,
         CloseRelease, connVars, readerVars
<1> QED BY <1>3, <1>5, <1>6, WatchKept

\* A pop: an item is registered, and the reader is in none of the places Rounded is about
\* but with all of its list before it.
LEMMA PopWatch ==
    ASSUME TypeOK, LifeInv, WatchInv, queue # <<>>, queue' = Tail(queue),
           RegisterWatch(Head(queue)), UNCHANGED <<created, connected, at>>,
           readerAt' \notin {"build", "wait"}, readerAt' = "foreach" => left' \subseteq conList'
    PROVE  WatchInv'
<1>1. OneSlot'
  BY Registered
<1>2. \/ /\ \A d \in Conns : InQueue(d)' <=> InQueue(d)
         /\ conList' = conList
      \/ \E c \in Conns :
            /\ InQueue(c) /\ \A d \in Conns : InQueue(d)' <=> InQueue(d) /\ d # c
            /\ conList' = conList \cup {c} \/ (~Ok(c) /\ conList' = conList)
  BY Registered
<1>3. Watched'
  <2>1. CASE (\A d \in Conns : InQueue(d)' <=> InQueue(d)) /\ conList' = conList
    BY <1>1, <2>1, WatchedKept DEF WatchInv
  <2>2. ASSUME NEW c \in Conns, InQueue(c), \A d \in Conns : InQueue(d)' <=> InQueue(d) /\ d # c,
               conList' = conList \cup {c} \/ (~Ok(c) /\ conList' = conList)
        PROVE  Watched'
    <3>1. ~Ok(c) => ~connected[c]
      BY DEF Ok, LifeInv
    <3> QED BY <1>1, <2>2, <3>1, Names DEF WatchInv, Watched
  <2> QED BY <1>2, <2>1, <2>2
<1>4. Rounded'
  BY DEF Rounded
<1> QED BY <1>3, <1>4 DEF WatchInv

\* vortex_reader_foreach_impl starts with the list as it is.
LEMMA HandlePlaces ==
    ASSUME NEW next \in Rounds, queue # <<>>, Handle(Head(queue), next)
    PROVE  /\ queue' = Tail(queue) /\ RegisterWatch(Head(queue)) /\ back' = next
           /\ \/ readerAt' = "foreach" /\ Head(queue).type = "foreach" /\ Head(queue).conn = Server
                 /\ left' = conList \ {Listener} /\ conList' = conList /\ notified' = notified
              \/ /\ readerAt' \in {"change", next} /\ left' = left
                 /\ notified' = notified \cup
                      (IF Head(queue).type = "foreach" /\ Head(queue).conn # Server
                       THEN {Head(queue).conn} ELSE {})
                 /\ ~(Head(queue).type = "foreach" /\ Head(queue).conn = Server)
<1>1. queue' = Tail(queue) /\ RegisterWatch(Head(queue)) /\ back' = next
  BY DEF Handle
<1>2. CASE ChangeMechanism(Head(queue))
  BY <1>1, <1>2 DEF ChangeMechanism
<1>3. CASE Foreach(Head(queue), next)
  BY <1>1, <1>3 DEF Foreach, RegisterWatch, Dead
<1>4. CASE Head(queue).type \notin {"change", "foreach"} /\ readerAt' = next /\ UNCHANGED <<left, notified>>
  BY <1>1, <1>4
<1> QED BY <1>2, <1>3, <1>4 DEF Handle

LEMMA PopsWatch ==
    ASSUME TypeOK, LifeInv, WatchInv,
           PopFirst \/ ReadPending \/ PopPending \/ EndPending \/ PopReady
    PROVE  WatchInv'
<1>1. CASE PopFirst
  <2>1. PICK next \in Rounds : Handle(Head(queue), next)
    BY <1>1 DEF PopFirst, Rounds
  <2>2. queue # <<>> /\ UNCHANGED <<created, connected, at>>
    BY <1>1 DEF PopFirst
  <2> QED BY <2>1, <2>2, HandlePlaces, PopWatch DEF Rounds
<1>2. CASE ReadPending
  <2>1. UNCHANGED <<queue, conList, left, fdSet, created, connected, at>> /\ readerAt' = "pending"
    BY <1>2 DEF ReadPending, connVars, appVars
  <2>2. Watched'
    BY <2>1, QueueSame, WatchedKept DEF WatchInv, Watched
  <2> QED BY <2>1, <2>2 DEF WatchInv, Rounded
<1>3. CASE PopPending
  <2>1. Handle(Head(queue), "pending") /\ "pending" \in Rounds
    BY <1>3 DEF PopPending, Rounds
  <2>2. queue # <<>> /\ UNCHANGED <<created, connected, at>>
    BY <1>3 DEF PopPending
  <2> QED BY <2>1, <2>2, HandlePlaces, PopWatch DEF Rounds
<1>4. CASE EndPending
  <2>1. /\ UNCHANGED <<queue, conList, left, fdSet, created, connected, at>>
        /\ readerAt' \in {"loop", "stopping"}
    BY <1>4 DEF EndPending, connVars, appVars
  <2>2. Watched'
    BY <2>1, QueueSame, WatchedKept DEF WatchInv, Watched
  <2> QED BY <2>1, <2>2 DEF WatchInv, Rounded
<1>5. CASE PopReady
  <2>1. readerAt' \in Rounds
    BY <1>5 DEF PopReady, TypeOK, Rounds
  <2> QED BY <1>5, <2>1, PopWatch DEF PopReady, Rounds
<1> QED BY <1>1, <1>2, <1>3, <1>4, <1>5

LEMMA RoundWatch ==
    ASSUME TypeOK, WatchInv,
           ForeachNotify \/ Loop \/ DropReleased \/ BuildEnds \/ WaitEnds \/ StopEnds
    PROVE  WatchInv'
<1>1. UNCHANGED <<queue, conList, created, connected, at>>
  BY DEF ForeachNotify, Loop, DropReleased, BuildEnds, WaitEnds, StopEnds, connVars, appVars
<1>2. Watched'
  BY <1>1, QueueSame, WatchedKept DEF WatchInv, Watched
<1>3. CASE ForeachNotify
  BY <1>3, <1>2 DEF ForeachNotify, WatchInv, Rounded, TypeOK, Rounds
<1>4. CASE Loop
  BY <1>4, <1>2 DEF Loop, WatchInv, Rounded
<1>5. CASE DropReleased
  BY <1>5, <1>2 DEF DropReleased, WatchInv, Rounded
<1>6. CASE BuildEnds
  BY <1>6, <1>2 DEF BuildEnds, WatchInv, Rounded
<1>7. CASE WaitEnds
  BY <1>7, <1>2 DEF WaitEnds, WatchInv, Rounded
<1>8. CASE StopEnds
  BY <1>8, <1>2 DEF StopEnds, WatchInv, Rounded
<1> QED BY <1>3, <1>4, <1>5, <1>6, <1>7, <1>8

\* A connection taken off the list is not connected any more.
LEMMA DiscardWatch ==
    ASSUME Watched, NEW c \in Conns, queue' = queue, conList' = conList \ {c},
           UNCHANGED <<created, at>>, \A d \in Conns : connected'[d] => connected[d] /\ d # c
    PROVE  Watched'
<1>1. OneSlot' /\ \A d \in Conns : InQueue(d)' <=> InQueue(d)
  BY QueueSame DEF Watched
<1> QED BY <1>1, Names DEF Watched

LEMMA VisitWatch ==
    ASSUME TypeOK, LifeInv, WatchInv, NEW c \in Conns,
           \/ ForeachVisit(c) \/ VisitDead(c) \/ Visit(c) \/ VisitFails(c) \/ StopConnection(c)
           \/ DispatchFrame(c) \/ DispatchBroken(c)
    PROVE  WatchInv'
<1>1. CASE ForeachVisit(c)
  <2>1. \A d \in Conns : connected'[d] => connected[d]
    BY <1>1, BeginWatch DEF ForeachVisit
  <2>2. UNCHANGED <<queue, conList, created, at, readerAt>> /\ readerAt = "foreach" /\ left' = left \ {c}
    BY <1>1 DEF ForeachVisit
  <2>3. Watched'
    BY <2>1, <2>2, QueueSame, WatchedKept DEF WatchInv, Watched
  <2> QED BY <2>2, <2>3 DEF WatchInv, Rounded
<1>2. CASE VisitDead(c)
  <2>1. ~connected[c]
    BY <1>2 DEF VisitDead, Ok, LifeInv
  <2>2. /\ UNCHANGED <<queue, created, at, readerAt, fdSet, connected>> /\ readerAt = "build"
        /\ conList' = conList \ {c} /\ left' = left \ {c} /\ c \in left
    BY <1>2 DEF VisitDead, Discard
  <2>3. Watched'
    BY <2>1, <2>2, DiscardWatch DEF WatchInv
  <2> QED BY <2>2, <2>3 DEF WatchInv, Rounded
<1>3. CASE Visit(c)
  <2>1. /\ UNCHANGED <<queue, conList, created, at, readerAt, connected>> /\ readerAt = "build"
        /\ left' = left \ {c} /\ c \in left /\ fdSet' \subseteq fdSet \cup {c}
    BY <1>3 DEF Visit, connVars
  <2>2. Watched'
    BY <2>1, QueueSame, WatchedKept DEF WatchInv, Watched
  <2> QED BY <2>1, <2>2 DEF WatchInv, Rounded
<1>4. CASE VisitFails(c)
  <2>1. \A d \in Conns : connected'[d] => connected[d] /\ d # c
    BY <1>4, BeginFacts DEF VisitFails
  <2>2. /\ UNCHANGED <<queue, created, at, readerAt, fdSet>> /\ readerAt = "build"
        /\ conList' = conList \ {c} /\ left' = left \ {c} /\ c \in left
    BY <1>4 DEF VisitFails, Discard
  <2>3. Watched'
    BY <2>1, <2>2, DiscardWatch DEF WatchInv
  <2> QED BY <2>2, <2>3 DEF WatchInv, Rounded
<1>5. CASE StopConnection(c)
  <2>1. \A d \in Conns : connected'[d] => connected[d] /\ d # c
    BY <1>5, BeginFacts DEF StopConnection
  <2>2. UNCHANGED <<queue, created, at, readerAt>> /\ readerAt = "stopping" /\ conList' = conList \ {c}
    BY <1>5 DEF StopConnection, Discard
  <2>3. Watched'
    BY <2>1, <2>2, DiscardWatch DEF WatchInv
  <2> QED BY <2>2, <2>3 DEF WatchInv, Rounded
<1>6. CASE DispatchFrame(c)
  <2>1. Task(c) \in Threads
    BY <1>6, ThreadFacts DEF DispatchFrame
  <2>2. \A d \in Initiators : at'[Owner(d)] = "greeted" => at[Owner(d)] = "greeted"
    BY <1>6, <2>1, OnwardWatch DEF DispatchFrame
  <2> QED BY <1>6, <2>2, WatchKept DEF DispatchFrame
<1>7. CASE DispatchBroken(c)
  <2>1. \A d \in Conns : connected'[d] => connected[d]
    BY <1>7, BeginWatch DEF DispatchBroken
  <2> QED BY <1>7, <2>1, WatchKept DEF DispatchBroken
<1> QED BY <1>1, <1>2, <1>3, <1>4, <1>5, <1>6, <1>7

LEMMA AcceptWatch ==
    ASSUME TypeOK, LifeInv, WatchInv, NEW c \in Conns, Accept(c)
    PROVE  WatchInv'
<1>1. c \in Accepted \ created /\ c \notin Initiators /\ created' = created \cup {c}
  BY AcceptFacts, Names
<1>2. UNCHANGED <<conList, at, readerAt, left>> /\ fdSet' \subseteq fdSet
  BY DEF Accept
<1>3. ~InQueue(c) /\ c \notin conList
  BY <1>1 DEF WatchInv, Watched
<1>4. \/ /\ \A d \in Conns : connected'[d] = (connected[d] \/ d = c)
         /\ Push(Item("connection", c))
      \/ connected' = connected /\ queue' = queue
  BY AcceptKinds
<1>5. CASE connected' = connected /\ queue' = queue
  BY <1>1, <1>2, <1>5, WatchKept
<1>6. CASE /\ \A d \in Conns : connected'[d] = (connected[d] \/ d = c)
           /\ Push(Item("connection", c))
  <2>1. OneSlot' /\ \A d \in Conns : InQueue(d)' <=> InQueue(d) \/ d = c
    BY <1>3, <1>6, PushConnection DEF WatchInv, Watched
  <2>2. Watched'
    BY <1>1, <1>2, <1>3, <1>6, <2>1, Names DEF WatchInv, Watched
  <2> QED BY <1>2, <2>2 DEF WatchInv, Rounded
<1> QED BY <1>4, <1>5, <1>6

\* A step of a thread outside the reader that pushes an item or nothing.
LEMMA OtherWatch ==
    ASSUME TypeOK, WatchInv, UNCHANGED <<conList, readerAt, left, fdSet, created, at>>,
           \A d \in Conns : connected'[d] => connected[d],
           queue' = queue \/ \E item \in Items : item.type \notin {"connection", "listener"} /\ Push(item)
    PROVE  WatchInv'
<1>1. OneSlot' /\ \A d \in Conns : InQueue(d)' <=> InQueue(d)
  BY QueueSame, PushOther DEF WatchInv, Watched
<1>2. Watched'
  BY <1>1, WatchedKept DEF WatchInv
<1> QED BY <1>2 DEF WatchInv, Rounded

LEMMA ServerWatch ==
    ASSUME TypeOK, WatchInv, ServerCalls \/ ServerStep
    PROVE  WatchInv'
<1>1. UNCHANGED <<conList, readerAt, left, fdSet, created, at>>
  BY DEF ServerCalls, ServerStep, ServerForeach, ServerShutdown, ServerReturns, connVars, readerVars
<1>2. BeginShutdown(Server, Listener) \/ connected' = connected
  BY DEF ServerCalls, ServerStep, ServerForeach, ServerShutdown, ServerReturns, connVars
<1>3. \A d \in Conns : connected'[d] => connected[d]
  BY <1>2, BeginWatch, Names
<1>4. queue' = queue \/ Push(Item("foreach", Server))
  BY DEF ServerCalls, ServerStep, ServerForeach, ServerShutdown, ServerReturns, readerVars
<1>5. Item("foreach", Server) \in Items /\ Item("foreach", Server).type = "foreach"
  BY DEF Item, Items
<1> QED BY <1>1, <1>3, <1>4, <1>5, OtherWatch

LEMMA TunerWatch ==
    ASSUME TypeOK, WatchInv, TunerAsks \/ TunerStep \/ StartExit \/ ExitStep
    PROVE  WatchInv'
<1> USE DEF TunerAsks, TunerStep, TunerInstalls, TunerDone, StartExit, ExitStep, StopReturns,
            StopTimesOut
<1>1. UNCHANGED <<conList, readerAt, left, fdSet, created, at, connected>>
  BY DEF connVars, readerVars
<1>2. queue' = queue \/ \E type \in {"change", "ready", "terminate"} : Push(Item(type, Nobody))
  BY DEF readerVars
<1>3. \A type \in {"change", "ready", "terminate"} :
          Item(type, Nobody) \in Items /\ Item(type, Nobody).type = type
  BY DEF Item, Items
<1> QED BY <1>1, <1>2, <1>3, OtherWatch

LEMMA WatchStart == Init => WatchInv
<1> SUFFICES ASSUME Init PROVE WatchInv
  OBVIOUS
<1>1. /\ Len(queue) = 1 /\ queue[1] = Item("listener", Listener) /\ created = {Listener}
      /\ conList = {} /\ readerAt = "first"
      /\ \A d \in Conns : connected[d] => d = Listener
  BY DEF Init
<1>2. \A d \in Conns : \A k \in 1 .. Len(queue) : Slot(k, d) <=> d = Listener /\ k = 1
  BY <1>1 DEF Slot, Item
<1>3. \A d \in Conns : InQueue(d) <=> d = Listener
  BY <1>1, <1>2 DEF InQueue
<1>4. \A c \in Initiators : at[Owner(c)] = "none"
  BY ThreadFacts DEF Init
<1>5. Watched
  BY <1>1, <1>2, <1>3, <1>4, Names DEF Watched, OneSlot
<1> QED BY <1>1, <1>5 DEF WatchInv, Rounded

LEMMA WatchStep == TypeOK /\ LifeInv /\ WatchInv /\ [Next]_vars => WatchInv'
<1> SUFFICES ASSUME TypeOK, LifeInv, WatchInv, [Next]_vars PROVE WatchInv'
  OBVIOUS
<1>1. CASE UNCHANGED vars
  BY <1>1, WatchKept DEF vars, connVars, readerVars, appVars
<1>2. CASE Next
  BY <1>2, ShutdownWatch, OwnerWatch, TaskWatch, CloseWatch, PopsWatch, RoundWatch, VisitWatch,
     AcceptWatch, ServerWatch, TunerWatch DEF Next, ReaderStep
<1> QED BY <1>1, <1>2

-----------------------------------------------------------------------------
(* Calls of vortex_connection_close *)

\* What is left to show of a step that is not of a call.
LEMMA CloseKept ==
    ASSUME CloseInv, closeCalled' = closeCalled, owned' = owned, created' \cap Initiators \subseteq created,
           \A u \in Threads : Closing(u)' => Closing(u)
    PROVE  CloseInv'
BY DEF CloseInv

LEMMA CloseSame ==
    ASSUME CloseInv, UNCHANGED <<closeCalled, owned, created, at>>
    PROVE  CloseInv'
BY CloseKept DEF Closing

\* A thread goes to a place outside of the call.
LEMMA OutsideClose ==
    ASSUME TypeOK, CloseInv, UNCHANGED <<closeCalled, owned, created>>, NEW t \in Threads,
           NEW place \in {"open", "blocking", "run", "closed", "ended"},
           at' = [at EXCEPT ![t] = place]
    PROVE  CloseInv'
<1>1. \A u \in Threads : at'[u] = IF u = t THEN place ELSE at[u]
  BY DEF TypeOK
<1>2. \A u \in Threads : Closing(u)' => Closing(u)
  BY <1>1 DEF Closing
<1> QED BY <1>2, CloseKept

LEMMA ApplicationClose ==
    ASSUME TypeOK, LifeInv, CloseInv, NEW c \in Initiators,
           NewConnection(c) \/ WatchConnection(c) \/ Block(c) \/ BlockReturns(c)
    PROVE  CloseInv'
<1>t. c \in Peers /\ c \in Conns /\ Owner(c) \in Threads
  BY Names, ThreadFacts
<1>1. CASE NewConnection(c)
  <2>1. PICK place \in {"greeted", "open"} : at' = [at EXCEPT ![Owner(c)] = place]
    BY <1>1 DEF NewConnection
  <2>2. closeCalled' = closeCalled /\ created' = created \cup {c} /\ owned' = owned \cup {c}
    BY <1>1 DEF NewConnection
  <2>3. \A u \in Threads : at'[u] = IF u = Owner(c) THEN place ELSE at[u]
    BY <2>1, <1>t DEF TypeOK
  <2>4. \A u \in Threads : Closing(u)' => Closing(u)
    BY <2>3 DEF Closing
  <2> QED BY <2>2, <2>4 DEF CloseInv
<1>2. CASE WatchConnection(c)
  BY <1>2, <1>t, OutsideClose DEF WatchConnection
<1>3. CASE Block(c)
  BY <1>3, <1>t, OutsideClose DEF Block
<1>4. CASE BlockReturns(c)
  BY <1>4, <1>t, OutsideClose DEF BlockReturns, connVars
<1> QED BY <1>1, <1>2, <1>3, <1>4

LEMMA TaskClose ==
    ASSUME TypeOK, CloseInv, NEW c \in Peers, TaskShutdown(c) \/ TaskEnds(c)
    PROVE  CloseInv'
<1>1. PICK place \in {"closed", "ended"} : at' = [at EXCEPT ![Task(c)] = place]
  BY DEF TaskShutdown, TaskEnds
<1>2. UNCHANGED <<closeCalled, owned, created>>
  BY DEF TaskShutdown, TaskEnds
<1> QED BY <1>1, <1>2, OutsideClose, ThreadFacts

LEMMA CallsClose ==
    ASSUME TypeOK, LifeInv, CloseInv, NEW t \in Threads,
           CloseCall(t) \/ CloseDeclined(t) \/ CloseGoesOn(t)
    PROVE  CloseInv'
<1> DEFINE c == ThreadConn(t)
<1>t. /\ c \in Conns /\ (c \in Initiators => c \in Conns)
      /\ at \in [Threads -> Places] /\ closeCalled \in [Conns -> BOOLEAN]
      /\ \A u \in Threads : ThreadConn(u) \in Conns
      /\ Initiators \subseteq Conns
  BY ThreadFacts, Names DEF TypeOK
<1>m. ASSUME NEW place, at' = [at EXCEPT ![t] = place]
      PROVE  \A u \in Threads : at'[u] = IF u = t THEN place ELSE at[u]
  BY <1>t, <1>m
<1>1. CASE CloseCall(t)
  <2>1. PICK place \in {"closed", "ref", "release"} :
            at' = [at EXCEPT ![t] = place] /\ (closeCalled[c] => place = "closed")
    BY <1>1 DEF CloseCall
  <2>2. /\ closeCalled' = [closeCalled EXCEPT ![c] = TRUE] /\ UNCHANGED <<owned, created>>
        /\ at[t] # "none"
    BY <1>1, ThreadFacts DEF CloseCall, Working
  <2>3. c \in created
    BY <2>2, SomewhereCreated
  <2>4. \A d \in Conns : closeCalled'[d] = (closeCalled[d] \/ d = c)
    BY <1>t, <2>2
  <2>5. \A u \in Threads : Closing(u)' => (Closing(u) /\ u # t) \/ (u = t /\ ~closeCalled[c])
    BY <1>m, <2>1 DEF Closing
  <2>6. ~closeCalled[c] => \A u \in Threads : Closing(u) => ThreadConn(u) # c
    BY DEF CloseInv
  <2>7. ~closeCalled[c] /\ c \in Initiators => c \in owned
    BY <2>3 DEF CloseInv
  <2>8. \A u \in Threads : Closing(u)' => closeCalled'[ThreadConn(u)]
    BY <1>t, <2>4, <2>5 DEF CloseInv
  <2>9. \A u, v \in Threads : Closing(u)' /\ Closing(v)' /\ ThreadConn(u) = ThreadConn(v) => u = v
    BY <2>5, <2>6 DEF CloseInv
  <2>10. \A u \in Threads : Closing(u)' /\ ThreadConn(u) \in Initiators => ThreadConn(u) \in owned'
    BY <2>2, <2>5, <2>7 DEF CloseInv
  <2>11. \A d \in Initiators \cap created' : ~closeCalled'[d] => d \in owned'
    BY <1>t, <2>2, <2>4 DEF CloseInv
  <2> QED BY <2>8, <2>9, <2>10, <2>11 DEF CloseInv
<1>2. CASE CloseDeclined(t)
  <2>1. PICK place \in {"open", "run"} : at' = [at EXCEPT ![t] = place]
    BY <1>2 DEF CloseDeclined, GoesOn
  <2>2. /\ closeCalled' = [closeCalled EXCEPT ![c] = FALSE] /\ UNCHANGED <<owned, created>>
        /\ Closing(t)
    BY <1>2 DEF CloseDeclined, Closing
  <2>3. \A d \in Conns : closeCalled'[d] = (closeCalled[d] /\ d # c)
    BY <1>t, <2>2
  <2>4. \A u \in Threads : Closing(u)' => Closing(u) /\ u # t /\ ThreadConn(u) # c
    BY <1>m, <2>1, <2>2 DEF Closing, CloseInv
  <2> QED BY <1>t, <2>2, <2>3, <2>4 DEF CloseInv
<1>3. CASE Closing(t) /\ UNCHANGED <<owned, closeCalled, created>> /\
           \E place \in Places : at' = [at EXCEPT ![t] = place]
  <2>1. \A u \in Threads : Closing(u)' => Closing(u)
    BY <1>3, <1>m DEF Closing
  <2> QED BY <1>3, <2>1, CloseKept
<1>4. CASE /\ Closing(t) /\ owned' = owned \ {c} /\ UNCHANGED <<closeCalled, created>>
           /\ at' = [at EXCEPT ![t] = "closed"]
  <2>1. \A u \in Threads : at'[u] = IF u = t THEN "closed" ELSE at[u]
    BY <1>4, <1>m
  <2>2. \A u \in Threads : Closing(u)' => Closing(u) /\ u # t
    BY <2>1 DEF Closing
  <2>3. \A u \in Threads : Closing(u)' => ThreadConn(u) # c
    BY <1>4, <2>2 DEF CloseInv
  <2> QED BY <1>4, <2>2, <2>3 DEF CloseInv
<1>5. CASE CloseRef(t)
  <2>1. Closing(t) /\ UNCHANGED <<closeCalled, created>>
    BY <1>5 DEF CloseRef, Closing
  <2> QED BY <1>5, <2>1, <1>3, <1>4 DEF CloseRef, Places
<1>6. CASE CloseAgreed(t)
  BY <1>6, <1>3 DEF CloseAgreed, Closing, Places
<1>7. CASE ReadCount(t)
  BY <1>7, <1>3 DEF ReadCount, Closing, Places, connVars
<1>8. CASE CloseUnref(t)
  <2>1. \E place \in Places : at' = [at EXCEPT ![t] = place]
    BY <1>8 DEF CloseUnref, Places
  <2> QED BY <1>8, <2>1, <1>3 DEF CloseUnref, Closing
<1>9. CASE CloseRelease(t)
  <2>1. Closing(t) /\ UNCHANGED <<closeCalled, created>> /\ at' = [at EXCEPT ![t] = "closed"]
    BY <1>9 DEF CloseRelease, Closing
  <2>2. owned' = owned \/ owned' = owned \ {c}
    BY <1>9 DEF CloseRelease
  <2> QED BY <2>1, <2>2, <1>3, <1>4 DEF Places
<1> QED BY <1>1, <1>2, <1>5, <1>6, <1>7, <1>8, <1>9 DEF CloseGoesOn

LEMMA ReaderClose ==
    ASSUME TypeOK, CloseInv,
           ReaderStep \/ \E c \in Conns : VisitFails(c) \/ DispatchFrame(c) \/ DispatchBroken(c) \/ Accept(c)
    PROVE  CloseInv'
<1>1. CASE ReaderStep
  BY <1>1, CloseSame
     DEF ReaderStep, PopFirst, ReadPending, PopPending, EndPending, PopReady, ForeachNotify, Loop,
         DropReleased, BuildEnds, WaitEnds, StopEnds, ForeachVisit, VisitDead, Visit, StopConnection,
         connVars, appVars
<1>2. ASSUME NEW c \in Conns, VisitFails(c) \/ DispatchBroken(c) PROVE CloseInv'
  BY <1>2, CloseSame DEF VisitFails, DispatchBroken
<1>3. ASSUME NEW c \in Conns, DispatchFrame(c) PROVE CloseInv'
  <2>1. Task(c) \in Threads
    BY <1>3, ThreadFacts DEF DispatchFrame
  <2> QED BY <1>3, <2>1, OutsideClose DEF DispatchFrame
<1>4. ASSUME NEW c \in Conns, Accept(c) PROVE CloseInv'
  <2>1. closeCalled' = closeCalled /\ owned' = owned /\ at' = at
    BY <1>4 DEF Accept
  <2>2. created' \cap Initiators \subseteq created
    BY <1>4, AcceptFacts, Names
  <2> QED BY <2>1, <2>2, CloseKept DEF Closing
<1> QED BY <1>1, <1>2, <1>3, <1>4

LEMMA OtherClose ==
    ASSUME CloseInv,
           \/ \E c \in Conns : Shutdowns(c) \/ OnCloseNotified(c)
           \/ ServerCalls \/ ServerStep \/ TunerAsks \/ TunerStep \/ StartExit \/ ExitStep
    PROVE  CloseInv'
<1>1. ASSUME NEW c \in Conns, Shutdowns(c) \/ OnCloseNotified(c) PROVE CloseInv'
  BY <1>1, CloseSame DEF Shutdowns, InvokeOnClose, CloseSocket, EndShutdown, OnCloseNotified
<1>2. CASE ServerCalls \/ ServerStep \/ TunerAsks \/ TunerStep \/ StartExit \/ ExitStep
  BY <1>2, CloseSame
     DEF ServerCalls, ServerStep, ServerForeach, ServerShutdown, ServerReturns, TunerAsks, TunerStep,
         TunerInstalls, TunerDone, StartExit, ExitStep, StopReturns, StopTimesOut, connVars
<1> QED BY <1>1, <1>2

LEMMA CloseStart == Init => CloseInv
BY Names DEF Init, CloseInv, Closing

LEMMA CloseStep == TypeOK /\ LifeInv /\ CloseInv /\ [Next]_vars => CloseInv'
<1> SUFFICES ASSUME TypeOK, LifeInv, CloseInv, [Next]_vars PROVE CloseInv'
  OBVIOUS
<1>1. CASE UNCHANGED vars
  BY <1>1, CloseSame DEF vars, connVars, readerVars, appVars
<1>2. CASE Next
  BY <1>2, ApplicationClose, TaskClose, CallsClose, ReaderClose, OtherClose DEF Next
<1> QED BY <1>1, <1>2

-----------------------------------------------------------------------------
(* Threads that wait for a round of the reader *)

\* A push adds what it asks, a pop takes the first question away.
LEMMA PushAsks ==
    ASSUME TypeOK, AskInv, NEW item \in Items, Push(item), NEW c \in Askers,
           ~(item.type = "foreach" /\ item.conn = c) \/ ~Asked(c)
    PROVE  /\ \A j, k \in 1 .. Len(queue') : AskFor(j, c)' /\ AskFor(k, c)' => j = k
           /\ Asked(c)' <=> Asked(c) \/ (item.type = "foreach" /\ item.conn = c)
<1>1. /\ Len(queue) \in Nat /\ Len(queue') = Len(queue) + 1
      /\ \A k \in 1 .. Len(queue) : queue'[k] = queue[k]
      /\ queue'[Len(queue) + 1] = item
  BY PushSlots DEF TypeOK
<1>2. \A k \in 1 .. Len(queue') :
          AskFor(k, c)' <=> \/ k \in 1 .. Len(queue) /\ AskFor(k, c)
                            \/ k = Len(queue) + 1 /\ item.type = "foreach" /\ item.conn = c
  BY <1>1 DEF AskFor
<1> QED BY <1>1, <1>2 DEF Asked, AskInv

LEMMA PopAsks ==
    ASSUME TypeOK, AskInv, queue # <<>>, queue' = Tail(queue), NEW c \in Askers
    PROVE  /\ \A j, k \in 1 .. Len(queue') : AskFor(j, c)' /\ AskFor(k, c)' => j = k
           /\ Asked(c)' => Asked(c) /\ ~AskFor(1, c)
           /\ AskFor(1, c) => Asked(c)
<1>1. /\ Len(queue) \in Nat \ {0} /\ Len(queue') = Len(queue) - 1
      /\ \A k \in 1 .. Len(queue) - 1 : queue'[k] = queue[k + 1]
  BY PopSlots DEF TypeOK
<1>2. \A k \in 1 .. Len(queue') : AskFor(k, c)' <=> AskFor(k + 1, c)
  BY <1>1 DEF AskFor
<1>3. \A j, k \in 1 .. Len(queue') : AskFor(j, c)' /\ AskFor(k, c)' => j = k
  BY <1>1, <1>2 DEF AskInv
<1>4. ASSUME Asked(c)' PROVE Asked(c) /\ ~AskFor(1, c)
  <2>1. PICK k \in 1 .. Len(queue') : AskFor(k, c)'
    BY <1>4 DEF Asked
  <2>2. k + 1 \in 1 .. Len(queue) /\ AskFor(k + 1, c) /\ k + 1 # 1 /\ 1 \in 1 .. Len(queue)
    BY <1>1, <1>2, <2>1
  <2> QED BY <2>2 DEF Asked, AskInv
<1>5. AskFor(1, c) => Asked(c)
  BY <1>1 DEF Asked
<1> QED BY <1>3, <1>4, <1>5

\* What is left to show of a step that asks nothing.
LEMMA AskKept ==
    ASSUME TypeOK, AskInv, queue' = queue, notified' \subseteq notified,
           readerAt' = "foreach" => readerAt = "foreach",
           \A c \in Askers : Waits(c) => Waits(c)' \/ (c \in notified /\ c \notin notified')
    PROVE  AskInv'
<1>1. \A c \in Askers : \A k : AskFor(k, c)' <=> AskFor(k, c)
  BY DEF AskFor
<1>2. \A c \in Askers : Asked(c)' <=> Asked(c)
  BY <1>1 DEF Asked
<1>3. notified \subseteq Askers /\ Server \in Askers
  BY DEF TypeOK, Askers
<1>4. \A c \in Askers : \A j, k \in 1 .. Len(queue') : AskFor(j, c)' /\ AskFor(k, c)' => j = k
  BY <1>1 DEF AskInv
<1>5. \A c \in Askers : Asked(c)' => Waits(c)' /\ c \notin notified'
  BY <1>2 DEF AskInv
<1>6. \A c \in notified' : Waits(c)'
  BY <1>3 DEF AskInv
<1>7. readerAt' = "foreach" => Waits(Server)' /\ ~Asked(Server)' /\ Server \notin notified'
  BY <1>2, <1>3 DEF AskInv
<1> QED BY <1>4, <1>5, <1>6, <1>7 DEF AskInv

\* The same when nobody stops waiting.
LEMMA StillWait ==
    ASSUME TypeOK, serverAt' = serverAt, NEW t \in Threads, at[t] # "blocking", NEW place,
           at' = [at EXCEPT ![t] = place]
    PROVE  \A c \in Askers : Waits(c) => Waits(c)'
<1>1. \A u \in Threads : at'[u] = IF u = t THEN place ELSE at[u]
  BY DEF TypeOK
<1> QED BY <1>1, ThreadFacts DEF Waits, Askers

\* A push by a thread that asks nothing, or asks and waits.
LEMMA PushKept ==
    ASSUME TypeOK, AskInv, NEW item \in Items, Push(item), notified' = notified, readerAt' = readerAt,
           \A c \in Askers : Waits(c) => Waits(c)',
           \A c \in Askers : item.type = "foreach" /\ item.conn = c => ~Waits(c) /\ Waits(c)'
    PROVE  AskInv'
<1>1. \A c \in Askers : item.type = "foreach" /\ item.conn = c => ~Asked(c) /\ c \notin notified
  BY DEF AskInv
<1>2. \A c \in Askers : /\ \A j, k \in 1 .. Len(queue') : AskFor(j, c)' /\ AskFor(k, c)' => j = k
                        /\ Asked(c)' <=> Asked(c) \/ (item.type = "foreach" /\ item.conn = c)
  BY <1>1, PushAsks
<1>3. notified \subseteq Askers /\ Server \in Askers
  BY DEF TypeOK, Askers
<1> QED BY <1>1, <1>2, <1>3 DEF AskInv

\* A pop that goes to no foreach, or to that of vortex_listener_shutdown.
LEMMA PopKept ==
    ASSUME TypeOK, AskInv, queue # <<>>, queue' = Tail(queue), UNCHANGED <<serverAt, at>>,
           readerAt # "foreach",
           readerAt' = "foreach" => AskFor(1, Server),
           notified' \subseteq Askers,
           \A c \in notified' : c \in notified \/ (AskFor(1, c) /\ ~(readerAt' = "foreach"))
    PROVE  AskInv'
<1>1. \A c \in Askers : /\ \A j, k \in 1 .. Len(queue') : AskFor(j, c)' /\ AskFor(k, c)' => j = k
                        /\ Asked(c)' => Asked(c) /\ ~AskFor(1, c)
                        /\ AskFor(1, c) => Asked(c)
  BY PopAsks
<1>2. \A c \in Askers : Waits(c)' <=> Waits(c)
  BY DEF Waits
<1>3. Server \in Askers
  BY DEF Askers
<1>4. \A c \in Askers : Asked(c) => Waits(c) /\ c \notin notified
  BY DEF AskInv
<1>5. \A c \in Askers : c \in notified => Waits(c)
  BY DEF AskInv
<1>6. \A c \in Askers : Asked(c)' => Waits(c)' /\ c \notin notified'
  BY <1>1, <1>2, <1>4
<1>7. \A c \in notified' : Waits(c)'
  BY <1>1, <1>2, <1>4, <1>5
<1>8. readerAt' = "foreach" => Waits(Server)' /\ ~Asked(Server)' /\ Server \notin notified'
  BY <1>1, <1>2, <1>3, <1>4
<1> QED BY <1>1, <1>6, <1>7, <1>8 DEF AskInv

\* The reader notifies a foreach it has done, and the caller takes the answer.
LEMMA AskShutdown ==
    ASSUME TypeOK, AskInv, NEW c \in Conns, Shutdowns(c) \/ OnCloseNotified(c)
    PROVE  AskInv'
<1>1. UNCHANGED <<queue, notified, readerAt, serverAt, at>>
  BY DEF Shutdowns, InvokeOnClose, CloseSocket, EndShutdown, OnCloseNotified, readerVars
<1> QED BY <1>1, AskKept DEF Waits

LEMMA AskOwner ==
    ASSUME TypeOK, AskInv, NEW c \in Initiators,
           NewConnection(c) \/ WatchConnection(c) \/ Block(c) \/ BlockReturns(c)
    PROVE  AskInv'
<1>t. Owner(c) \in Threads /\ at \in [Threads -> Places] /\ c # Server
  BY Names, ThreadFacts DEF TypeOK
<1>1. CASE NewConnection(c)
  <2>1. PICK place \in {"greeted", "open"} : at' = [at EXCEPT ![Owner(c)] = place]
    BY <1>1 DEF NewConnection
  <2>2. at[Owner(c)] # "blocking" /\ UNCHANGED <<queue, notified, readerAt, serverAt>>
    BY <1>1 DEF NewConnection, readerVars
  <2> QED BY <1>t, <2>1, <2>2, StillWait, AskKept
<1>2. CASE WatchConnection(c)
  <2>1. \A d \in Askers : Waits(d) => Waits(d)'
    BY <1>2, <1>t, StillWait DEF WatchConnection
  <2>2. Item("connection", c) \in Items /\ Item("connection", c).type = "connection"
    BY Names DEF Item, Items
  <2>3. Push(Item("connection", c)) /\ notified' = notified /\ readerAt' = readerAt
    BY <1>2 DEF WatchConnection
  <2> QED BY <2>1, <2>2, <2>3, PushKept
<1>3. CASE Block(c)
  <2>1. /\ at[Owner(c)] = "open" /\ at' = [at EXCEPT ![Owner(c)] = "blocking"]
        /\ Push(Item("foreach", c)) /\ UNCHANGED <<notified, readerAt, serverAt>>
    BY <1>3 DEF Block
  <2>2. \A d \in Askers : Waits(d) => Waits(d)'
    BY <1>t, <2>1, StillWait
  <2>3. Item("foreach", c) \in Items /\ Item("foreach", c).conn = c
    BY DEF Item, Items
  <2>4. ~Waits(c) /\ Waits(c)'
    BY <1>t, <2>1 DEF Waits
  <2> QED BY <2>1, <2>2, <2>3, <2>4, PushKept
<1>4. CASE BlockReturns(c)
  <2>1. \A u \in Threads : at'[u] = IF u = Owner(c) THEN "open" ELSE at[u]
    BY <1>4, <1>t DEF BlockReturns
  <2>2. \A d \in Askers : d # c => (Waits(d)' <=> Waits(d))
    BY <1>4, <2>1, ThreadFacts DEF BlockReturns, Waits, Askers
  <2>3. c \in notified /\ notified' = notified \ {c} /\ queue' = queue /\ readerAt' = readerAt
    BY <1>4 DEF BlockReturns, readerVars
  <2> QED BY <2>2, <2>3, AskKept
<1> QED BY <1>1, <1>2, <1>3, <1>4

LEMMA AskTask ==
    ASSUME TypeOK, AskInv, NEW c \in Peers, TaskShutdown(c) \/ TaskEnds(c)
    PROVE  AskInv'
<1>1. PICK place \in {"closed", "ended"} : at' = [at EXCEPT ![Task(c)] = place]
  BY DEF TaskShutdown, TaskEnds
<1>2. UNCHANGED <<queue, notified, readerAt, serverAt>> /\ at[Task(c)] # "blocking"
  BY DEF TaskShutdown, TaskEnds, readerVars
<1> QED BY <1>1, <1>2, ThreadFacts, StillWait, AskKept

LEMMA AskClose ==
    ASSUME TypeOK, AskInv, NEW t \in Threads, CloseCall(t) \/ CloseDeclined(t) \/ CloseGoesOn(t)
    PROVE  AskInv'
<1>1. PICK place \in Places : at' = [at EXCEPT ![t] = place]
  BY DEF CloseCall, CloseDeclined, CloseGoesOn, CloseRef, CloseAgreed, ReadCount, CloseUnref,
         CloseRelease, GoesOn, Places
<1>2. UNCHANGED <<queue, notified, readerAt, serverAt>>
  BY DEF CloseCall, CloseDeclined, CloseGoesOn, CloseRef, CloseAgreed, ReadCount, CloseUnref,
         CloseRelease, connVars, readerVars
<1>3. at[t] # "blocking"
  BY DEF CloseCall, CloseDeclined, CloseGoesOn, CloseRef, CloseAgreed, ReadCount, CloseUnref,
         CloseRelease, Working
<1> QED BY <1>1, <1>2, <1>3, StillWait, AskKept

\* A round of vortex_reader_read_queue or vortex_reader_read_pending.
LEMMA HandleAsk ==
    ASSUME TypeOK, AskInv, NEW next \in Rounds, queue # <<>>, Handle(Head(queue), next),
           UNCHANGED <<serverAt, at>>, readerAt # "foreach"
    PROVE  AskInv'
<1>1. Head(queue) = queue[1] /\ Head(queue) \in Items /\ queue' = Tail(queue)
  BY PopSlots DEF TypeOK, Handle
<1>2. \/ readerAt' = "foreach" /\ AskFor(1, Server) /\ notified' = notified
      \/ readerAt' # "foreach" /\ notified' = notified
      \/ readerAt' # "foreach" /\ AskFor(1, Head(queue).conn) /\ Head(queue).conn # Server
         /\ notified' = notified \cup {Head(queue).conn}
  BY <1>1, HandlePlaces DEF AskFor, Rounds
<1>3. notified \subseteq Askers /\ (AskFor(1, Head(queue).conn) => Head(queue).conn \in Askers)
  BY <1>1 DEF TypeOK, Askers, AskFor, Items
<1> QED BY <1>1, <1>2, <1>3, PopKept

LEMMA AskPops ==
    ASSUME TypeOK, AskInv, PopFirst \/ ReadPending \/ PopPending \/ EndPending \/ PopReady
    PROVE  AskInv'
<1>1. CASE PopFirst
  <2>1. PICK next \in Rounds : Handle(Head(queue), next)
    BY <1>1 DEF PopFirst, Rounds
  <2> QED BY <1>1, <2>1, HandleAsk DEF PopFirst
<1>2. CASE ReadPending
  BY <1>2, AskKept DEF ReadPending, appVars, Waits
<1>3. CASE PopPending
  <2>1. "pending" \in Rounds
    BY DEF Rounds
  <2> QED BY <1>3, <2>1, HandleAsk DEF PopPending
<1>4. CASE EndPending
  BY <1>4, AskKept DEF EndPending, appVars, Waits
<1>5. CASE PopReady
  <2>1. readerAt' # "foreach" /\ notified' = notified /\ notified \subseteq Askers
    BY <1>5 DEF PopReady, TypeOK, Rounds, Askers
  <2> QED BY <1>5, <2>1, PopKept DEF PopReady
<1> QED BY <1>1, <1>2, <1>3, <1>4, <1>5

LEMMA AskRound ==
    ASSUME TypeOK, AskInv, ForeachNotify \/ Loop \/ DropReleased \/ BuildEnds \/ WaitEnds \/ StopEnds
    PROVE  AskInv'
<1>1. CASE ForeachNotify
  <2>1. /\ notified' = notified \cup {Server} /\ readerAt = "foreach" /\ readerAt' # "foreach"
        /\ UNCHANGED <<queue, serverAt, at>>
    BY <1>1 DEF ForeachNotify, TypeOK, Rounds
  <2>2. \A c \in Askers : \A k : AskFor(k, c)' <=> AskFor(k, c)
    BY <2>1 DEF AskFor
  <2>3. \A c \in Askers : (Asked(c)' <=> Asked(c)) /\ (Waits(c)' <=> Waits(c))
    BY <2>1, <2>2 DEF Asked, Waits
  <2>4. notified \subseteq Askers /\ Server \in Askers
    BY DEF TypeOK, Askers
  <2> QED BY <2>1, <2>2, <2>3, <2>4 DEF AskInv
<1>2. CASE Loop \/ DropReleased \/ BuildEnds \/ WaitEnds \/ StopEnds
  <2>1. UNCHANGED <<queue, notified, serverAt, at>> /\ (readerAt' = "foreach" => readerAt = "foreach")
    BY <1>2 DEF Loop, DropReleased, BuildEnds, WaitEnds, StopEnds, connVars, appVars
  <2> QED BY <2>1, AskKept DEF Waits
<1> QED BY <1>1, <1>2

LEMMA AskVisit ==
    ASSUME TypeOK, AskInv, NEW c \in Conns,
           \/ ForeachVisit(c) \/ VisitDead(c) \/ Visit(c) \/ VisitFails(c) \/ StopConnection(c)
           \/ DispatchFrame(c) \/ DispatchBroken(c) \/ Accept(c)
    PROVE  AskInv'
<1>1. CASE ForeachVisit(c) \/ VisitDead(c) \/ Visit(c) \/ VisitFails(c) \/ StopConnection(c) \/ DispatchBroken(c)
  <2>1. UNCHANGED <<queue, notified, serverAt, at, readerAt>>
    BY <1>1 DEF ForeachVisit, VisitDead, Visit, VisitFails, StopConnection, DispatchBroken, connVars
  <2> QED BY <2>1, AskKept DEF Waits
<1>2. CASE DispatchFrame(c)
  <2>1. Task(c) \in Threads /\ at[Task(c)] # "blocking"
    BY <1>2, ThreadFacts DEF DispatchFrame
  <2> QED BY <1>2, <2>1, StillWait, AskKept DEF DispatchFrame
<1>3. CASE Accept(c)
  <2>1. UNCHANGED <<notified, serverAt, at, readerAt>> /\ c \in Accepted
    BY <1>3 DEF Accept
  <2>2. CASE queue' = queue
    BY <2>1, <2>2, AskKept DEF Waits
  <2>3. CASE Push(Item("connection", c))
    <3>1. Item("connection", c) \in Items /\ Item("connection", c).type = "connection"
      BY DEF Item, Items
    <3> QED BY <2>1, <2>3, <3>1, PushKept DEF Waits
  <2> QED BY <1>3, <2>2, <2>3, AcceptKinds
<1> QED BY <1>1, <1>2, <1>3

LEMMA AskServer ==
    ASSUME TypeOK, AskInv, ServerCalls \/ ServerStep
    PROVE  AskInv'
<1>1. CASE ServerCalls \/ ServerReturns
  <2>1. UNCHANGED <<queue, notified, readerAt, at>> /\ serverAt # "waiting"
    BY <1>1 DEF ServerCalls, ServerReturns, readerVars
  <2> QED BY <2>1, AskKept DEF Waits
<1>2. CASE ServerForeach
  <2>1. /\ serverAt = "foreach" /\ serverAt' = "waiting" /\ Push(Item("foreach", Server))
        /\ UNCHANGED <<notified, readerAt, at>>
    BY <1>2 DEF ServerForeach
  <2>2. Item("foreach", Server) \in Items /\ Item("foreach", Server).conn = Server
    BY DEF Item, Items
  <2> QED BY <2>1, <2>2, PushKept DEF Waits
<1>3. CASE ServerShutdown
  <2>1. Server \in notified /\ notified' = notified \ {Server} /\ UNCHANGED <<queue, readerAt, at>>
    BY <1>3 DEF ServerShutdown, readerVars
  <2> QED BY <2>1, AskKept DEF Waits
<1> QED BY <1>1, <1>2, <1>3 DEF ServerStep

LEMMA AskTuner ==
    ASSUME TypeOK, AskInv, TunerAsks \/ TunerStep \/ StartExit \/ ExitStep
    PROVE  AskInv'
<1> USE DEF TunerAsks, TunerStep, TunerInstalls, TunerDone, StartExit, ExitStep, StopReturns, StopTimesOut
<1>1. UNCHANGED <<notified, readerAt, serverAt, at>>
  BY DEF readerVars
<1>2. queue' = queue \/ \E type \in {"change", "ready", "terminate"} : Push(Item(type, Nobody))
  BY DEF readerVars
<1>3. CASE queue' = queue
  BY <1>1, <1>3, AskKept DEF Waits
<1>4. ASSUME NEW type \in {"change", "ready", "terminate"}, Push(Item(type, Nobody)) PROVE AskInv'
  <2>1. Item(type, Nobody) \in Items /\ Item(type, Nobody).type = type
    BY DEF Item, Items
  <2> HIDE DEF TunerAsks, TunerStep, TunerInstalls, TunerDone, StartExit, ExitStep, StopReturns, StopTimesOut
  <2> QED BY <1>1, <1>4, <2>1, PushKept DEF Waits
<1> QED BY <1>2, <1>3, <1>4

LEMMA AskStart == Init => AskInv
<1> SUFFICES ASSUME Init PROVE AskInv
  OBVIOUS
<1>1. Len(queue) = 1 /\ queue[1].type = "listener" /\ notified = {} /\ readerAt = "first"
  BY DEF Init, Item
<1>2. \A c \in Askers : ~Asked(c) /\ ~AskFor(1, c)
  BY <1>1 DEF Asked, AskFor
<1> QED BY <1>1, <1>2 DEF AskInv

LEMMA AskStep == TypeOK /\ AskInv /\ [Next]_vars => AskInv'
<1> SUFFICES ASSUME TypeOK, AskInv, [Next]_vars PROVE AskInv'
  OBVIOUS
<1>1. CASE UNCHANGED vars
  BY <1>1, AskKept DEF vars, readerVars, appVars, Waits
<1>2. CASE Next
  BY <1>2, AskShutdown, AskOwner, AskTask, AskClose, AskPops, AskRound, AskVisit, AskServer,
     AskTuner DEF Next, ReaderStep
<1> QED BY <1>1, <1>2

-----------------------------------------------------------------------------
(* vortex_listener_shutdown takes the connections of the listener *)

\* An irregularity is never forgotten.
LEMMA IrregularGrows == TypeOK /\ [Next]_vars => irregular \subseteq irregular'
<1> SUFFICES ASSUME TypeOK, [Next]_vars PROVE irregular \subseteq irregular'
  OBVIOUS
<1>1. CASE UNCHANGED vars
  BY <1>1 DEF vars, appVars
<1>2. ASSUME NEW c \in Conns, Shutdowns(c) \/ OnCloseNotified(c) PROVE irregular' = irregular
  BY <1>2 DEF Shutdowns, InvokeOnClose, CloseSocket, EndShutdown, OnCloseNotified
<1>3. ASSUME NEW c \in Initiators, NewConnection(c) \/ WatchConnection(c) \/ Block(c) \/ BlockReturns(c)
      PROVE  irregular' = irregular
  BY <1>3 DEF NewConnection, WatchConnection, Block, BlockReturns
<1>4. ASSUME NEW c \in Peers, TaskShutdown(c) \/ TaskEnds(c) PROVE irregular' = irregular
  BY <1>4 DEF TaskShutdown, TaskEnds
<1>5. ASSUME NEW t \in Threads, CloseCall(t) \/ CloseDeclined(t) \/ CloseGoesOn(t)
      PROVE  irregular \subseteq irregular'
  <2>1. CASE CloseRef(t)
    BY <2>1 DEF CloseRef
  <2>2. CASE ~CloseRef(t)
    BY <1>5, <2>2 DEF CloseCall, CloseDeclined, CloseGoesOn, CloseAgreed, ReadCount, CloseUnref, CloseRelease
  <2> QED BY <2>1, <2>2
<1>6. CASE ReaderStep
  <2>1. CASE PopPending
    BY <2>1 DEF PopPending
  <2>2. CASE PopReady
    BY <2>2 DEF PopReady
  <2>3. CASE PopFirst \/ ReadPending \/ EndPending \/ ForeachNotify \/ Loop \/ DropReleased
             \/ BuildEnds \/ WaitEnds \/ StopEnds
    BY <2>3 DEF PopFirst, ReadPending, EndPending, ForeachNotify, Loop, DropReleased, BuildEnds,
                WaitEnds, StopEnds, appVars
  <2>4. ASSUME NEW c \in Conns, ForeachVisit(c) \/ VisitDead(c) \/ Visit(c) \/ StopConnection(c)
        PROVE  irregular' = irregular
    BY <2>4 DEF ForeachVisit, VisitDead, Visit, StopConnection
  <2> QED BY <1>6, <2>1, <2>2, <2>3, <2>4 DEF ReaderStep
<1>7. ASSUME NEW c \in Conns, VisitFails(c) \/ DispatchFrame(c) \/ DispatchBroken(c)
      PROVE  irregular' = irregular
  BY <1>7 DEF VisitFails, DispatchFrame, DispatchBroken
<1>8. ASSUME NEW c \in Conns, Accept(c) PROVE irregular \subseteq irregular'
  BY <1>8 DEF Accept
<1>9. CASE ServerCalls \/ ServerStep \/ TunerAsks \/ TunerStep \/ StartExit \/ ExitStep
  BY <1>9 DEF ServerCalls, ServerStep, ServerForeach, ServerShutdown, ServerReturns, TunerAsks,
              TunerStep, TunerInstalls, TunerDone, StartExit, ExitStep, StopReturns, StopTimesOut
<1> QED BY <1>1, <1>2, <1>3, <1>4, <1>5, <1>6, <1>7, <1>8, <1>9 DEF Next

\* A push leaves what is before a question where it was.
LEMMA VisitQueue ==
    ASSUME TypeOK,
           \/ queue' = queue
           \/ \E item \in Items : Push(item) /\ ~(item.type = "foreach" /\ item.conn = Server)
    PROVE  \A k \in 1 .. Len(queue') : AskFor(k, Server)' =>
              /\ k \in 1 .. Len(queue) /\ AskFor(k, Server)
              /\ \A c \in Conns : \A j \in 1 .. k - 1 : Slot(j, c) => Slot(j, c)'
<1>1. CASE queue' = queue
  BY <1>1 DEF AskFor, Slot
<1>2. ASSUME NEW item \in Items, Push(item), ~(item.type = "foreach" /\ item.conn = Server)
      PROVE  \A k \in 1 .. Len(queue') : AskFor(k, Server)' =>
              /\ k \in 1 .. Len(queue) /\ AskFor(k, Server)
              /\ \A c \in Conns : \A j \in 1 .. k - 1 : Slot(j, c) => Slot(j, c)'
  <2>1. /\ Len(queue) \in Nat /\ Len(queue') = Len(queue) + 1
        /\ \A k \in 1 .. Len(queue) : queue'[k] = queue[k]
        /\ queue'[Len(queue) + 1] = item
    BY <1>2, PushSlots DEF TypeOK
  <2>2. \A k \in 1 .. Len(queue') : AskFor(k, Server)' => k \in 1 .. Len(queue) /\ AskFor(k, Server)
    BY <1>2, <2>1 DEF AskFor
  <2>3. \A c \in Conns : \A j \in 1 .. Len(queue) : Slot(j, c) => Slot(j, c)'
    BY <2>1 DEF Slot
  <2> QED BY <2>1, <2>2, <2>3
<1> QED BY <1>1, <1>2

\* What is left to show of a step that connects nobody and takes nobody off its way.
LEMMA VisitKept ==
    ASSUME TypeOK, VisitInv, irregular \subseteq irregular',
           \/ queue' = queue
           \/ \E item \in Items : Push(item) /\ ~(item.type = "foreach" /\ item.conn = Server),
           linked' \subseteq Conns,
           \A c \in linked' : connected'[c] => c \in linked /\ connected[c],
           \A c \in conList : connected'[c] => c \in conList',
           readerAt' = "foreach" => /\ readerAt = "foreach"
                                    /\ \A c \in left : connected'[c] => c \in left',
           Server \in notified' => Server \in notified,
           serverAt' \in {"unref", "done"} => serverAt \in {"unref", "done"} \/ Server \in notified
    PROVE  VisitInv'
<1> SUFFICES ASSUME "late" \notin irregular PROVE VisitInv'
  BY DEF VisitInv
<1>1. \A k \in 1 .. Len(queue') : AskFor(k, Server)' =>
              /\ k \in 1 .. Len(queue) /\ AskFor(k, Server)
              /\ \A c \in Conns : \A j \in 1 .. k - 1 : Slot(j, c) => Slot(j, c)'
  BY VisitQueue
<1>2. \A k \in 1 .. Len(queue') : AskFor(k, Server)' =>
          \A c \in linked' : connected'[c] => c \in conList' \/ \E j \in 1 .. k - 1 : Slot(j, c)'
  BY <1>1 DEF VisitInv
<1>3. readerAt' = "foreach" => \A c \in linked' : connected'[c] => c \in left'
  BY DEF VisitInv
<1>4. (Server \in notified' => NoneConnected') /\ (serverAt' \in {"unref", "done"} => NoneConnected')
  BY DEF VisitInv, NoneConnected
<1> QED BY <1>2, <1>3, <1>4 DEF VisitInv

LEMMA ApplicationVisit ==
    ASSUME TypeOK, LifeInv, VisitInv,
           \/ \E c \in Conns : Shutdowns(c) \/ OnCloseNotified(c)
           \/ \E c \in Initiators : NewConnection(c) \/ WatchConnection(c) \/ Block(c) \/ BlockReturns(c)
           \/ \E c \in Peers : TaskShutdown(c) \/ TaskEnds(c)
    PROVE  VisitInv'
<1>t. Server \notin Conns /\ linked \subseteq Accepted /\ linked \subseteq Conns /\ Initiators \subseteq Conns
      /\ Initiators \cap Accepted = {}
  BY Names DEF LifeInv, TypeOK
<1>1. ASSUME NEW c \in Conns, Shutdowns(c) \/ OnCloseNotified(c) PROVE VisitInv'
  BY <1>1, <1>t, VisitKept DEF Shutdowns, InvokeOnClose, CloseSocket, EndShutdown, OnCloseNotified, readerVars
<1>2. ASSUME NEW c \in Initiators, NewConnection(c) PROVE VisitInv'
  <2>1. PICK greeted \in BOOLEAN : connected' = [connected EXCEPT ![c] = greeted]
    BY <1>2 DEF NewConnection
  <2>2. \A d \in Conns : d # c => connected'[d] = connected[d]
    BY <2>1 DEF TypeOK
  <2>3. c \notin created /\ c \notin linked
    BY <1>2, <1>t DEF NewConnection, LifeInv
  <2>4. /\ UNCHANGED <<queue, conList, linked, readerAt, left, notified, serverAt, irregular>>
    BY <1>2 DEF NewConnection, readerVars
  <2> QED BY <1>t, <2>2, <2>3, <2>4, VisitKept
<1>3. ASSUME NEW c \in Initiators, WatchConnection(c) \/ Block(c) PROVE VisitInv'
  <2>1. \E item \in Items : Push(item) /\ ~(item.type = "foreach" /\ item.conn = Server)
    <3>1. CASE WatchConnection(c)
      <4>1. Item("connection", c) \in Items /\ Item("connection", c).type = "connection"
        BY <1>t DEF Item, Items
      <4> QED BY <3>1, <4>1 DEF WatchConnection
    <3>2. CASE Block(c)
      <4>1. Item("foreach", c) \in Items /\ Item("foreach", c).conn = c
        BY DEF Item, Items
      <4> QED BY <1>t, <3>2, <4>1 DEF Block
    <3> QED BY <1>3, <3>1, <3>2
  <2>2. UNCHANGED <<conList, connected, linked, readerAt, left, notified, serverAt, irregular>>
    BY <1>3 DEF WatchConnection, Block
  <2> QED BY <1>t, <2>1, <2>2, VisitKept
<1>4. ASSUME NEW c \in Initiators, BlockReturns(c) PROVE VisitInv'
  BY <1>4, <1>t, VisitKept DEF BlockReturns, connVars, readerVars
<1>5. ASSUME NEW c \in Peers, TaskShutdown(c) \/ TaskEnds(c) PROVE VisitInv'
  <2>1. \A d \in Conns : connected'[d] => connected[d]
    BY <1>5, Names, ThreadFacts, BeginWatch DEF TaskShutdown, TaskEnds
  <2>2. UNCHANGED <<queue, conList, linked, readerAt, left, notified, serverAt, irregular>>
    BY <1>5 DEF TaskShutdown, TaskEnds, readerVars
  <2> QED BY <1>t, <2>1, <2>2, VisitKept
<1> QED BY <1>1, <1>2, <1>3, <1>4, <1>5

LEMMA CloseVisit ==
    ASSUME TypeOK, LifeInv, VisitInv, NEW t \in Threads, CloseCall(t) \/ CloseDeclined(t) \/ CloseGoesOn(t),
           irregular \subseteq irregular'
    PROVE  VisitInv'
<1>1. BeginShutdown(t, ThreadConn(t)) \/ connected' = connected
  BY DEF CloseCall, CloseDeclined, CloseGoesOn, CloseRef, CloseAgreed, ReadCount, CloseUnref,
         CloseRelease, connVars
<1>2. \A d \in Conns : connected'[d] => connected[d]
  BY <1>1, BeginWatch, ThreadFacts
<1>3. UNCHANGED <<queue, conList, linked, readerAt, left, notified, serverAt>>
  BY DEF CloseCall, CloseDeclined, CloseGoesOn, CloseRef, CloseAgreed, ReadCount, CloseUnref,
         CloseRelease, connVars, readerVars
<1> QED BY <1>2, <1>3, VisitKept DEF TypeOK

\* The reader takes an item: what was before a question comes to the list.
LEMMA PopVisit ==
    ASSUME TypeOK, LifeInv, WatchInv, AskInv, VisitInv, irregular \subseteq irregular',
           queue # <<>>, queue' = Tail(queue), RegisterWatch(Head(queue)),
           UNCHANGED <<connected, linked, serverAt>>,
           readerAt' = "foreach" => AskFor(1, Server) /\ left' = conList \ {Listener},
           Server \in notified' => Server \in notified
    PROVE  VisitInv'
<1> SUFFICES ASSUME "late" \notin irregular PROVE VisitInv'
  BY DEF VisitInv
<1>1. /\ Len(queue) \in Nat \ {0} /\ Len(queue') = Len(queue) - 1
      /\ Head(queue) = queue[1] /\ Head(queue) \in Items
      /\ \A k \in 1 .. Len(queue) - 1 : queue'[k] = queue[k + 1]
  BY PopSlots DEF TypeOK
<1>2. \A c \in Conns : connected[c] => Ok(c)
  BY DEF LifeInv, Ok
<1>3. \A c \in Conns : (c \in conList => c \in conList') /\ (Slot(1, c) /\ connected[c] => c \in conList')
  BY <1>1, <1>2 DEF RegisterWatch, Dead, Slot
<1>4. \A k \in 1 .. Len(queue') : AskFor(k, Server)' => k + 1 \in 1 .. Len(queue) /\ AskFor(k + 1, Server)
  BY <1>1 DEF AskFor
<1>5. \A c \in Conns : \A k \in 1 .. Len(queue') : \A j \in 1 .. k :
          j = 1 \/ (j - 1 \in 1 .. k - 1 /\ (Slot(j, c) => Slot(j - 1, c)'))
  BY <1>1 DEF Slot
<1>6. linked \subseteq Conns /\ Listener \notin linked
  BY Names DEF LifeInv, Peers
<1>7. ASSUME NEW k \in 1 .. Len(queue'), AskFor(k, Server)', NEW c \in linked, connected[c]
      PROVE  c \in conList' \/ \E j \in 1 .. k - 1 : Slot(j, c)'
  <2>1. c \in conList \/ \E j \in 1 .. k : Slot(j, c)
    <3>1. c \in conList \/ \E j \in 1 .. (k + 1) - 1 : Slot(j, c)
      BY <1>4, <1>7 DEF VisitInv
    <3> QED BY <3>1, <1>1
  <2>2. CASE c \in conList
    BY <1>3, <1>6, <2>2
  <2>3. ASSUME NEW j \in 1 .. k, Slot(j, c) PROVE c \in conList' \/ \E i \in 1 .. k - 1 : Slot(i, c)'
    BY <1>3, <1>5, <1>6, <1>7, <2>3
  <2> QED BY <2>1, <2>2, <2>3
<1>8. readerAt' = "foreach" => \A c \in linked : connected[c] => c \in left'
  BY <1>1, <1>6 DEF VisitInv
<1>9. (Server \in notified' => NoneConnected') /\ (serverAt' \in {"unref", "done"} => NoneConnected')
  BY DEF VisitInv, NoneConnected
<1> QED BY <1>7, <1>8, <1>9 DEF VisitInv

LEMMA HandleVisit ==
    ASSUME TypeOK, LifeInv, WatchInv, AskInv, VisitInv, irregular \subseteq irregular',
           NEW next \in Rounds, queue # <<>>, Handle(Head(queue), next),
           UNCHANGED <<connected, linked, serverAt>>
    PROVE  VisitInv'
<1>1. Head(queue) = queue[1] /\ Head(queue) \in Items
  BY PopSlots DEF TypeOK, Handle
<1>2. queue' = Tail(queue) /\ RegisterWatch(Head(queue))
  BY DEF Handle
<1>3. readerAt' = "foreach" => AskFor(1, Server) /\ left' = conList \ {Listener}
  BY <1>1, HandlePlaces DEF AskFor, Rounds
<1>4. Server \in notified' => Server \in notified
  BY HandlePlaces
<1> QED BY <1>2, <1>3, <1>4, PopVisit

LEMMA PopsVisit ==
    ASSUME TypeOK, LifeInv, WatchInv, AskInv, VisitInv, irregular \subseteq irregular',
           PopFirst \/ ReadPending \/ PopPending \/ EndPending \/ PopReady
    PROVE  VisitInv'
<1>1. CASE PopFirst
  <2>1. PICK next \in Rounds : Handle(Head(queue), next)
    BY <1>1 DEF PopFirst, Rounds
  <2> QED BY <1>1, <2>1, HandleVisit DEF PopFirst
<1>2. CASE ReadPending \/ EndPending
  <2>1. UNCHANGED <<queue, conList, connected, linked, left, notified, serverAt>> /\ readerAt' # "foreach"
    BY <1>2 DEF ReadPending, EndPending, appVars, connVars
  <2> QED BY <2>1, VisitKept DEF TypeOK
<1>3. CASE PopPending
  <2>1. "pending" \in Rounds
    BY DEF Rounds
  <2> QED BY <1>3, <2>1, HandleVisit DEF PopPending
<1>4. CASE PopReady
  <2>1. readerAt' # "foreach"
    BY <1>4 DEF PopReady, TypeOK, Rounds
  <2> QED BY <1>4, <2>1, PopVisit DEF PopReady
<1> QED BY <1>1, <1>2, <1>3, <1>4

LEMMA RoundVisit ==
    ASSUME TypeOK, VisitInv, irregular \subseteq irregular',
           ForeachNotify \/ Loop \/ DropReleased \/ BuildEnds \/ WaitEnds \/ StopEnds
    PROVE  VisitInv'
<1>1. CASE ForeachNotify
  <2>1. "late" \notin irregular => NoneConnected
    BY <1>1 DEF ForeachNotify, VisitInv, NoneConnected
  <2>2. readerAt' # "foreach" /\ UNCHANGED <<queue, conList, connected, linked, serverAt>>
    BY <1>1 DEF ForeachNotify, TypeOK, Rounds, connVars
  <2>3. \A k, c : (AskFor(k, c)' <=> AskFor(k, c)) /\ (Slot(k, c)' <=> Slot(k, c))
    BY <2>2 DEF AskFor, Slot
  <2> QED BY <2>1, <2>2, <2>3 DEF VisitInv, NoneConnected
<1>2. CASE Loop \/ DropReleased \/ BuildEnds \/ WaitEnds \/ StopEnds
  <2>1. /\ UNCHANGED <<queue, conList, connected, linked, notified, serverAt>>
        /\ readerAt' = "foreach" => readerAt = "foreach" /\ left' = left
    BY <1>2 DEF Loop, DropReleased, BuildEnds, WaitEnds, StopEnds, connVars, appVars
  <2> QED BY <2>1, VisitKept DEF TypeOK
<1> QED BY <1>1, <1>2

LEMMA VisitsVisit ==
    ASSUME TypeOK, LifeInv, VisitInv, NEW c \in Conns, irregular \subseteq irregular',
           \/ ForeachVisit(c) \/ VisitDead(c) \/ Visit(c) \/ VisitFails(c) \/ StopConnection(c)
           \/ DispatchFrame(c) \/ DispatchBroken(c)
    PROVE  VisitInv'
<1>1. CASE ForeachVisit(c)
  <2>1. /\ UNCHANGED <<queue, conList, linked, readerAt, notified, serverAt>> /\ left' = left \ {c}
    BY <1>1 DEF ForeachVisit
  <2>2. \A d \in Conns : connected'[d] => connected[d]
    BY <1>1, BeginWatch DEF ForeachVisit
  <2>3. c \in linked => ~connected'[c]
    <3>1. CASE Ok(c) /\ c \in linked
      BY <1>1, <3>1, BeginFacts DEF ForeachVisit
    <3>2. CASE ~(Ok(c) /\ c \in linked)
      BY <2>2, <3>2 DEF LifeInv, Ok
    <3> QED BY <3>1, <3>2
  <2>4. "late" \notin irregular /\ readerAt' = "foreach" => \A d \in linked : connected'[d] => d \in left'
    BY <2>1, <2>2, <2>3 DEF VisitInv, TypeOK
  <2>5. \A k, d : (AskFor(k, d)' <=> AskFor(k, d)) /\ (Slot(k, d)' <=> Slot(k, d))
    BY <2>1 DEF AskFor, Slot
  <2>6. \A d \in linked : connected'[d] => connected[d]
    BY <2>2 DEF TypeOK
  <2> QED BY <2>1, <2>4, <2>5, <2>6 DEF VisitInv, NoneConnected
<1>2. CASE VisitDead(c) \/ VisitFails(c) \/ StopConnection(c)
  <2>1. ~connected'[c] /\ \A d \in Conns : connected'[d] => connected[d]
    <3>1. CASE VisitDead(c)
      BY <3>1 DEF VisitDead, Ok, LifeInv
    <3>2. CASE VisitFails(c) \/ StopConnection(c)
      BY <3>2, BeginFacts DEF VisitFails, StopConnection
    <3> QED BY <1>2, <3>1, <3>2
  <2>2. /\ UNCHANGED <<queue, linked, notified, serverAt, readerAt>> /\ conList' = conList \ {c}
        /\ readerAt # "foreach"
    BY <1>2 DEF VisitDead, VisitFails, StopConnection, Discard
  <2> QED BY <2>1, <2>2, VisitKept DEF TypeOK
<1>3. CASE Visit(c) \/ DispatchFrame(c) \/ DispatchBroken(c)
  <2>1. \A d \in Conns : connected'[d] => connected[d]
    BY <1>3, BeginWatch DEF Visit, DispatchFrame, DispatchBroken, connVars
  <2>2. UNCHANGED <<queue, conList, linked, notified, serverAt, readerAt>> /\ readerAt # "foreach"
    BY <1>3 DEF Visit, DispatchFrame, DispatchBroken, connVars
  <2> QED BY <2>1, <2>2, VisitKept DEF TypeOK
<1> QED BY <1>1, <1>2, <1>3

\* A connection accepted while vortex_listener_shutdown runs is late, or refused.
LEMMA AcceptVisit ==
    ASSUME TypeOK, LifeInv, AskInv, VisitInv, NEW c \in Conns, Accept(c), irregular \subseteq irregular'
    PROVE  VisitInv'
<1>1. /\ UNCHANGED <<conList, readerAt, left, notified, serverAt>>
      /\ linked' \subseteq linked \cup {c} /\ linked' \subseteq Conns /\ linked \subseteq Conns
      /\ readerAt = "wait"
  BY DEF Accept, Linked, TypeOK
<1>2. CASE connected' = connected /\ queue' = queue
  <2>1. ~connected[c]
    BY AcceptFacts DEF LifeInv
  <2>2. \A d \in linked' : connected'[d] => d \in linked /\ connected[d]
    BY <1>1, <1>2, <2>1
  <2> QED BY <1>1, <1>2, <2>2, VisitKept
<1>3. CASE /\ Push(Item("connection", c))
           /\ irregular' = IF serverAt # "idle" THEN irregular \cup {"late"} ELSE irregular
  <2> SUFFICES ASSUME "late" \notin irregular' PROVE VisitInv'
    BY DEF VisitInv
  <2>1. serverAt = "idle"
    BY <1>3
  <2>2. Server \in Askers /\ ~Waits(Server) /\ ~Asked(Server) /\ Server \notin notified
    BY <2>1 DEF Waits, AskInv, Askers
  <2>3. Item("connection", c) \in Items /\ Item("connection", c).type = "connection"
    BY DEF Item, Items
  <2>4. ~Asked(Server)'
    BY <1>3, <2>2, <2>3, PushAsks
  <2> QED BY <1>1, <2>1, <2>2, <2>4 DEF VisitInv, Asked
<1> QED BY <1>2, <1>3, AcceptKinds

LEMMA ServerVisit ==
    ASSUME TypeOK, LifeInv, WatchInv, AskInv, VisitInv, ServerCalls \/ ServerStep
    PROVE  VisitInv'
<1>t. linked \subseteq Conns /\ linked \subseteq Accepted
  BY DEF TypeOK, LifeInv
<1>1. CASE ServerCalls \/ ServerReturns
  BY <1>1, <1>t, VisitKept DEF ServerCalls, ServerReturns, readerVars
<1>2. CASE ServerForeach
  <2>1. /\ serverAt = "foreach" /\ serverAt' = "waiting" /\ Push(Item("foreach", Server))
        /\ UNCHANGED <<connected, linked, conList, readerAt, left, notified, irregular>>
    BY <1>2 DEF ServerForeach, connVars
  <2>2. Server \in Askers /\ ~Waits(Server) /\ ~Asked(Server) /\ Server \notin notified /\ readerAt # "foreach"
    BY <2>1 DEF Waits, AskInv, Askers
  <2>3. Item("foreach", Server) \in Items
    BY DEF Item, Items
  <2>4. /\ Len(queue) \in Nat /\ Len(queue') = Len(queue) + 1
        /\ \A k \in 1 .. Len(queue) : queue'[k] = queue[k]
    BY <2>1, <2>3, PushSlots DEF TypeOK
  <2>5. \A k \in 1 .. Len(queue') : AskFor(k, Server)' => k - 1 = Len(queue)
    BY <2>2, <2>4 DEF AskFor, Asked
  <2>6. \A c \in Conns : \A j \in 1 .. Len(queue) : Slot(j, c) => Slot(j, c)'
    BY <2>4 DEF Slot
  <2>7. \A c \in linked : connected[c] => c \in conList \/ \E j \in 1 .. Len(queue) : Slot(j, c)
    BY <1>t DEF WatchInv, Watched, InQueue
  <2>8. \A k \in 1 .. Len(queue') : AskFor(k, Server)' =>
            \A c \in linked : connected[c] => c \in conList \/ \E j \in 1 .. k - 1 : Slot(j, c)'
    BY <1>t, <2>5, <2>6, <2>7
  <2> QED BY <2>1, <2>2, <2>8 DEF VisitInv
<1>3. CASE ServerShutdown
  <2>1. Server \in notified /\ UNCHANGED <<queue, linked, conList, readerAt, left, irregular>>
        /\ notified' = notified \ {Server}
    BY <1>3 DEF ServerShutdown, readerVars
  <2>2. \A d \in Conns : connected'[d] => connected[d]
    BY <1>3, BeginWatch, Names DEF ServerShutdown
  <2> QED BY <1>t, <2>1, <2>2, VisitKept
<1> QED BY <1>1, <1>2, <1>3 DEF ServerStep

LEMMA TunerVisit ==
    ASSUME TypeOK, VisitInv, TunerAsks \/ TunerStep \/ StartExit \/ ExitStep
    PROVE  VisitInv'
<1>1. UNCHANGED <<connected, linked, conList, readerAt, left, notified, serverAt, irregular>>
  BY DEF TunerAsks, TunerStep, TunerInstalls, TunerDone, StartExit, ExitStep, StopReturns,
         StopTimesOut, connVars, readerVars
<1>2. queue' = queue \/ \E type \in {"change", "ready", "terminate"} : Push(Item(type, Nobody))
  BY DEF TunerAsks, TunerStep, TunerInstalls, TunerDone, StartExit, ExitStep, StopReturns,
         StopTimesOut, readerVars
<1>3. \A type \in {"change", "ready", "terminate"} :
          Item(type, Nobody) \in Items /\ Item(type, Nobody).type = type
  BY DEF Item, Items
<1> QED BY <1>1, <1>2, <1>3, VisitKept DEF TypeOK

LEMMA VisitStart == Init => VisitInv
<1> SUFFICES ASSUME Init PROVE VisitInv
  OBVIOUS
<1>1. linked = {}
  BY DEF Init
<1> QED BY <1>1 DEF VisitInv, NoneConnected

LEMMA VisitStep ==
    TypeOK /\ LifeInv /\ WatchInv /\ AskInv /\ VisitInv /\ [Next]_vars => VisitInv'
<1> SUFFICES ASSUME TypeOK, LifeInv, WatchInv, AskInv, VisitInv, [Next]_vars PROVE VisitInv'
  OBVIOUS
<1>1. irregular \subseteq irregular'
  BY IrregularGrows
<1>2. CASE UNCHANGED vars
  BY <1>1, <1>2, VisitKept DEF vars, connVars, readerVars, appVars, TypeOK
<1>3. CASE Next
  BY <1>1, <1>3, ApplicationVisit, CloseVisit, PopsVisit, RoundVisit, VisitsVisit, AcceptVisit,
     ServerVisit, TunerVisit DEF Next, ReaderStep
<1> QED BY <1>2, <1>3

-----------------------------------------------------------------------------
(* A blocked connection is not read *)

\* What is left to show of a step that blocks nothing.
LEMMA BlockKept ==
    ASSUME BlockInv, blocked' = blocked,
           readerAt' \in {"build", "wait"} =>
              /\ \A c \in fdSet' : ~blocked[c] \/ (c \in fdSet /\ readerAt \in {"build", "wait"})
              /\ fdSet' \subseteq Conns
              /\ \A c \in Initiators : at[Owner(c)] = "blocking" /\ c \notin notified
                                         => at'[Owner(c)] = "blocking" /\ c \notin notified'
    PROVE  BlockInv'
BY DEF BlockInv

\* A thread that does not wait goes to another place.
LEMMA MoveBlock ==
    ASSUME TypeOK, BlockInv, NEW t \in Threads, at[t] # "blocking", NEW place,
           at' = [at EXCEPT ![t] = place], UNCHANGED <<blocked, readerAt, notified>>, fdSet' \subseteq fdSet
    PROVE  BlockInv'
<1>1. \A u \in Threads : at'[u] = IF u = t THEN place ELSE at[u]
  BY DEF TypeOK
<1>2. fdSet \subseteq Conns
  BY DEF TypeOK
<1> QED BY <1>1, <1>2, ThreadFacts, BlockKept

LEMMA ApplicationBlock ==
    ASSUME TypeOK, AskInv, BlockInv,
           \/ \E c \in Conns : Shutdowns(c) \/ OnCloseNotified(c)
           \/ \E c \in Initiators : NewConnection(c) \/ WatchConnection(c) \/ Block(c) \/ BlockReturns(c)
           \/ \E c \in Peers : TaskShutdown(c) \/ TaskEnds(c)
    PROVE  BlockInv'
<1>t. /\ fdSet \subseteq Conns /\ Server \notin Conns /\ Initiators \subseteq Conns
      /\ blocked \in [Conns -> BOOLEAN] /\ at \in [Threads -> Places]
      /\ \A c \in Initiators : Owner(c) \in Threads
  BY Names, ThreadFacts DEF TypeOK
<1>1. ASSUME NEW c \in Conns, Shutdowns(c) \/ OnCloseNotified(c) PROVE BlockInv'
  BY <1>1, <1>t, BlockKept DEF Shutdowns, InvokeOnClose, CloseSocket, EndShutdown, OnCloseNotified, readerVars
<1>2. ASSUME NEW c \in Initiators, NewConnection(c) PROVE BlockInv'
  <2>1. PICK place \in {"greeted", "open"} : at' = [at EXCEPT ![Owner(c)] = place]
    BY <1>2 DEF NewConnection
  <2> QED BY <1>2, <1>t, <2>1, MoveBlock DEF NewConnection, readerVars
<1>3. ASSUME NEW c \in Initiators, WatchConnection(c) PROVE BlockInv'
  BY <1>3, <1>t, MoveBlock DEF WatchConnection
<1>4. ASSUME NEW c \in Initiators, Block(c) PROVE BlockInv'
  <2>1. /\ at[Owner(c)] = "open" /\ blocked' = [blocked EXCEPT ![c] = ~@]
        /\ UNCHANGED <<readerAt, fdSet, notified>>
    BY <1>4 DEF Block
  <2>2. \A u \in Threads : at'[u] = IF u = Owner(c) THEN "blocking" ELSE at[u]
    BY <1>4, <1>t DEF Block
  <2>3. \A d \in Conns : d # c => blocked'[d] = blocked[d]
    BY <1>t, <2>1
  <2>4. c \notin notified
    BY <1>t, <2>1 DEF AskInv, Waits
  <2>5. at'[Owner(c)] = "blocking"
    BY <1>t, <2>2
  <2>6. \A d \in Conns : blocked'[d] => d \in Initiators
    BY <2>3 DEF BlockInv
  <2>7. \A d \in Initiators : at[Owner(d)] = "blocking" => at'[Owner(d)] = "blocking"
    BY <1>t, <2>2
  <2>8. ASSUME readerAt' \in {"build", "wait"}, NEW d \in fdSet', blocked'[d]
        PROVE  at'[Owner(d)] = "blocking" /\ d \notin notified'
    <3>1. CASE d = c
      BY <2>1, <2>4, <2>5, <3>1
    <3>2. CASE d # c
      <4>1. d \in fdSet /\ d \in Conns /\ blocked[d] /\ readerAt \in {"build", "wait"}
        BY <1>t, <2>1, <2>3, <2>8, <3>2
      <4> QED BY <2>1, <2>7, <4>1 DEF BlockInv
    <3> QED BY <3>1, <3>2
  <2> QED BY <2>6, <2>8 DEF BlockInv
<1>5. ASSUME NEW c \in Initiators, BlockReturns(c) PROVE BlockInv'
  <2>1. /\ c \in notified /\ notified' = notified \ {c}
        /\ UNCHANGED <<blocked, readerAt, fdSet>>
    BY <1>5 DEF BlockReturns, connVars, readerVars
  <2>2. \A u \in Threads : at'[u] = IF u = Owner(c) THEN "open" ELSE at[u]
    BY <1>5, <1>t DEF BlockReturns
  <2>3. \A d \in Initiators : at[Owner(d)] = "blocking" /\ d \notin notified
                                 => at'[Owner(d)] = "blocking" /\ d \notin notified'
    BY <2>1, <2>2, ThreadFacts
  <2> QED BY <1>t, <2>1, <2>3, BlockKept
<1>6. ASSUME NEW c \in Peers, TaskShutdown(c) \/ TaskEnds(c) PROVE BlockInv'
  <2>1. PICK place \in {"closed", "ended"} : at' = [at EXCEPT ![Task(c)] = place]
    BY <1>6 DEF TaskShutdown, TaskEnds
  <2>2. UNCHANGED <<blocked, fdSet, notified, readerAt>> /\ at[Task(c)] # "blocking"
    BY <1>6 DEF TaskShutdown, TaskEnds, readerVars
  <2> QED BY <2>1, <2>2, ThreadFacts, MoveBlock
<1> QED BY <1>1, <1>2, <1>3, <1>4, <1>5, <1>6

LEMMA CloseBlock ==
    ASSUME TypeOK, BlockInv, NEW t \in Threads, CloseCall(t) \/ CloseDeclined(t) \/ CloseGoesOn(t)
    PROVE  BlockInv'
<1>1. PICK place \in Places : at' = [at EXCEPT ![t] = place]
  BY DEF CloseCall, CloseDeclined, CloseGoesOn, CloseRef, CloseAgreed, ReadCount, CloseUnref,
         CloseRelease, GoesOn, Places
<1>2. UNCHANGED <<blocked, fdSet, notified, readerAt>>
  BY DEF CloseCall, CloseDeclined, CloseGoesOn, CloseRef, CloseAgreed, ReadCount, CloseUnref,
         CloseRelease, connVars, readerVars
<1>3. at[t] # "blocking"
  BY DEF CloseCall, CloseDeclined, CloseGoesOn, CloseRef, CloseAgreed, ReadCount, CloseUnref,
         CloseRelease, Working
<1> QED BY <1>1, <1>2, <1>3, MoveBlock

LEMMA ReaderBlock ==
    ASSUME TypeOK, BlockInv, ReaderStep
    PROVE  BlockInv'
<1>1. CASE PopFirst \/ PopPending \/ PopReady \/ ReadPending \/ EndPending \/ ForeachNotify \/ WaitEnds \/ StopEnds
  <2>1. blocked' = blocked
    BY <1>1 DEF PopFirst, PopPending, PopReady, ReadPending, EndPending, ForeachNotify, WaitEnds,
                StopEnds, connVars
  <2>2. readerAt' \notin {"build", "wait"}
    <3>1. CASE PopFirst \/ PopPending
      <4>1. PICK next \in Rounds : queue # <<>> /\ Handle(Head(queue), next)
        BY <3>1 DEF PopFirst, PopPending, Rounds
      <4> QED BY <4>1, HandlePlaces DEF Rounds
    <3>2. CASE PopReady
      BY <3>2 DEF PopReady, TypeOK, Rounds
    <3>3. CASE ReadPending \/ EndPending \/ ForeachNotify \/ WaitEnds \/ StopEnds
      BY <3>3 DEF ReadPending, EndPending, ForeachNotify, WaitEnds, StopEnds, TypeOK, Rounds
    <3> QED BY <1>1, <3>1, <3>2, <3>3
  <2> QED BY <2>1, <2>2 DEF BlockInv
<1>2. CASE Loop
  BY <1>2, BlockKept DEF Loop, connVars, appVars
<1>3. CASE DropReleased
  BY <1>3, BlockKept DEF DropReleased, TypeOK
<1>4. CASE BuildEnds
  BY <1>4, BlockKept DEF BuildEnds, connVars, appVars, TypeOK
<1>5. ASSUME NEW c \in Conns, ForeachVisit(c) \/ VisitDead(c) \/ StopConnection(c) PROVE BlockInv'
  <2>1. UNCHANGED <<blocked, readerAt, fdSet, at, notified>>
    BY <1>5 DEF ForeachVisit, VisitDead, StopConnection
  <2> QED BY <2>1, BlockKept DEF TypeOK
<1>6. ASSUME NEW c \in Conns, Visit(c) PROVE BlockInv'
  <2>1. /\ UNCHANGED <<blocked, readerAt, at, notified>> /\ readerAt = "build"
        /\ \A d \in fdSet' : d \in fdSet \/ (d = c /\ ~blocked[c])
    BY <1>6 DEF Visit, connVars, Watchable
  <2>2. fdSet' \subseteq Conns
    BY <2>1 DEF TypeOK
  <2> QED BY <2>1, <2>2, BlockKept
<1> QED BY <1>1, <1>2, <1>3, <1>4, <1>5, <1>6 DEF ReaderStep

LEMMA OtherBlock ==
    ASSUME TypeOK, BlockInv,
           \/ \E c \in Conns : VisitFails(c) \/ DispatchFrame(c) \/ DispatchBroken(c) \/ Accept(c)
           \/ ServerCalls \/ ServerStep \/ TunerAsks \/ TunerStep \/ StartExit \/ ExitStep
    PROVE  BlockInv'
<1>t. fdSet \subseteq Conns /\ Server \notin Conns /\ Initiators \subseteq Conns
  BY Names DEF TypeOK
<1>1. ASSUME NEW c \in Conns, VisitFails(c) \/ DispatchBroken(c) \/ Accept(c) PROVE BlockInv'
  <2>1. UNCHANGED <<blocked, readerAt, at, notified>> /\ fdSet' \subseteq fdSet
    BY <1>1 DEF VisitFails, DispatchBroken, Accept
  <2> QED BY <1>t, <2>1, BlockKept
<1>2. ASSUME NEW c \in Conns, DispatchFrame(c) PROVE BlockInv'
  <2>1. Task(c) \in Threads /\ at[Task(c)] # "blocking"
    BY <1>2, ThreadFacts DEF DispatchFrame
  <2> QED BY <1>2, <2>1, MoveBlock DEF DispatchFrame
<1>3. CASE ServerCalls \/ ServerStep
  <2>1. /\ UNCHANGED <<blocked, readerAt, at, fdSet>>
        /\ notified' \subseteq notified
    BY <1>3 DEF ServerCalls, ServerStep, ServerForeach, ServerShutdown, ServerReturns, connVars, readerVars
  <2> QED BY <1>t, <2>1, BlockKept
<1>4. CASE TunerAsks \/ TunerStep \/ StartExit \/ ExitStep
  <2>1. UNCHANGED <<blocked, readerAt, at, fdSet, notified>>
    BY <1>4 DEF TunerAsks, TunerStep, TunerInstalls, TunerDone, StartExit, ExitStep, StopReturns,
                StopTimesOut, connVars, readerVars
  <2> QED BY <1>t, <2>1, BlockKept
<1> QED BY <1>1, <1>2, <1>3, <1>4

LEMMA BlockStart == Init => BlockInv
BY DEF Init, BlockInv

LEMMA BlockStep == TypeOK /\ AskInv /\ BlockInv /\ [Next]_vars => BlockInv'
<1> SUFFICES ASSUME TypeOK, AskInv, BlockInv, [Next]_vars PROVE BlockInv'
  OBVIOUS
<1>1. CASE UNCHANGED vars
  BY <1>1, BlockKept DEF vars, connVars, readerVars, appVars, TypeOK
<1>2. CASE Next
  BY <1>2, ApplicationBlock, CloseBlock, ReaderBlock, OtherBlock DEF Next
<1> QED BY <1>1, <1>2

-----------------------------------------------------------------------------
(* References and their holders *)

\* The numbers that are added up.
LEMMA Numbers ==
    ASSUME TypeOK, LifeInv, NEW c \in Conns
    PROVE  /\ ReaderHolds(c) \in Nat /\ AppHolds(c) \in Nat /\ EndHolds(c) \in Nat
           /\ Listening(c) \in Nat /\ Held(c) \in Nat /\ Own(c) \in Int /\ refCount[c] \in Int
           /\ IsFiniteSet(Live) /\ Cardinality(Live) \in Nat
<1>1. IsFiniteSet(Live) /\ Cardinality(Live) \in Nat
  BY FS_Subset, FS_CardinalityType DEF LifeInv, Live
<1>2. ReaderHolds(c) \in Nat /\ EndHolds(c) \in Nat
  BY DEF ReaderHolds, EndHolds, One
<1>3. AppHolds(c) \in Nat
  BY DEF AppHolds, One
<1>4. refCount[c] \in Int /\ Listening(c) \in Nat
  BY <1>1 DEF TypeOK, Listening
<1> QED BY <1>1, <1>2, <1>3, <1>4 DEF Held, Own

\* A connection that somebody holds is alive.
LEMMA HolderAlive ==
    ASSUME TypeOK, LifeInv, Counted, NEW c \in Conns,
           \/ c \in conList \/ dropping = c \/ InQueue(c)
           \/ c \in owned \/ Calling(c) \/ Handled(c) \/ Serving(c)
           \/ shutting[c] # "no" \/ onClose[c] = "running"
    PROVE  refCount[c] > 0
<1>1. ReaderHolds(c) \in Nat /\ AppHolds(c) \in Nat /\ EndHolds(c) \in Nat /\ Listening(c) \in Nat
      /\ refCount[c] \in Int
  BY Numbers
<1>2. CASE c \in conList \/ dropping = c \/ InQueue(c)
  <2>1. ReaderHolds(c) > 0
    BY <1>2 DEF ReaderHolds, One
  <2> QED BY <1>1, <2>1 DEF Counted, Own, Held
<1>3. CASE c \in owned \/ Calling(c) \/ Handled(c) \/ Serving(c)
  <2>1. AppHolds(c) > 0
    BY <1>3 DEF AppHolds, One
  <2> QED BY <1>1, <2>1 DEF Counted, Own, Held
<1>4. CASE shutting[c] # "no" \/ onClose[c] = "running"
  <2>1. EndHolds(c) > 0
    BY <1>4 DEF EndHolds, One
  <2> QED BY <1>1, <2>1 DEF Counted, Own, Held
<1> QED BY <1>2, <1>3, <1>4

\* Using a connection that is alive does no harm.
LEMMA Unharmed ==
    ASSUME crashed = {}, NEW c, refCount[c] > 0, Use(c)
    PROVE  crashed' = {}
BY DEF Use, Alive

\* vortex_connection_ref and _unref by a holder, and a shutdown that begins.
LEMMA SameOwn ==
    ASSUME UNCHANGED <<refCount, linked>>
    PROVE  \A d \in Conns : Own(d)' = Own(d)
BY DEF Own, Listening, Live

LEMMA RefOwn ==
    ASSUME TypeOK, LifeInv, NEW c \in Conns, c \in linked => refCount[c] > 0,
           \A d \in Conns : refCount'[d] = IF d = c THEN refCount[c] + 1 ELSE refCount[d],
           linked' = linked
    PROVE  \A d \in Conns : Own(d)' = Own(d) + One(d = c)
<1>1. \A d \in Conns : refCount[d] \in Int /\ Listening(d) \in Nat
  BY Numbers
<1>2. linked \subseteq Conns
  BY DEF TypeOK
<1>3. Live' = Live
  BY <1>1, <1>2 DEF Live
<1> QED BY <1>1, <1>3 DEF Own, Listening, One

LEMMA UnrefOwn ==
    ASSUME TypeOK, LifeInv, NEW c \in Conns, refCount[c] > 0, Unref(c), linked' = linked
    PROVE  \A d \in Conns : Own(d)' = Own(d) - One(d = c)
<1>1. \A d \in Conns : refCount[d] \in Int /\ Listening(d) \in Nat
  BY Numbers
<1>2. /\ linked \subseteq Conns /\ Listener \notin linked /\ Listener \in Conns
      /\ IsFiniteSet(Live) /\ Cardinality(Live) \in Nat
  BY Names, Numbers DEF TypeOK, LifeInv, Peers
<1>3. \A d \in Conns :
          refCount'[d] = IF d = c THEN refCount[c] - 1
                         ELSE IF d = Listener /\ c \in linked /\ refCount[c] = 1 THEN refCount[d] - 1
                         ELSE refCount[d]
  BY ReleasedFacts DEF Unref, TypeOK, LifeInv
<1>4. CASE c \in linked /\ refCount[c] = 1
  <2>1. Live' = Live \ {c} /\ c \in Live
    BY <1>1, <1>2, <1>3, <1>4 DEF Live
  <2>2. Cardinality(Live \ {c}) = Cardinality(Live) - 1
    BY <1>2, <2>1, FS_RemoveElement
  <2>3. Listening(Listener)' = Listening(Listener) - 1
    BY <2>1, <2>2 DEF Listening
  <2>4. \A d \in Conns : d # Listener => Listening(d)' = 0 /\ Listening(d) = 0
    BY DEF Listening
  <2>5. Own(Listener)' = Own(Listener) - One(Listener = c)
    BY <1>1, <1>2, <1>3, <1>4, <2>3 DEF Own, One
  <2>6. \A d \in Conns : d # Listener => Own(d)' = Own(d) - One(d = c)
    BY <1>1, <1>3, <2>4 DEF Own, One
  <2> QED BY <2>5, <2>6
<1>5. CASE ~(c \in linked /\ refCount[c] = 1)
  <2>1. Live' = Live
    BY <1>1, <1>2, <1>3, <1>5 DEF Live
  <2>2. \A d \in Conns : Listening(d)' = Listening(d)
    BY <2>1 DEF Listening
  <2>3. \A d \in Conns : refCount'[d] = IF d = c THEN refCount[c] - 1 ELSE refCount[d]
    BY <1>3, <1>5
  <2> QED BY <1>1, <2>2, <2>3 DEF Own, One
<1> QED BY <1>4, <1>5

LEMMA BeginOwn ==
    ASSUME TypeOK, LifeInv, NEW c \in Conns, refCount[c] > 0, NEW t \in Threads \cup {Reader, Server},
           BeginShutdown(t, c), UNCHANGED <<linked, onClose>>
    PROVE  /\ \A d \in Conns : Own(d)' - EndHolds(d)' = Own(d) - EndHolds(d)
           /\ \A d \in Conns : EndHolds(d)' \in Nat /\ Own(d)' \in Int
<1>1. \A d \in Conns : Own(d) \in Int /\ EndHolds(d) \in Nat
  BY Numbers
<1>2. CASE connected[c]
  <2>1. shutting[c] = "no"
    BY <1>2 DEF LifeInv
  <2>2. \A d \in Conns :
           /\ shutting'[d] = IF d = c THEN "handlers" ELSE shutting[d]
           /\ refCount'[d] = IF d = c THEN refCount[c] + 1 ELSE refCount[d]
    BY <1>2, BeginFacts
  <2>3. \A d \in Conns : Own(d)' = Own(d) + One(d = c)
    BY <2>2, RefOwn
  <2>4. \A d \in Conns : EndHolds(d)' = EndHolds(d) + One(d = c)
    BY <2>1, <2>2 DEF EndHolds, One
  <2>5. \A d \in Conns : One(d = c) \in Nat
    BY DEF One
  <2> QED BY <1>1, <2>3, <2>4, <2>5
<1>3. CASE ~connected[c]
  <2>1. refCount' = refCount /\ shutting' = shutting
    BY <1>3 DEF BeginShutdown
  <2>2. \A d \in Conns : Own(d)' = Own(d) /\ EndHolds(d)' = EndHolds(d)
    BY <2>1, SameOwn DEF EndHolds
  <2> QED BY <1>1, <2>2
<1> QED BY <1>2, <1>3

\* Holders that stay.
LEMMA ReaderSame ==
    ASSUME UNCHANGED <<queue, conList, dropping>>
    PROVE  \A d \in Conns : ReaderHolds(d)' = ReaderHolds(d)
BY DEF ReaderHolds, InQueue, Slot

LEMMA AppSame ==
    ASSUME UNCHANGED <<owned, at, serverAt>>
    PROVE  \A d \in Conns : AppHolds(d)' = AppHolds(d)
BY DEF AppHolds, Calling, Handled, Serving

LEMMA EndSame ==
    ASSUME UNCHANGED <<shutting, onClose>>
    PROVE  \A d \in Conns : EndHolds(d)' = EndHolds(d)
BY DEF EndHolds

\* A step that moves no reference between the application and the reader.
LEMMA SameCounted ==
    ASSUME TypeOK, LifeInv, Counted,
           \A d \in Conns : ReaderHolds(d)' = ReaderHolds(d) /\ AppHolds(d)' = AppHolds(d),
           \A d \in Conns : Own(d)' - EndHolds(d)' = Own(d) - EndHolds(d),
           \A d \in Conns : EndHolds(d)' \in Nat /\ Own(d)' \in Int
    PROVE  Counted'
<1> SUFFICES ASSUME NEW d \in Conns PROVE Own(d)' = Held(d)'
  BY DEF Counted
<1>1. ReaderHolds(d) \in Nat /\ AppHolds(d) \in Nat /\ EndHolds(d) \in Nat /\ Own(d) \in Int
  BY Numbers
<1>2. Own(d) = Held(d)
  BY DEF Counted
<1> QED BY <1>1, <1>2 DEF Held

\* What a thread that goes to another place holds.
LEMMA CallMoves ==
    ASSUME TypeOK, CloseInv, NEW t \in Threads, NEW place, at' = [at EXCEPT ![t] = place]
    PROVE  /\ at[t] \notin CallPlaces /\ place \notin CallPlaces => \A d \in Conns : Calling(d)' <=> Calling(d)
           /\ Closing(t) =>
                /\ \A d \in Conns : d # ThreadConn(t) => (Calling(d)' <=> Calling(d))
                /\ Calling(ThreadConn(t)) <=> at[t] \in CallPlaces
                /\ Calling(ThreadConn(t))' <=> place \in CallPlaces
           /\ t[2] = "owner" \/ (at[t] \in {"none", "ended"} <=> place \in {"none", "ended"})
                 => \A d \in Conns : Handled(d)' <=> Handled(d)
<1>1. \A u \in Threads : at'[u] = IF u = t THEN place ELSE at[u]
  BY DEF TypeOK
<1>2. ASSUME at[t] \notin CallPlaces, place \notin CallPlaces
      PROVE  \A d \in Conns : Calling(d)' <=> Calling(d)
  BY <1>1, <1>2 DEF Calling
<1>3. ASSUME Closing(t)
      PROVE  /\ \A d \in Conns : d # ThreadConn(t) => (Calling(d)' <=> Calling(d))
             /\ Calling(ThreadConn(t)) <=> at[t] \in CallPlaces
             /\ Calling(ThreadConn(t))' <=> place \in CallPlaces
  <2>1. \A u \in Threads : at[u] \in CallPlaces => Closing(u)
    BY DEF Closing, CallPlaces
  <2>2. \A u \in Threads : at[u] \in CallPlaces /\ ThreadConn(u) = ThreadConn(t) => u = t
    BY <1>3, <2>1 DEF CloseInv
  <2> QED BY <1>1, <2>2 DEF Calling
<1>4. ASSUME t[2] = "owner" \/ (at[t] \in {"none", "ended"} <=> place \in {"none", "ended"})
      PROVE  \A d \in Conns : Handled(d)' <=> Handled(d)
  BY <1>1, <1>4, ThreadFacts DEF Handled
<1> QED BY <1>2, <1>3, <1>4

\* A thread that goes to another place without taking or leaving a reference.
LEMMA MoveApp ==
    ASSUME TypeOK, CloseInv, NEW t \in Threads, NEW place, at' = [at EXCEPT ![t] = place],
           at[t] \in CallPlaces <=> place \in CallPlaces, at[t] \in CallPlaces => Closing(t),
           t[2] = "owner" \/ (at[t] \in {"none", "ended"} <=> place \in {"none", "ended"}),
           UNCHANGED <<owned, serverAt>>
    PROVE  \A d \in Conns : AppHolds(d)' = AppHolds(d)
<1>1. \A d \in Conns : Calling(d)' <=> Calling(d)
  BY CallMoves
<1>2. \A d \in Conns : Handled(d)' <=> Handled(d)
  BY CallMoves
<1>3. \A d \in Conns : One(Calling(d)') = One(Calling(d)) /\ One(Handled(d)') = One(Handled(d))
  BY <1>1, <1>2 DEF One
<1>4. \A d \in Conns : Serving(d)' <=> Serving(d)
  BY DEF Serving
<1> QED BY <1>1, <1>2, <1>4 DEF AppHolds, One

\* The steps of a shutdown and of an on-close handler.
LEMMA ShutdownCount ==
    ASSUME TypeOK, LifeInv, crashed = {}, Counted, NEW c \in Conns, Shutdowns(c) \/ OnCloseNotified(c)
    PROVE  crashed' = {} /\ Counted'
<1>t. /\ shutting \in [Conns -> {"no", "handlers", "socket", "unref"}]
      /\ onClose \in [Conns -> {"none", "installed", "running", "done"}]
      /\ refCount \in [Conns -> Int]
  BY DEF TypeOK
<1>1. refCount[c] > 0
  BY HolderAlive DEF Shutdowns, InvokeOnClose, CloseSocket, EndShutdown, OnCloseNotified
<1>2. crashed' = {}
  BY <1>1, Unharmed DEF Shutdowns, InvokeOnClose, CloseSocket, EndShutdown, OnCloseNotified
<1>3. UNCHANGED <<queue, conList, dropping, owned, at, serverAt, linked>>
  BY DEF Shutdowns, InvokeOnClose, CloseSocket, EndShutdown, OnCloseNotified, readerVars
<1>4. \A d \in Conns : ReaderHolds(d)' = ReaderHolds(d) /\ AppHolds(d)' = AppHolds(d)
  BY <1>3, ReaderSame, AppSame
<1>5. \A d \in Conns : Own(d) \in Int /\ EndHolds(d) \in Nat
  BY Numbers
<1>6. CASE InvokeOnClose(c)
  <2>1. \A d \in Conns : shutting'[d] = "no" <=> shutting[d] = "no"
    BY <1>6, <1>t DEF InvokeOnClose
  <2>2. CASE onClose[c] = "installed" /\ ~Exiting
    <3>1. onClose' = [onClose EXCEPT ![c] = "running"] /\ Ref(c)
      BY <1>6, <2>2 DEF InvokeOnClose
    <3>2. \A d \in Conns : refCount'[d] = IF d = c THEN refCount[c] + 1 ELSE refCount[d]
      BY <1>t, <3>1 DEF Ref
    <3>3. \A d \in Conns : Own(d)' = Own(d) + One(d = c)
      BY <1>1, <1>3, <3>2, RefOwn
    <3>4. \A d \in Conns : onClose'[d] = "running" <=> onClose[d] = "running" \/ d = c
      BY <1>t, <3>1
    <3>5. \A d \in Conns : EndHolds(d)' = EndHolds(d) + One(d = c)
      BY <2>1, <2>2, <3>4 DEF EndHolds, One
    <3>6. \A d \in Conns : One(d = c) \in Nat
      BY DEF One
    <3>7. /\ \A d \in Conns : Own(d)' - EndHolds(d)' = Own(d) - EndHolds(d)
          /\ \A d \in Conns : EndHolds(d)' \in Nat /\ Own(d)' \in Int
      BY <1>5, <3>3, <3>5, <3>6
    <3> QED BY <1>2, <1>4, <3>7, SameCounted
  <2>3. CASE ~(onClose[c] = "installed" /\ ~Exiting)
    <3>1. UNCHANGED <<onClose, refCount>>
      BY <1>6, <2>3 DEF InvokeOnClose
    <3>2. \A d \in Conns : EndHolds(d)' = EndHolds(d) /\ Own(d)' = Own(d)
      BY <1>3, <2>1, <3>1, SameOwn DEF EndHolds, One
    <3> QED BY <1>2, <1>4, <1>5, <3>2, SameCounted
  <2> QED BY <2>2, <2>3
<1>7. CASE CloseSocket(c)
  <2>1. \A d \in Conns : shutting'[d] = "no" <=> shutting[d] = "no"
    BY <1>7, <1>t DEF CloseSocket
  <2>2. \A d \in Conns : EndHolds(d)' = EndHolds(d) /\ Own(d)' = Own(d)
    BY <1>3, <1>7, <2>1, SameOwn DEF EndHolds, One, CloseSocket
  <2> QED BY <1>2, <1>4, <1>5, <2>2, SameCounted
<1>8. CASE EndShutdown(c)
  <2>1. \A d \in Conns : shutting'[d] = "no" <=> shutting[d] = "no" \/ d = c
    BY <1>8, <1>t DEF EndShutdown
  <2>2. shutting[c] # "no" /\ Unref(c) /\ onClose' = onClose
    BY <1>8 DEF EndShutdown
  <2>3. \A d \in Conns : EndHolds(d)' = EndHolds(d) - One(d = c)
    BY <2>1, <2>2 DEF EndHolds, One
  <2>4. \A d \in Conns : Own(d)' = Own(d) - One(d = c)
    BY <1>1, <1>3, <2>2, UnrefOwn
  <2>5. \A d \in Conns : One(d = c) \in Nat /\ EndHolds(d)' \in Nat
    BY DEF One, EndHolds
  <2>6. /\ \A d \in Conns : Own(d)' - EndHolds(d)' = Own(d) - EndHolds(d)
        /\ \A d \in Conns : EndHolds(d)' \in Nat /\ Own(d)' \in Int
    BY <1>5, <2>3, <2>4, <2>5
  <2> QED BY <1>2, <1>4, <2>6, SameCounted
<1>9. CASE OnCloseNotified(c)
  <2>1. \A d \in Conns : onClose'[d] = "running" <=> onClose[d] = "running" /\ d # c
    BY <1>9, <1>t DEF OnCloseNotified
  <2>2. onClose[c] = "running" /\ Unref(c) /\ shutting' = shutting
    BY <1>9 DEF OnCloseNotified
  <2>3. \A d \in Conns : EndHolds(d)' = EndHolds(d) - One(d = c)
    BY <2>1, <2>2 DEF EndHolds, One
  <2>4. \A d \in Conns : Own(d)' = Own(d) - One(d = c)
    BY <1>1, <1>3, <2>2, UnrefOwn
  <2>5. \A d \in Conns : One(d = c) \in Nat /\ EndHolds(d)' \in Nat
    BY DEF One, EndHolds
  <2>6. /\ \A d \in Conns : Own(d)' - EndHolds(d)' = Own(d) - EndHolds(d)
        /\ \A d \in Conns : EndHolds(d)' \in Nat /\ Own(d)' \in Int
    BY <1>5, <2>3, <2>4, <2>5
  <2> QED BY <1>2, <1>4, <2>6, SameCounted
<1> QED BY <1>6, <1>7, <1>8, <1>9 DEF Shutdowns

\* A shutdown that begins, by a holder that stays one.
LEMMA BeginCount ==
    ASSUME TypeOK, LifeInv, crashed = {}, Counted, NEW c \in Conns, refCount[c] > 0,
           NEW t \in Threads \cup {Reader, Server}, BeginShutdown(t, c), Use(c), UNCHANGED <<linked, onClose>>,
           \A d \in Conns : ReaderHolds(d)' = ReaderHolds(d) /\ AppHolds(d)' = AppHolds(d)
    PROVE  crashed' = {} /\ Counted'
BY BeginOwn, SameCounted, Unharmed

\* A step that touches no reference and no holder of one.
LEMMA StillCounted ==
    ASSUME TypeOK, LifeInv, crashed = {}, Counted, UNCHANGED <<refCount, linked, shutting, onClose>>,
           \A d \in Conns : ReaderHolds(d)' = ReaderHolds(d) /\ AppHolds(d)' = AppHolds(d),
           crashed' = crashed \/ \E c \in Conns : Use(c) /\ refCount[c] > 0
    PROVE  crashed' = {} /\ Counted'
<1>1. \A d \in Conns : Own(d)' = Own(d) /\ EndHolds(d)' = EndHolds(d)
  BY SameOwn, EndSame
<1>2. \A d \in Conns : Own(d) \in Int /\ EndHolds(d) \in Nat
  BY Numbers
<1>3. crashed' = {}
  BY Unharmed
<1> QED BY <1>1, <1>2, <1>3, SameCounted

LEMMA OwnerCount ==
    ASSUME TypeOK, LifeInv, WatchInv, CloseInv, crashed = {}, Counted, NEW c \in Initiators,
           NewConnection(c) \/ WatchConnection(c) \/ Block(c) \/ BlockReturns(c)
    PROVE  crashed' = {} /\ Counted'
<1>t. /\ c \in Conns /\ Owner(c) \in Threads /\ Owner(c)[2] = "owner"
      /\ at \in [Threads -> Places] /\ refCount \in [Conns -> Int]
      /\ onClose \in [Conns -> {"none", "installed", "running", "done"}]
      /\ c \notin linked
  BY Names, ThreadFacts DEF TypeOK, LifeInv
<1>n. \A d \in Conns : ReaderHolds(d) \in Nat /\ AppHolds(d) \in Nat /\ EndHolds(d) \in Nat
                       /\ Own(d) \in Int /\ One(d = c) \in Nat
  BY Numbers DEF One
<1>1. CASE NewConnection(c)
  <2>1. PICK greeted \in BOOLEAN :
          /\ at' = [at EXCEPT ![Owner(c)] = IF greeted THEN "greeted" ELSE "open"]
          /\ onClose' = [onClose EXCEPT ![c] = IF greeted THEN "installed" ELSE "none"]
    BY <1>1 DEF NewConnection
  <2>2. PICK place \in {"greeted", "open"} : at' = [at EXCEPT ![Owner(c)] = place]
    BY <2>1
  <2>3. /\ c \notin created /\ owned' = owned \cup {c} /\ crashed' = crashed /\ linked' = linked
        /\ refCount' = [refCount EXCEPT ![c] = 1]
        /\ UNCHANGED <<queue, conList, dropping, shutting, serverAt>>
        /\ at[Owner(c)] = "none"
    BY <1>1 DEF NewConnection, LifeInv, readerVars
  <2>4. refCount[c] = 0 /\ onClose[c] = "none" /\ c \notin owned
    BY <1>t, <2>3 DEF LifeInv
  <2>5. \A d \in Conns : ReaderHolds(d)' = ReaderHolds(d)
    BY <2>3, ReaderSame
  <2>6. \A d \in Conns : onClose'[d] = "running" <=> onClose[d] = "running"
    BY <1>t, <2>1, <2>4
  <2>7. \A d \in Conns : EndHolds(d)' = EndHolds(d)
    BY <2>3, <2>6 DEF EndHolds, One
  <2>8. \A d \in Conns : (Calling(d)' <=> Calling(d)) /\ (Handled(d)' <=> Handled(d))
    BY <1>t, <2>2, <2>3, CallMoves DEF CallPlaces
  <2>9. \A d \in Conns : AppHolds(d)' = AppHolds(d) + One(d = c)
    BY <2>3, <2>4, <2>8 DEF AppHolds, One, Serving
  <2>10. \A d \in Conns : refCount'[d] = IF d = c THEN refCount[c] + 1 ELSE refCount[d]
    BY <1>t, <2>3, <2>4
  <2>11. \A d \in Conns : Own(d)' = Own(d) + One(d = c)
    BY <1>t, <2>3, <2>10, RefOwn
  <2>12. Counted'
    BY <1>n, <2>5, <2>7, <2>9, <2>11 DEF Counted, Held
  <2> QED BY <2>3, <2>12
<1>2. CASE WatchConnection(c)
  <2>1. ~InQueue(c)
    BY <1>2 DEF WatchConnection, WatchInv, Watched
  <2>2. \A d \in Conns : InQueue(d)' <=> InQueue(d) \/ d = c
    BY <1>2, <1>t, <2>1, PushConnection DEF WatchConnection, WatchInv, Watched
  <2>3. \A d \in Conns : ReaderHolds(d)' = ReaderHolds(d) + One(d = c)
    BY <1>2, <2>1, <2>2 DEF WatchConnection, ReaderHolds, One
  <2>4. \A d \in Conns : AppHolds(d)' = AppHolds(d)
    BY <1>2, <1>t, MoveApp DEF WatchConnection, CallPlaces
  <2>5. \A d \in Conns : EndHolds(d)' = EndHolds(d)
    BY <1>2, EndSame DEF WatchConnection
  <2>6. \A d \in Conns : refCount'[d] = IF d = c THEN refCount[c] + 1 ELSE refCount[d]
    BY <1>2, <1>t DEF WatchConnection, Ref
  <2>7. \A d \in Conns : Own(d)' = Own(d) + One(d = c)
    BY <1>2, <1>t, <2>6, RefOwn DEF WatchConnection
  <2>8. Counted'
    BY <1>n, <2>3, <2>4, <2>5, <2>7 DEF Counted, Held
  <2> QED BY <1>2, <2>8 DEF WatchConnection
<1>3. CASE Block(c)
  <2>1. \A d \in Conns : InQueue(d)' <=> InQueue(d)
    BY <1>3, PushOther DEF Block, WatchInv, Watched, Item, Items
  <2>2. \A d \in Conns : ReaderHolds(d)' = ReaderHolds(d)
    BY <1>3, <2>1 DEF Block, ReaderHolds, One
  <2>3. \A d \in Conns : AppHolds(d)' = AppHolds(d)
    BY <1>3, <1>t, MoveApp DEF Block, CallPlaces
  <2> QED BY <1>3, <2>2, <2>3, StillCounted DEF Block
<1>4. CASE BlockReturns(c)
  <2>1. UNCHANGED <<queue, conList, dropping, refCount, linked, shutting, onClose, crashed>>
    BY <1>4 DEF BlockReturns, connVars, readerVars
  <2>2. \A d \in Conns : ReaderHolds(d)' = ReaderHolds(d)
    BY <2>1, ReaderSame
  <2>3. \A d \in Conns : AppHolds(d)' = AppHolds(d)
    BY <1>4, <1>t, MoveApp DEF BlockReturns, CallPlaces, connVars
  <2> QED BY <2>1, <2>2, <2>3, StillCounted
<1> QED BY <1>1, <1>2, <1>3, <1>4

LEMMA TaskCount ==
    ASSUME TypeOK, LifeInv, CloseInv, crashed = {}, Counted, NEW c \in Peers, TaskShutdown(c) \/ TaskEnds(c)
    PROVE  crashed' = {} /\ Counted'
<1>t. c \in Conns /\ Task(c) \in Threads /\ at \in [Threads -> Places] /\ ThreadConn(Task(c)) = c
  BY Names, ThreadFacts DEF TypeOK
<1>1. at[Task(c)] \in {"run", "closed"}
  BY DEF TaskShutdown, TaskEnds
<1>2. Handled(c) /\ refCount[c] > 0
  BY <1>t, <1>1, HolderAlive DEF Handled
<1>3. UNCHANGED <<queue, conList, dropping, owned, serverAt, linked, onClose>> /\ Use(c)
  BY DEF TaskShutdown, TaskEnds, readerVars
<1>4. \A d \in Conns : ReaderHolds(d)' = ReaderHolds(d)
  BY <1>3, ReaderSame
<1>5. CASE TaskShutdown(c)
  <2>1. \A d \in Conns : AppHolds(d)' = AppHolds(d)
    BY <1>5, <1>t, <1>1, <1>3, MoveApp DEF TaskShutdown, CallPlaces
  <2> QED BY <1>5, <1>t, <1>2, <1>3, <1>4, <2>1, BeginCount DEF TaskShutdown
<1>6. CASE TaskEnds(c)
  <2>1. at' = [at EXCEPT ![Task(c)] = "ended"]
    BY <1>6 DEF TaskEnds
  <2>2. \A u \in Threads : at'[u] = IF u = Task(c) THEN "ended" ELSE at[u]
    BY <1>t, <2>1
  <2>3. \A d \in Conns : Calling(d)' <=> Calling(d)
    BY <1>1, <2>2 DEF Calling, CallPlaces
  <2>4. \A d \in Conns : Handled(d)' <=> Handled(d) /\ d # c
    BY <1>t, <1>1, <2>2, ThreadFacts DEF Handled
  <2>5. \A d \in Conns : AppHolds(d)' = AppHolds(d) - One(d = c)
    BY <1>2, <1>3, <2>3, <2>4 DEF AppHolds, One, Serving
  <2>6. \A d \in Conns : EndHolds(d)' = EndHolds(d)
    BY <1>6, EndSame DEF TaskEnds
  <2>7. \A d \in Conns : Own(d)' = Own(d) - One(d = c)
    BY <1>6, <1>t, <1>2, <1>3, UnrefOwn DEF TaskEnds
  <2>8. \A d \in Conns : ReaderHolds(d) \in Nat /\ AppHolds(d) \in Nat /\ EndHolds(d) \in Nat
                         /\ Own(d) \in Int /\ One(d = c) \in Nat
    BY Numbers DEF One
  <2>9. Counted'
    BY <1>4, <2>5, <2>6, <2>7, <2>8 DEF Counted, Held
  <2> QED BY <1>2, <1>3, <2>9, Unharmed
<1> QED BY <1>5, <1>6

\* The steps of vortex_connection_close.
LEMMA CallsCount ==
    ASSUME TypeOK, LifeInv, CloseInv, crashed = {}, Counted, NEW t \in Threads,
           CloseCall(t) \/ CloseDeclined(t) \/ CloseGoesOn(t), "overreleased" \notin irregular'
    PROVE  crashed' = {} /\ Counted'
<1> DEFINE c == ThreadConn(t)
<1>t. /\ c \in Conns /\ c \in Peers /\ t \in Threads \cup {Reader, Server}
      /\ at \in [Threads -> Places] /\ refCount \in [Conns -> Int]
      /\ t[2] = "owner" => t = Owner(c) /\ c \in Initiators
      /\ t[2] # "owner" => t = Task(c)
  BY ThreadFacts DEF TypeOK
<1>n. \A d \in Conns : ReaderHolds(d) \in Nat /\ AppHolds(d) \in Nat /\ EndHolds(d) \in Nat
                       /\ Own(d) \in Int /\ One(d = c) \in Nat
  BY Numbers DEF One
<1>1. UNCHANGED <<queue, conList, dropping, serverAt, linked, onClose>> /\ Use(c)
  BY DEF CloseCall, CloseDeclined, CloseGoesOn, CloseRef, CloseAgreed, ReadCount, CloseUnref,
         CloseRelease, connVars, readerVars
<1>2. \A d \in Conns : ReaderHolds(d)' = ReaderHolds(d)
  BY <1>1, ReaderSame
<1>3. at[t] \notin {"none", "ended"}
  BY DEF CloseCall, CloseDeclined, CloseGoesOn, CloseRef, CloseAgreed, ReadCount, CloseUnref,
         CloseRelease, Working
\* The thread that handles a frame holds a reference, and the creator has that of its own.
<1>4. Closing(t) \/ CloseCall(t)
  BY DEF Closing, CloseDeclined, CloseGoesOn, CloseRef, CloseAgreed, ReadCount, CloseUnref, CloseRelease
<1>5. t[2] # "owner" => Handled(c)
  BY <1>t, <1>3 DEF Handled
<1>6. t[2] = "owner" => c \in owned
  <2>1. CASE Closing(t)
    BY <1>t, <2>1 DEF CloseInv
  <2>2. CASE CloseCall(t)
    <3>1. t[2] = "owner" => c \in created
      BY <1>t, <1>3, SomewhereCreated
    <3> QED BY <1>t, <2>2, <3>1 DEF CloseCall, CloseInv
  <2> QED BY <1>4, <2>1, <2>2
<1>7. refCount[c] > 0
  BY <1>t, <1>5, <1>6, HolderAlive
<1>8. crashed' = {}
  BY <1>1, <1>7, Unharmed
<1>m. ASSUME NEW place \in Places \ {"none", "ended"}, at' = [at EXCEPT ![t] = place]
      PROVE  /\ \A d \in Conns : Handled(d)' <=> Handled(d)
             /\ Closing(t) => /\ \A d \in Conns : d # c => (Calling(d)' <=> Calling(d))
                              /\ Calling(c) <=> at[t] \in CallPlaces
                              /\ Calling(c)' <=> place \in CallPlaces
  <2>1. at[t] \in {"none", "ended"} <=> place \in {"none", "ended"}
    BY <1>3, <1>m
  <2> QED BY <1>m, <2>1, CallMoves
<1>9. CASE CloseCall(t)
  <2>1. PICK place \in {"closed", "ref", "release"} : at' = [at EXCEPT ![t] = place]
    BY <1>9 DEF CloseCall
  <2>2. at[t] \in {"open", "run"} /\ UNCHANGED <<refCount, owned, shutting>>
    BY <1>9 DEF CloseCall, Working
  <2>3. \A d \in Conns : AppHolds(d)' = AppHolds(d)
    BY <1>1, <2>1, <2>2, MoveApp DEF CallPlaces
  <2> QED BY <1>1, <1>2, <1>7, <1>t, <2>2, <2>3, StillCounted
<1>10. CASE CloseRef(t)
  <2>1. at[t] = "ref" /\ Closing(t) /\ at[t] \notin CallPlaces /\ shutting' = shutting
    BY <1>10 DEF CloseRef, Closing, CallPlaces
  <2>2. \A d \in Conns : EndHolds(d)' = EndHolds(d)
    BY <1>1, <2>1, EndSame
  <2>3. CASE Ok(c)
    <3>1. Ref(c) /\ at' = [at EXCEPT ![t] = "channels"] /\ owned' = owned
      BY <1>10, <2>3 DEF CloseRef
    <3>2. \A d \in Conns : (Handled(d)' <=> Handled(d)) /\ (Calling(d)' <=> Calling(d) \/ d = c)
      BY <1>m, <2>1, <3>1 DEF Places, CallPlaces
    <3>3. ~Calling(c)
      BY <1>m, <2>1, <3>1 DEF Places
    <3>4. \A d \in Conns : AppHolds(d)' = AppHolds(d) + One(d = c)
      BY <1>1, <3>1, <3>2, <3>3 DEF AppHolds, One, Serving
    <3>5. \A d \in Conns : refCount'[d] = IF d = c THEN refCount[c] + 1 ELSE refCount[d]
      BY <1>t, <3>1 DEF Ref
    <3>6. \A d \in Conns : Own(d)' = Own(d) + One(d = c)
      BY <1>1, <1>t, <1>7, <3>5, RefOwn
    <3> QED BY <1>n, <1>2, <1>8, <2>2, <3>4, <3>6 DEF Counted, Held
  <2>4. CASE ~Ok(c)
    <3>1. Unref(c) /\ at' = [at EXCEPT ![t] = "closed"] /\ owned' = owned \ {c} /\ c \notin Accepted
      BY <1>10, <2>4 DEF CloseRef
    <3>2. c \in owned
      BY <1>t, <2>1, <3>1 DEF CloseInv, Peers
    <3>3. \A d \in Conns : (Handled(d)' <=> Handled(d)) /\ (Calling(d)' <=> Calling(d))
      <4>1. PICK place \in {"closed"} : at' = [at EXCEPT ![t] = place]
        BY <3>1
      <4>2. place \in Places \ {"none", "ended"} /\ place \notin CallPlaces /\ at[t] \notin CallPlaces
        BY <2>1 DEF Places, CallPlaces
      <4> QED BY <1>m, <2>1, <4>1, <4>2
    <3>4. \A d \in Conns : AppHolds(d)' = AppHolds(d) - One(d = c)
      BY <1>1, <3>1, <3>2, <3>3 DEF AppHolds, One, Serving
    <3>5. \A d \in Conns : Own(d)' = Own(d) - One(d = c)
      BY <1>1, <1>t, <1>7, <3>1, UnrefOwn
    <3> QED BY <1>n, <1>2, <1>8, <2>2, <3>4, <3>5 DEF Counted, Held
  <2> QED BY <2>3, <2>4
<1>11. CASE CloseDeclined(t) \/ CloseUnref(t)
  <2>1. PICK place \in {"open", "run", "closed", "release"} : at' = [at EXCEPT ![t] = place]
    BY <1>11 DEF CloseDeclined, CloseUnref, GoesOn
  <2>2. /\ Closing(t) /\ at[t] \in CallPlaces /\ place \notin CallPlaces
        /\ Unref(c) /\ UNCHANGED <<owned, shutting>>
    BY <1>11 DEF CloseDeclined, CloseUnref, Closing, CallPlaces
  <2>3. /\ \A d \in Conns : (Handled(d)' <=> Handled(d)) /\ (Calling(d)' <=> Calling(d) /\ d # c)
        /\ Calling(c)
    BY <1>m, <2>1, <2>2 DEF Places
  <2>4. \A d \in Conns : AppHolds(d)' = AppHolds(d) - One(d = c)
    BY <1>1, <2>2, <2>3 DEF AppHolds, One, Serving
  <2>5. \A d \in Conns : Own(d)' = Own(d) - One(d = c)
    BY <1>1, <1>t, <1>7, <2>2, UnrefOwn
  <2>6. \A d \in Conns : EndHolds(d)' = EndHolds(d)
    BY <1>1, <2>2, EndSame
  <2> QED BY <1>n, <1>2, <1>8, <2>4, <2>5, <2>6 DEF Counted, Held
<1>12. CASE CloseAgreed(t)
  <2>1. /\ at[t] = "channels" /\ at' = [at EXCEPT ![t] = "count"] /\ owned' = owned
        /\ BeginShutdown(t, c)
    BY <1>12 DEF CloseAgreed
  <2>2. \A d \in Conns : AppHolds(d)' = AppHolds(d)
    BY <1>1, <2>1, MoveApp DEF CallPlaces, Closing
  <2> QED BY <1>t, <1>1, <1>2, <1>7, <2>1, <2>2, BeginCount
<1>13. CASE ReadCount(t)
  <2>1. /\ at[t] = "count" /\ at' = [at EXCEPT ![t] = "drop"]
        /\ UNCHANGED <<owned, refCount, shutting>>
    BY <1>13 DEF ReadCount, connVars
  <2>2. \A d \in Conns : AppHolds(d)' = AppHolds(d)
    BY <1>1, <2>1, MoveApp DEF CallPlaces, Closing
  <2> QED BY <1>t, <1>1, <1>2, <1>7, <2>1, <2>2, StillCounted
<1>14. CASE CloseRelease(t)
  <2>1. at[t] = "release" /\ Closing(t) /\ shutting' = shutting /\ at' = [at EXCEPT ![t] = "closed"]
    BY <1>14 DEF CloseRelease, Closing
  <2>2. CASE c \in Initiators
    <3>1. Unref(c) /\ owned' = owned \ {c} /\ c \in owned
      BY <1>14, <2>1, <2>2 DEF CloseRelease, CloseInv
    <3>2. \A d \in Conns : (Handled(d)' <=> Handled(d)) /\ (Calling(d)' <=> Calling(d))
      <4>1. PICK place \in {"closed"} : at' = [at EXCEPT ![t] = place]
        BY <2>1
      <4>2. place \in Places \ {"none", "ended"} /\ place \notin CallPlaces /\ at[t] \notin CallPlaces
        BY <2>1 DEF Places, CallPlaces
      <4> QED BY <1>m, <2>1, <4>1, <4>2
    <3>3. \A d \in Conns : AppHolds(d)' = AppHolds(d) - One(d = c)
      BY <1>1, <3>1, <3>2 DEF AppHolds, One, Serving
    <3>4. \A d \in Conns : Own(d)' = Own(d) - One(d = c)
      BY <1>1, <1>t, <1>7, <3>1, UnrefOwn
    <3>5. \A d \in Conns : EndHolds(d)' = EndHolds(d)
      BY <1>1, <2>1, EndSame
    <3> QED BY <1>n, <1>2, <1>8, <3>3, <3>4, <3>5 DEF Counted, Held
  <2>3. CASE c \notin Initiators
    <3>1. UNCHANGED <<refCount, owned>>
      BY <1>14, <2>3 DEF CloseRelease
    <3>2. \A d \in Conns : AppHolds(d)' = AppHolds(d)
      BY <1>1, <2>1, <3>1, MoveApp DEF CallPlaces
    <3> QED BY <1>t, <1>1, <1>2, <1>7, <2>1, <3>1, <3>2, StillCounted
  <2> QED BY <2>2, <2>3
<1> QED BY <1>9, <1>10, <1>11, <1>12, <1>13, <1>14 DEF CloseGoesOn

\* The reader takes a connection off its queue.
LEMMA PopCount ==
    ASSUME TypeOK, LifeInv, WatchInv, crashed = {}, Counted,
           queue # <<>>, queue' = Tail(queue), RegisterWatch(Head(queue)),
           UNCHANGED <<owned, linked, shutting, onClose, dropping, at, serverAt, crashed>>
    PROVE  crashed' = {} /\ Counted'
<1>1. \A d \in Conns : AppHolds(d)' = AppHolds(d) /\ EndHolds(d)' = EndHolds(d)
  BY AppSame, EndSame
<1>2. CASE (\A d \in Conns : InQueue(d)' <=> InQueue(d)) /\ conList' = conList /\ refCount' = refCount
  <2>1. \A d \in Conns : ReaderHolds(d)' = ReaderHolds(d)
    BY <1>2 DEF ReaderHolds, One
  <2> QED BY <1>1, <1>2, <2>1, StillCounted
<1>3. ASSUME NEW c \in Conns, InQueue(c), \A d \in Conns : InQueue(d)' <=> InQueue(d) /\ d # c,
             \/ conList' = conList \cup {c} /\ refCount' = refCount
             \/ ~Ok(c) /\ conList' = conList /\ Unref(c)
      PROVE  Counted'
  <2>1. c \notin conList
    BY <1>3 DEF WatchInv, Watched
  <2>2. CASE conList' = conList \cup {c} /\ refCount' = refCount
    <3>1. \A d \in Conns : ReaderHolds(d)' = ReaderHolds(d)
      BY <1>3, <2>1, <2>2 DEF ReaderHolds, One
    <3> QED BY <1>1, <2>2, <3>1, StillCounted
  <2>3. CASE conList' = conList /\ Unref(c)
    <3>1. \A d \in Conns : ReaderHolds(d)' = ReaderHolds(d) - One(d = c)
      BY <1>3, <2>3 DEF ReaderHolds, One
    <3>2. refCount[c] > 0
      BY <1>3, HolderAlive
    <3>3. \A d \in Conns : Own(d)' = Own(d) - One(d = c)
      BY <2>3, <3>2, UnrefOwn
    <3>4. \A d \in Conns : ReaderHolds(d) \in Nat /\ AppHolds(d) \in Nat /\ EndHolds(d) \in Nat
                           /\ Own(d) \in Int /\ One(d = c) \in Nat
      BY Numbers DEF One
    <3> QED BY <1>1, <3>1, <3>3, <3>4 DEF Counted, Held
  <2> QED BY <1>3, <2>2, <2>3
<1> QED BY <1>2, <1>3, Registered

LEMMA RoundCount ==
    ASSUME TypeOK, LifeInv, WatchInv, crashed = {}, Counted,
           \/ PopFirst \/ ReadPending \/ PopPending \/ EndPending \/ PopReady
           \/ ForeachNotify \/ Loop \/ DropReleased \/ BuildEnds \/ WaitEnds \/ StopEnds
    PROVE  crashed' = {} /\ Counted'
<1>1. CASE PopFirst \/ PopPending
  <2>1. queue # <<>> /\ \E next : Handle(Head(queue), next)
    BY <1>1 DEF PopFirst, PopPending
  <2>2. queue' = Tail(queue) /\ RegisterWatch(Head(queue))
    BY <2>1 DEF Handle
  <2>3. UNCHANGED <<owned, linked, shutting, onClose, dropping, at, serverAt, crashed>>
    BY <1>1 DEF PopFirst, PopPending
  <2> QED BY <2>1, <2>2, <2>3, PopCount
<1>2. CASE PopReady
  BY <1>2, PopCount DEF PopReady
<1>3. CASE ReadPending \/ EndPending \/ ForeachNotify \/ Loop \/ BuildEnds \/ WaitEnds \/ StopEnds
  <2>1. UNCHANGED <<refCount, linked, shutting, onClose, queue, conList, dropping, owned, at, serverAt, crashed>>
    BY <1>3 DEF ReadPending, EndPending, ForeachNotify, Loop, BuildEnds, WaitEnds, StopEnds, connVars, appVars
  <2> QED BY <2>1, ReaderSame, AppSame, StillCounted
<1>4. CASE DropReleased
  <2> DEFINE c == dropping
  <2>1. c \in Conns /\ Unref(c) /\ Use(c) /\ dropping' = Nobody /\ Nobody \notin Conns
        /\ UNCHANGED <<queue, conList, owned, at, serverAt, shutting, onClose, linked>>
    BY <1>4, Names DEF DropReleased, TypeOK
  <2>2. refCount[c] > 0
    BY <2>1, HolderAlive
  <2>3. \A d \in Conns : AppHolds(d)' = AppHolds(d) /\ EndHolds(d)' = EndHolds(d)
    BY <2>1, AppSame, EndSame
  <2>4. \A d \in Conns : InQueue(d)' <=> InQueue(d)
    BY <2>1 DEF InQueue, Slot
  <2>5. \A d \in Conns : ReaderHolds(d)' = ReaderHolds(d) - One(d = c)
    BY <2>1, <2>4 DEF ReaderHolds, One
  <2>6. \A d \in Conns : Own(d)' = Own(d) - One(d = c)
    BY <2>1, <2>2, UnrefOwn
  <2>7. \A d \in Conns : ReaderHolds(d) \in Nat /\ AppHolds(d) \in Nat /\ EndHolds(d) \in Nat
                         /\ Own(d) \in Int /\ One(d = c) \in Nat
    BY Numbers DEF One
  <2>8. Counted'
    BY <2>3, <2>5, <2>6, <2>7 DEF Counted, Held
  <2> QED BY <2>1, <2>2, <2>8, Unharmed
<1> QED BY <1>1, <1>2, <1>3, <1>4

\* The connections of the list.
LEMMA VisitCount ==
    ASSUME TypeOK, LifeInv, WatchInv, crashed = {}, Counted, NEW c \in Conns,
           \/ ForeachVisit(c) \/ VisitDead(c) \/ Visit(c) \/ VisitFails(c) \/ StopConnection(c)
           \/ DispatchBroken(c)
    PROVE  crashed' = {} /\ Counted'
<1>1. c \in conList
  BY DEF ForeachVisit, VisitDead, Visit, VisitFails, StopConnection, DispatchBroken, WatchInv, Rounded
<1>2. refCount[c] > 0
  BY <1>1, HolderAlive
<1>3. UNCHANGED <<queue, owned, at, serverAt, linked, onClose>> /\ Use(c)
  BY DEF ForeachVisit, VisitDead, Visit, VisitFails, StopConnection, DispatchBroken, connVars
<1>4. \A d \in Conns : AppHolds(d)' = AppHolds(d)
  BY <1>3, AppSame
<1>5. \A d \in Conns : InQueue(d)' <=> InQueue(d)
  BY <1>3 DEF InQueue, Slot
<1>r. Reader \in Threads \cup {Reader, Server}
  OBVIOUS
<1>6. CASE ForeachVisit(c) \/ DispatchBroken(c)
  <2>1. conList' = conList /\ dropping' = dropping
    BY <1>6 DEF ForeachVisit, DispatchBroken
  <2>2. \A d \in Conns : ReaderHolds(d)' = ReaderHolds(d)
    BY <1>3, <2>1, ReaderSame
  <2>3. CASE BeginShutdown(Reader, c)
    BY <1>2, <1>3, <1>4, <1>r, <2>2, <2>3, BeginCount
  <2>4. CASE UNCHANGED <<refCount, connected, shutting, shutBy>>
    BY <1>2, <1>3, <1>4, <2>2, <2>4, StillCounted
  <2> QED BY <1>6, <2>3, <2>4 DEF ForeachVisit, DispatchBroken
<1>7. CASE Visit(c)
  <2>1. UNCHANGED <<conList, dropping, refCount, shutting>>
    BY <1>7 DEF Visit, connVars
  <2>2. \A d \in Conns : ReaderHolds(d)' = ReaderHolds(d)
    BY <1>3, <2>1, ReaderSame
  <2> QED BY <1>2, <1>3, <1>4, <2>1, <2>2, StillCounted
<1>8. CASE VisitFails(c) \/ StopConnection(c)
  <2>1. conList' = conList \ {c} /\ dropping = Nobody /\ dropping' = c /\ BeginShutdown(Reader, c)
    BY <1>8 DEF VisitFails, StopConnection, Discard, ReaderReady
  <2>2. \A d \in Conns : ReaderHolds(d)' = ReaderHolds(d)
    BY <1>1, <1>5, <2>1, Names DEF ReaderHolds, One
  <2> QED BY <1>2, <1>3, <1>4, <1>r, <2>1, <2>2, BeginCount
<1>9. CASE VisitDead(c)
  <2>1. conList' = conList \ {c} /\ dropping' = dropping /\ Unref(c) /\ shutting' = shutting
    BY <1>9 DEF VisitDead, Discard
  <2>2. \A d \in Conns : ReaderHolds(d)' = ReaderHolds(d) - One(d = c)
    BY <1>1, <1>5, <2>1 DEF ReaderHolds, One
  <2>3. \A d \in Conns : Own(d)' = Own(d) - One(d = c)
    BY <1>2, <1>3, <2>1, UnrefOwn
  <2>4. \A d \in Conns : EndHolds(d)' = EndHolds(d)
    BY <1>3, <2>1, EndSame
  <2>5. \A d \in Conns : ReaderHolds(d) \in Nat /\ AppHolds(d) \in Nat /\ EndHolds(d) \in Nat
                         /\ Own(d) \in Int /\ One(d = c) \in Nat
    BY Numbers DEF One
  <2>6. Counted'
    BY <1>4, <2>2, <2>3, <2>4, <2>5 DEF Counted, Held
  <2> QED BY <1>2, <1>3, <2>6, Unharmed
<1> QED BY <1>6, <1>7, <1>8, <1>9

\* A frame is handed to the pool.
LEMMA DispatchCount ==
    ASSUME TypeOK, LifeInv, WatchInv, crashed = {}, Counted, NEW c \in Conns, DispatchFrame(c)
    PROVE  crashed' = {} /\ Counted'
<1>1. c \in conList /\ c \in Peers
  BY DEF DispatchFrame, WatchInv, Rounded
<1>2. refCount[c] > 0 /\ Task(c) \in Threads
  BY <1>1, HolderAlive, ThreadFacts
<1>3. UNCHANGED <<queue, conList, dropping, owned, serverAt, linked, onClose, shutting>> /\ Use(c)
  BY DEF DispatchFrame
<1>4. \A d \in Conns : ReaderHolds(d)' = ReaderHolds(d) /\ EndHolds(d)' = EndHolds(d)
  BY <1>3, ReaderSame, EndSame
<1>5. \A u \in Threads : at'[u] = IF u = Task(c) THEN "run" ELSE at[u]
  BY <1>2 DEF DispatchFrame, TypeOK
<1>6. at[Task(c)] = "none" /\ ~Handled(c)
  BY DEF DispatchFrame, Handled
<1>7. \A d \in Conns : Handled(d)' <=> Handled(d) \/ d = c
  BY <1>1, <1>5, <1>6, ThreadFacts DEF Handled
<1>8. \A d \in Conns : Calling(d)' <=> Calling(d)
  BY <1>5, <1>6 DEF Calling, CallPlaces
<1>9. \A d \in Conns : AppHolds(d)' = AppHolds(d) + One(d = c)
  BY <1>3, <1>6, <1>7, <1>8 DEF AppHolds, One, Serving
<1>10. \A d \in Conns : refCount'[d] = IF d = c THEN refCount[c] + 1 ELSE refCount[d]
  BY DEF DispatchFrame, Ref, TypeOK
<1>11. \A d \in Conns : Own(d)' = Own(d) + One(d = c)
  BY <1>2, <1>3, <1>10, RefOwn
<1>12. \A d \in Conns : ReaderHolds(d) \in Nat /\ AppHolds(d) \in Nat /\ EndHolds(d) \in Nat
                        /\ Own(d) \in Int /\ One(d = c) \in Nat
  BY Numbers DEF One
<1>13. Counted'
  BY <1>4, <1>9, <1>11, <1>12 DEF Counted, Held
<1> QED BY <1>2, <1>3, <1>13, Unharmed

\* A connection is accepted: its listener has one more that holds it.
LEMMA AcceptOwn ==
    ASSUME TypeOK, LifeInv, NEW c \in Conns, Accept(c)
    PROVE  \A d \in Conns : Own(d)' = Own(d) + (IF d = c THEN refCount'[c] ELSE 0)
<1>1. \A d \in Conns : refCount[d] \in Int /\ Own(d) \in Int
  BY Numbers
<1>2. /\ c \in Accepted \ created /\ c # Listener /\ linked' = Linked(c)
      /\ \A d \in Conns : d # c /\ d # Listener => refCount'[d] = refCount[d]
      /\ refCount'[Listener] = MasterRefs /\ refCount'[c] \in {1, 2}
  BY AcceptFacts, AcceptKinds
<1>3. /\ linked \subseteq Conns /\ Listener \notin linked /\ Listener \in Conns /\ c \notin linked
      /\ refCount[c] = 0 /\ IsFiniteSet(Live) /\ Cardinality(Live) \in Nat
  BY <1>2, Names, Numbers DEF TypeOK, LifeInv, Peers
<1>4. \A d \in Conns : d # Listener => Listening(d)' = 0 /\ Listening(d) = 0
  BY DEF Listening
<1>5. \A d \in Conns : d # Listener => Own(d)' = Own(d) + (IF d = c THEN refCount'[c] ELSE 0)
  BY <1>1, <1>2, <1>3, <1>4 DEF Own
<1>6. CASE Ok(Listener)
  <2>1. linked' = linked \cup {c} /\ refCount'[Listener] = refCount[Listener] + 1
    BY <1>2, <1>6 DEF Linked, MasterRefs
  <2>2. Live' = Live \cup {c} /\ c \notin Live
    BY <1>2, <1>3, <2>1 DEF Live
  <2>3. Cardinality(Live \cup {c}) = Cardinality(Live) + 1
    BY <1>3, <2>2, FS_AddElement
  <2>4. Listening(Listener)' = Listening(Listener) + 1
    BY <2>2, <2>3 DEF Listening
  <2>5. Own(Listener)' = Own(Listener)
    BY <1>1, <1>3, <2>1, <2>4 DEF Own, Listening
  <2> QED BY <1>1, <1>2, <1>5, <2>5
<1>7. CASE ~Ok(Listener)
  <2>1. linked' = linked /\ refCount'[Listener] = refCount[Listener]
    BY <1>2, <1>7 DEF Linked, MasterRefs
  <2>2. Live' = Live
    BY <1>2, <1>3, <2>1 DEF Live
  <2>3. Own(Listener)' = Own(Listener)
    BY <2>1, <2>2 DEF Own, Listening
  <2> QED BY <1>1, <1>2, <1>5, <2>3
<1> QED BY <1>6, <1>7

LEMMA AcceptCount ==
    ASSUME TypeOK, LifeInv, WatchInv, crashed = {}, Counted, NEW c \in Conns, Accept(c)
    PROVE  crashed' = {} /\ Counted'
<1>1. /\ c \in Accepted \ created /\ c # Listener
      /\ \A d \in Conns : onClose'[d] = IF d = c THEN "installed" ELSE onClose[d]
  BY AcceptFacts
<1>2. ~InQueue(c) /\ shutting[c] = "no" /\ onClose[c] = "none" /\ dropping = Nobody /\ Nobody \notin Conns
  BY <1>1, Names DEF WatchInv, Watched, LifeInv, Accept, ReaderReady
<1>3. UNCHANGED <<conList, owned, at, serverAt>> /\ Use(Listener) /\ Listener \in conList
  BY DEF Accept, WatchInv, Rounded
<1>4. crashed' = {}
  BY <1>3, HolderAlive, Unharmed, Names
<1>5. \A d \in Conns : AppHolds(d)' = AppHolds(d)
  BY <1>3, AppSame
<1>6. \A d \in Conns : Own(d)' = Own(d) + (IF d = c THEN refCount'[c] ELSE 0)
  BY AcceptOwn
<1>7. \A d \in Conns : ReaderHolds(d) \in Nat /\ AppHolds(d) \in Nat /\ EndHolds(d) \in Nat
                       /\ Own(d) \in Int
  BY Numbers
<1>8. \A d \in Conns : onClose'[d] = "running" <=> onClose[d] = "running"
  BY <1>1, <1>2
<1>9. CASE /\ refCount'[c] = 1 /\ Push(Item("connection", c))
           /\ shutting' = shutting /\ dropping' = dropping
  <2>1. \A d \in Conns : InQueue(d)' <=> InQueue(d) \/ d = c
    BY <1>2, <1>9, PushConnection DEF WatchInv, Watched
  <2>2. \A d \in Conns : ReaderHolds(d)' = ReaderHolds(d) + (IF d = c THEN 1 ELSE 0)
    BY <1>2, <1>3, <1>9, <2>1 DEF ReaderHolds, One
  <2>3. \A d \in Conns : EndHolds(d)' = EndHolds(d)
    BY <1>8, <1>9 DEF EndHolds, One
  <2> QED BY <1>4, <1>5, <1>6, <1>7, <1>9, <2>2, <2>3 DEF Counted, Held
<1>10. CASE /\ refCount'[c] = 2 /\ dropping' = c /\ queue' = queue
            /\ \A d \in Conns : shutting'[d] = IF d = c THEN "handlers" ELSE shutting[d]
  <2>1. \A d \in Conns : InQueue(d)' <=> InQueue(d)
    BY <1>10 DEF InQueue, Slot
  <2>2. \A d \in Conns : ReaderHolds(d)' = ReaderHolds(d) + (IF d = c THEN 1 ELSE 0)
    BY <1>2, <1>3, <1>10, <2>1 DEF ReaderHolds, One
  <2>3. \A d \in Conns : EndHolds(d)' = EndHolds(d) + (IF d = c THEN 1 ELSE 0)
    BY <1>2, <1>8, <1>10 DEF EndHolds, One
  <2> QED BY <1>4, <1>5, <1>6, <1>7, <1>10, <2>2, <2>3 DEF Counted, Held
<1> QED BY <1>9, <1>10, AcceptKinds

\* The thread inside vortex_listener_shutdown holds the listener.
LEMMA ServerCount ==
    ASSUME TypeOK, LifeInv, WatchInv, crashed = {}, Counted, ServerCalls \/ ServerStep
    PROVE  crashed' = {} /\ Counted'
<1>t. Listener \in Conns /\ Server \in Threads \cup {Reader, Server} /\ refCount \in [Conns -> Int]
      /\ Listener \notin linked
  BY Names DEF TypeOK, LifeInv, Peers
<1>n. \A d \in Conns : ReaderHolds(d) \in Nat /\ AppHolds(d) \in Nat /\ EndHolds(d) \in Nat
                       /\ Own(d) \in Int /\ One(d = Listener) \in Nat
  BY Numbers DEF One
<1>1. UNCHANGED <<conList, dropping, owned, at, linked, onClose>>
  BY DEF ServerCalls, ServerStep, ServerForeach, ServerShutdown, ServerReturns, connVars, readerVars
<1>2. \A d \in Conns : (Calling(d)' <=> Calling(d)) /\ (Handled(d)' <=> Handled(d))
  BY <1>1 DEF Calling, Handled
<1>3. CASE ServerCalls
  <2>1. refCount[Listener] > 0
    BY <1>3, <1>t, HolderAlive DEF ServerCalls, Ok, WatchInv, Watched
  <2>2. /\ Use(Listener) /\ Ref(Listener) /\ serverAt = "idle" /\ serverAt' = "foreach"
        /\ queue' = queue /\ shutting' = shutting
    BY <1>3 DEF ServerCalls, readerVars
  <2>3. \A d \in Conns : ReaderHolds(d)' = ReaderHolds(d) /\ EndHolds(d)' = EndHolds(d)
    BY <1>1, <2>2, ReaderSame, EndSame
  <2>4. \A d \in Conns : AppHolds(d)' = AppHolds(d) + One(d = Listener)
    BY <1>1, <1>2, <2>2 DEF AppHolds, One, Serving
  <2>5. \A d \in Conns : refCount'[d] = IF d = Listener THEN refCount[Listener] + 1 ELSE refCount[d]
    BY <1>t, <2>2 DEF Ref
  <2>6. \A d \in Conns : Own(d)' = Own(d) + One(d = Listener)
    BY <1>t, <1>1, <2>5, RefOwn
  <2>7. Counted'
    BY <1>n, <2>3, <2>4, <2>6 DEF Counted, Held
  <2> QED BY <2>1, <2>2, <2>7, Unharmed
<1>4. CASE ServerForeach
  <2>1. Item("foreach", Server) \in Items /\ Item("foreach", Server).type = "foreach"
    BY DEF Item, Items
  <2>2. /\ Push(Item("foreach", Server)) /\ UNCHANGED <<refCount, shutting, crashed>>
        /\ serverAt = "foreach" /\ serverAt' = "waiting"
    BY <1>4 DEF ServerForeach, connVars
  <2>3. \A d \in Conns : InQueue(d)' <=> InQueue(d)
    BY <2>1, <2>2, PushOther DEF WatchInv, Watched
  <2>4. \A d \in Conns : ReaderHolds(d)' = ReaderHolds(d)
    BY <1>1, <2>3 DEF ReaderHolds, One
  <2>5. \A d \in Conns : AppHolds(d)' = AppHolds(d)
    BY <1>1, <1>2, <2>2 DEF AppHolds, One, Serving
  <2> QED BY <1>1, <2>2, <2>4, <2>5, StillCounted
<1>5. CASE ServerShutdown
  <2>1. serverAt = "waiting" /\ serverAt' = "unref" /\ queue' = queue
        /\ BeginShutdown(Server, Listener) /\ Use(Listener)
    BY <1>5 DEF ServerShutdown, readerVars
  <2>2. refCount[Listener] > 0
    BY <1>t, <2>1, HolderAlive DEF Serving
  <2>3. \A d \in Conns : ReaderHolds(d)' = ReaderHolds(d)
    BY <1>1, <2>1, ReaderSame
  <2>4. \A d \in Conns : AppHolds(d)' = AppHolds(d)
    BY <1>1, <1>2, <2>1 DEF AppHolds, One, Serving
  <2> QED BY <1>t, <1>1, <2>1, <2>2, <2>3, <2>4, BeginCount
<1>6. CASE ServerReturns
  <2>1. serverAt = "unref" /\ serverAt' = "done" /\ queue' = queue /\ shutting' = shutting
        /\ Unref(Listener) /\ Use(Listener)
    BY <1>6 DEF ServerReturns, readerVars
  <2>2. refCount[Listener] > 0
    BY <1>t, <2>1, HolderAlive DEF Serving
  <2>3. \A d \in Conns : ReaderHolds(d)' = ReaderHolds(d) /\ EndHolds(d)' = EndHolds(d)
    BY <1>1, <2>1, ReaderSame, EndSame
  <2>4. \A d \in Conns : AppHolds(d)' = AppHolds(d) - One(d = Listener)
    BY <1>1, <1>2, <2>1 DEF AppHolds, One, Serving
  <2>5. \A d \in Conns : Own(d)' = Own(d) - One(d = Listener)
    BY <1>t, <1>1, <2>1, <2>2, UnrefOwn
  <2>6. Counted'
    BY <1>n, <2>3, <2>4, <2>5 DEF Counted, Held
  <2> QED BY <2>1, <2>2, <2>6, Unharmed
<1> QED BY <1>3, <1>4, <1>5, <1>6 DEF ServerStep

LEMMA TunerCount ==
    ASSUME TypeOK, LifeInv, WatchInv, crashed = {}, Counted,
           TunerAsks \/ TunerStep \/ StartExit \/ ExitStep
    PROVE  crashed' = {} /\ Counted'
<1>1. UNCHANGED <<refCount, linked, shutting, onClose, conList, dropping, owned, at, serverAt, crashed>>
  BY DEF TunerAsks, TunerStep, TunerInstalls, TunerDone, StartExit, ExitStep, StopReturns,
         StopTimesOut, connVars, readerVars
<1>2. queue' = queue \/ \E type \in {"change", "ready", "terminate"} : Push(Item(type, Nobody))
  BY DEF TunerAsks, TunerStep, TunerInstalls, TunerDone, StartExit, ExitStep, StopReturns,
         StopTimesOut, readerVars
<1>3. \A type \in {"change", "ready", "terminate"} :
          Item(type, Nobody) \in Items /\ Item(type, Nobody).type = type
  BY DEF Item, Items
<1>4. \A d \in Conns : InQueue(d)' <=> InQueue(d)
  BY <1>2, <1>3, QueueSame, PushOther DEF WatchInv, Watched
<1>5. \A d \in Conns : ReaderHolds(d)' = ReaderHolds(d)
  BY <1>1, <1>4 DEF ReaderHolds, One
<1> QED BY <1>1, <1>5, AppSame, StillCounted

LEMMA RefStart == Init => RefInv
<1> SUFFICES ASSUME Init, NEW d \in Conns PROVE Own(d) = Held(d)
  BY DEF Init, RefInv, Counted
<1>1. /\ Len(queue) = 1 /\ queue[1] = Item("listener", Listener) /\ conList = {} /\ dropping = Nobody
      /\ owned = {} /\ linked = {} /\ serverAt = "idle" /\ d # Nobody
      /\ refCount[d] = (IF d = Listener THEN 1 ELSE 0) /\ shutting[d] = "no" /\ onClose[d] = "none"
      /\ \A t \in Threads : at[t] = "none"
  BY Names DEF Init
<1>2. InQueue(d) <=> d = Listener
  BY <1>1 DEF InQueue, Slot, Item
<1>3. ~Calling(d) /\ ~Handled(d) /\ ~Serving(d)
  BY <1>1, ThreadFacts DEF Calling, CallPlaces, Handled, Serving
<1>4. ReaderHolds(d) = (IF d = Listener THEN 1 ELSE 0) /\ AppHolds(d) = 0 /\ EndHolds(d) = 0
  BY <1>1, <1>2, <1>3 DEF ReaderHolds, AppHolds, EndHolds, One
<1>5. Live = {}
  BY <1>1 DEF Live
<1>6. Listening(d) = 0
  BY <1>5, FS_EmptySet DEF Listening
<1> QED BY <1>1, <1>4, <1>6 DEF Own, Held

LEMMA RefStep ==
    TypeOK /\ LifeInv /\ WatchInv /\ CloseInv /\ RefInv /\ [Next]_vars => RefInv'
<1> SUFFICES ASSUME TypeOK, LifeInv, WatchInv, CloseInv, RefInv, [Next]_vars,
                    "overreleased" \notin irregular'
             PROVE  crashed' = {} /\ Counted'
  BY DEF RefInv
<1>1. crashed = {} /\ Counted
  BY IrregularGrows DEF RefInv
<1>2. CASE UNCHANGED vars
  <2>1. UNCHANGED <<refCount, linked, shutting, onClose, queue, conList, dropping, owned, at, serverAt, crashed>>
    BY <1>2 DEF vars, connVars, readerVars, appVars
  <2> QED BY <1>1, <2>1, ReaderSame, AppSame, StillCounted
<1>3. CASE Next
  BY <1>1, <1>3, ShutdownCount, OwnerCount, TaskCount, CallsCount, RoundCount, VisitCount,
     DispatchCount, AcceptCount, ServerCount, TunerCount DEF Next, ReaderStep
<1> QED BY <1>2, <1>3

-----------------------------------------------------------------------------
(* The results *)

\* The invariant holds at first and every step keeps it.
LEMMA InvStart == Init => Inv
BY TypeStart, LifeStart, WatchStart, CloseStart, AskStart, VisitStart, BlockStart, RefStart DEF Inv

LEMMA InvStep == Inv /\ [Next]_vars => Inv'
BY TypeStep, LifeStep, WatchStep, CloseStep, AskStep, VisitStep, BlockStep, RefStep DEF Inv

\* Counting the places of the queue and the threads that hold a reference: there is at
\* most one of each.
LEMMA HoldersAdded ==
    ASSUME TypeOK, LifeInv, WatchInv, CloseInv, NEW c \in Conns
    PROVE  Holders(c) = Held(c) + Listening(c)
<1> DEFINE slots == {k \in 1..Len(queue) : queue[k].conn = c /\ queue[k].type \in {"connection", "listener"}}
           calls == {t \in Threads : ThreadConn(t) = c /\ at[t] \in {"channels", "count", "drop"}}
<1>1. Cardinality(slots) = One(InQueue(c))
  <2>1. CASE InQueue(c)
    <3>1. PICK k \in 1 .. Len(queue) : Slot(k, c)
      BY <2>1 DEF InQueue
    <3>2. slots = {k}
      BY <3>1 DEF Slot, WatchInv, Watched, OneSlot
    <3> QED BY <2>1, <3>2, FS_Singleton DEF One
  <2>2. CASE ~InQueue(c)
    <3>1. slots = {}
      BY <2>2 DEF InQueue, Slot
    <3> QED BY <2>2, <3>1, FS_EmptySet DEF One
  <2> QED BY <2>1, <2>2
<1>2. Cardinality(calls) = One(Calling(c))
  <2>1. CASE Calling(c)
    <3>1. PICK t \in Threads : ThreadConn(t) = c /\ at[t] \in CallPlaces
      BY <2>1 DEF Calling
    <3>2. \A u \in calls : u = t
      BY <3>1 DEF CloseInv, Closing, CallPlaces
    <3>3. calls = {t}
      BY <3>1, <3>2 DEF CallPlaces
    <3> QED BY <2>1, <3>3, FS_Singleton DEF One
  <2>2. CASE ~Calling(c)
    <3>1. calls = {}
      BY <2>2 DEF Calling, CallPlaces
    <3> QED BY <2>2, <3>1, FS_EmptySet DEF One
  <2> QED BY <2>1, <2>2
<1>3. One(c = Listener) * Cardinality({d \in linked : refCount[d] > 0}) = Listening(c)
  <2>1. Cardinality({d \in linked : refCount[d] > 0}) \in Nat
    BY Numbers DEF Live
  <2> QED BY <2>1 DEF One, Listening, Live
<1>4. /\ One(c \in Peers /\ at[Task(c)] \notin {"none", "ended"}) = One(Handled(c))
      /\ One(c = Listener /\ serverAt \notin {"idle", "done"}) = One(Serving(c))
  BY DEF Handled, Serving
<1>5. Holders(c) = One(c \in owned) + One(c \in conList) + One(dropping = c) + One(shutting[c] # "no")
                     + One(onClose[c] = "running") + One(InQueue(c)) + One(Calling(c)) + One(Handled(c))
                     + One(Serving(c)) + Listening(c)
  BY <1>1, <1>2, <1>3, <1>4 DEF Holders
<1>6. /\ One(c \in owned) \in Nat /\ One(c \in conList) \in Nat /\ One(dropping = c) \in Nat
      /\ One(shutting[c] # "no") \in Nat /\ One(onClose[c] = "running") \in Nat
      /\ One(InQueue(c)) \in Nat /\ One(Calling(c)) \in Nat /\ One(Handled(c)) \in Nat
      /\ One(Serving(c)) \in Nat /\ Listening(c) \in Nat
  BY Numbers DEF One
<1> QED BY <1>5, <1>6 DEF Held, ReaderHolds, AppHolds, EndHolds

\* The count of a connection (vortex_connection_ref, _unref, ref_count) is that of its
\* holders, whatever threads, reader, handlers and accepted connections do in whatever
\* order, and nobody uses a connection that was freed: unless vortex_connection_close
\* released a reference it had not got.
THEOREM CountsHolders == Spec => []ReferencesHeld
<1>1. Inv => ReferencesHeld
  <2> SUFFICES ASSUME Inv, "overreleased" \notin irregular
               PROVE  crashed = {} /\ \A c \in Conns : refCount[c] = Holders(c)
    BY DEF ReferencesHeld
  <2>1. crashed = {} /\ Counted
    BY DEF Inv, RefInv
  <2>2. ASSUME NEW c \in Conns PROVE refCount[c] = Holders(c)
    <3>1. Own(c) = Held(c) /\ Holders(c) = Held(c) + Listening(c)
      BY <2>1, HoldersAdded DEF Inv, Counted
    <3>2. refCount[c] \in Int /\ Listening(c) \in Nat /\ Held(c) \in Nat
      BY Numbers DEF Inv
    <3> QED BY <3>1, <3>2 DEF Own
  <2> QED BY <2>1, <2>2
<1> QED BY <1>1, InvStart, InvStep, PTL DEF Spec

\* When vortex_listener_shutdown has returned and nothing was accepted during the call, no
\* connection the listener accepted is connected: __vortex_listener_shutdown_foreach met
\* it in the list, where it was before the question, or it was shut down on its way.
THEOREM ShutdownTakesAll == Spec => []ListenerTakesAll
<1>1. Inv => ListenerTakesAll
  BY DEF Inv, VisitInv, NoneConnected, ListenerTakesAll
<1> QED BY <1>1, InvStart, InvStep, PTL DEF Spec

\* The reader gives a frame of a blocked connection to nobody, but while
\* vortex_connection_block has not returned: the foreach it waits for takes the reader
\* out of the round whose set was built before the flag.
THEOREM BlockedUnread == Spec => BlockedNotRead
<1>1. Inv => \A c \in Peers : DispatchFrame(c) => (blocked[c] => at[Owner(c)] = "blocking")
  BY DEF Inv, BlockInv, DispatchFrame
<1>2. Inv /\ [Next]_vars =>
          [\A c \in Peers : DispatchFrame(c) => (blocked[c] => at[Owner(c)] = "blocking")]_vars
  BY <1>1
<1> QED BY <1>2, InvStart, InvStep, PTL DEF Spec, BlockedNotRead
=============================================================================
