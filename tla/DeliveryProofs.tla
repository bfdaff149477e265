--------------------------- MODULE DeliveryProofs ---------------------------
(***************************************************************************)
(* Proofs about Delivery for any number of workers, calls and frames, with *)
(* and without the complete flag, for connections that break.              *)
(***************************************************************************)
EXTENDS Delivery, Functions, FiniteSetTheorems, SequenceTheorems, TLAPS

-----------------------------------------------------------------------------
(* Queues *)

\* The elements of a queue one item longer, which are distinct when the item is new ...
LEMMA AppendFacts ==
    ASSUME NEW S, NEW q \in Seq(S), NEW x \in S
    PROVE  /\ Append(q, x) \in Seq(S) /\ Append(q, x) # <<>>
           /\ Range(Append(q, x)) = Range(q) \cup {x}
           /\ IsInjective(q) /\ x \notin Range(q) => IsInjective(Append(q, x))
<1>1. /\ Append(q, x) \in Seq(S) /\ Len(Append(q, x)) = Len(q) + 1 /\ Len(q) \in Nat
      /\ \A i \in 1 .. Len(q) : Append(q, x)[i] = q[i]
      /\ Append(q, x)[Len(q) + 1] = x
  BY AppendProperties, LenProperties
<1>2. DOMAIN q = 1 .. Len(q) /\ DOMAIN Append(q, x) = 1 .. Len(q) + 1
  BY <1>1, LenProperties
<1>3. /\ \A i \in 1 .. Len(q) + 1 : i \in 1 .. Len(q) \/ i = Len(q) + 1
      /\ \A i \in 1 .. Len(q) : i \in 1 .. Len(q) + 1
      /\ Len(q) + 1 \in 1 .. Len(q) + 1
  BY <1>1
<1>4. Range(Append(q, x)) \subseteq Range(q) \cup {x}
  BY <1>1, <1>2, <1>3 DEF Range
<1>5. Range(q) \cup {x} \subseteq Range(Append(q, x))
  BY <1>1, <1>2, <1>3 DEF Range
<1>6. IsInjective(q) /\ x \notin Range(q) => IsInjective(Append(q, x))
  BY <1>1, <1>2, <1>3 DEF Range, IsInjective
<1>7. Append(q, x) # <<>>
  BY AppendProperties
<1> QED BY <1>1, <1>4, <1>5, <1>6, <1>7

\* ... and of one whose first item was taken.
LEMMA TailFacts ==
    ASSUME NEW S, NEW q \in Seq(S), q # <<>>
    PROVE  /\ Tail(q) \in Seq(S) /\ Head(q) \in S
           /\ Head(q) \in Range(q) /\ Range(Tail(q)) \subseteq Range(q)
           /\ IsInjective(q) => IsInjective(Tail(q)) /\ Head(q) \notin Range(Tail(q))
<1>1. /\ Head(q) \in S /\ Tail(q) \in Seq(S) /\ Len(Tail(q)) = Len(q) - 1
      /\ \A i \in 1 .. Len(Tail(q)) : Tail(q)[i] = q[i + 1]
  BY HeadTailProperties
<1>2. Len(q) \in Nat \ {0} /\ DOMAIN q = 1 .. Len(q) /\ DOMAIN Tail(q) = 1 .. Len(Tail(q))
  BY <1>1, EmptySeq, LenProperties
<1>3. Head(q) = q[1] /\ 1 \in DOMAIN q
  BY <1>2
<1>4. \A i \in DOMAIN Tail(q) : i + 1 \in DOMAIN q /\ i + 1 # 1 /\ i \in Nat
  BY <1>1, <1>2
<1>5. Head(q) \in Range(q) /\ Range(Tail(q)) \subseteq Range(q)
  BY <1>1, <1>2, <1>3, <1>4 DEF Range
<1>6. ASSUME IsInjective(q) PROVE IsInjective(Tail(q)) /\ Head(q) \notin Range(Tail(q))
  <2>1. ASSUME NEW i \in DOMAIN Tail(q), NEW j \in DOMAIN Tail(q), Tail(q)[i] = Tail(q)[j]
        PROVE  i = j
    <3>1. i + 1 = j + 1
      BY <1>1, <1>2, <1>4, <1>6, <2>1 DEF IsInjective
    <3> QED BY <1>4, <2>1, <3>1
  <2>2. ASSUME NEW i \in DOMAIN Tail(q) PROVE Tail(q)[i] # Head(q)
    BY <1>1, <1>2, <1>3, <1>4, <1>6, <2>2 DEF IsInjective
  <2> QED BY <2>1, <2>2 DEF IsInjective, Range
<1> QED BY <1>1, <1>5, <1>6

\* An empty queue.
LEMMA EmptyFacts == Range(<<>>) = {} /\ IsInjective(<<>>)
BY DEF Range, IsInjective

-----------------------------------------------------------------------------
(* The beacon.  A call that waits removes its on close handler; when somebody  *)
(* took the handler, it waits for the beacon, so that the queue is there when  *)
(* the beacon is pushed.  The invariant follows the one handler, the one reply *)
(* and the one beacon of a call.                                               *)

CallStates == {"idle", "sent", "install", "pop", "wait", "remove", "beacon", "free", "done"}
CallShape ==
    /\ data \in [Waiters -> Seq(Items)] /\ waiting_msgno \in Seq(Waiters)
    /\ call \in [Calls -> CallStates] /\ got \in [Calls -> Items \cup {None}]
    /\ holders \in [Calls -> SUBSET {"caller", "channel", "wait"}]
    /\ on_close \subseteq Waiters /\ fired \subseteq Waiters

Replied(c) == c \in Range(data[c])
Beaconed(c) == "broken" \in Range(data[c])

\* A queue holds one reply and one beacon at most, in any order.
QueueOf(c) == IsInjective(data[c]) /\ Range(data[c]) \subseteq {c, "broken"}

\* The handler is on the connection, or in its thread, or has pushed the beacon, which
\* is in the queue or popped; only while the call waits.
BeaconOnce(c) ==
    /\ c \in on_close => c \notin fired /\ call[c] \in {"pop", "wait", "remove"}
    /\ c \in fired => call[c] \in {"pop", "wait", "remove", "beacon"}
    /\ Beaconed(c) \/ got[c] = "broken" => c \notin on_close /\ c \notin fired
    /\ Beaconed(c) => call[c] \notin {"idle", "sent", "install"}
    /\ call[c] = "beacon" => got[c] # "broken"

\* A call that waits has its reference.
Referenced(c) == call[c] \in {"install", "pop", "wait", "remove", "beacon"} => "wait" \in holders[c]

\* The reply is still to come, or in the queue, or popped; one that comes when the call
\* gave up is late.
ReplyOnce(c) ==
    /\ got[c] \in {None, c, "broken"}
    /\ call[c] \in {"idle", "sent", "install", "pop", "wait"} => got[c] = None
    /\ call[c] = "idle" => ~Replied(c)
    /\ c \in Range(waiting_msgno) => call[c] # "idle" /\ ~Replied(c) /\ got[c] # c
    /\ got[c] = c => ~Replied(c)
    /\ call[c] \in {"remove", "beacon"} /\ got[c] = None => ~Replied(c)

WaiterInv(c) == QueueOf(c) /\ BeaconOnce(c) /\ Referenced(c) /\ ReplyOnce(c)
BeaconInv ==
    "late" \notin irregular =>
        ~misused /\ IsInjective(waiting_msgno) /\ \A c \in Waiters : WaiterInv(c)

\* What the beacon hangs on.
beaconVars == <<data, waiting_msgno, call, got, holders, on_close, fired, misused>>

\* The constants, as the proofs use them.
LEMMA ConstantFacts ==
    /\ Queues = Waiters /\ Waiters \subseteq Calls
    /\ "broken" \notin Calls /\ "broken" # None /\ None \notin Calls
BY DeliveryAssumption DEF DeliveryAssumption

\* No step takes back what is irregular.
LEMMA IrregularStays == [Next]_vars => irregular \subseteq irregular'
BY DEF Next, Reader, Notifier, Worker, Waits, Read, StorePrevious, PushReply, NewTask, Note,
       Take, Check, HandlerReturns, Send, WaitReply, Install, TimedPop, TimeOut, RemoveOnClose,
       PopBeacon, FreeWaitReply, BreakConnection, TakeHandler, AllTaken, PushBroken, vars

\* The steps of the reader that answer nobody, those of the workers and two of the
\* connection leave the calls alone.
LEMMA QuietSteps ==
    ASSUME [Next]_vars
    PROVE  \/ UNCHANGED beaconVars
           \/ PushReply
           \/ \E c \in Waiters : TakeHandler(c) \/ PushBroken(c)
           \/ \E c \in Calls : Send(c)
           \/ \E c \in Waiters : Waits(c) \/ TimeOut(c)
<1>1. CASE Read \/ StorePrevious \/ NewTask
  BY <1>1 DEF Read, StorePrevious, NewTask, calls, conn, hist, queueVars, beaconVars
<1>2. CASE BreakConnection \/ AllTaken
  BY <1>2 DEF BreakConnection, AllTaken, calls, hist, queueVars, beaconVars
<1>3. CASE \E w \in Workers : Worker(w)
  BY <1>3 DEF Worker, Take, Check, HandlerReturns, calls, conn, hist, queueVars, beaconVars
<1>4. CASE UNCHANGED vars
  BY <1>4 DEF vars, calls, conn, hist, queueVars, beaconVars
<1> QED BY <1>1, <1>2, <1>3, <1>4 DEF Next, Reader, Notifier

\* What a push does to the data of the queues ...
LEMMA PushData ==
    ASSUME CallShape, NEW c \in Waiters, NEW i \in Items, Push(c, i)
    PROVE  /\ data' \in [Waiters -> Seq(Items)]
           /\ \A d \in Waiters : d # c => data'[d] = data[d]
           /\ data'[c] = Append(data[c], i)
<1>1. data[c] \in Seq(Items) /\ data' = [data EXCEPT ![c] = Append(data[c], i)]
  BY DEF CallShape, Push
<1>2. Append(data[c], i) \in Seq(Items)
  BY <1>1, AppendFacts
<1> QED BY <1>1, <1>2 DEF CallShape

\* ... and a pop, which takes the first item.
LEMMA TakeData ==
    ASSUME CallShape, NEW c \in Waiters, NEW i, TakeItem(c, i)
    PROVE  /\ data' \in [Waiters -> Seq(Items)]
           /\ \A d \in Waiters : d # c => data'[d] = data[d]
           /\ data'[c] = Tail(data[c]) /\ data[c] # <<>>
           /\ i = Head(data[c]) /\ i \in Items
<1>1. data[c] \in Seq(Items) /\ data' = [data EXCEPT ![c] = Tail(data[c])]
  BY DEF CallShape, TakeItem
<1>2. Tail(data[c]) \in Seq(Items) /\ Head(data[c]) \in Items
  BY <1>1, TailFacts DEF TakeItem
<1> QED BY <1>1, <1>2 DEF CallShape, TakeItem

\* The shapes of the queues and the calls, in every step.
LEMMA CallShapeStep == CallShape /\ [Next]_vars => CallShape'
<1> SUFFICES ASSUME CallShape, [Next]_vars PROVE CallShape'
  OBVIOUS
<1> USE ConstantFacts
<1>1. CASE UNCHANGED beaconVars
  BY <1>1 DEF CallShape, beaconVars
<1>2. CASE PushReply
  <2>1. /\ waiting_msgno # <<>> /\ Push(Head(waiting_msgno), Head(waiting_msgno))
        /\ waiting_msgno' = Tail(waiting_msgno) /\ UNCHANGED <<on_close, fired, call, got>>
        /\ holders' = [holders EXCEPT ![Head(waiting_msgno)] = @ \ {"channel"}]
    BY <1>2 DEF PushReply, Awaited, conn
  <2>2. Head(waiting_msgno) \in Waiters /\ waiting_msgno' \in Seq(Waiters)
    BY <2>1, TailFacts DEF CallShape
  <2>3. data' \in [Waiters -> Seq(Items)]
    BY <2>1, <2>2, PushData DEF Items
  <2> QED BY <2>1, <2>2, <2>3 DEF CallShape
<1>3. ASSUME NEW c \in Waiters, TakeHandler(c) \/ PushBroken(c) PROVE CallShape'
  <2>1. CASE TakeHandler(c)
    BY <1>3, <2>1 DEF TakeHandler, CallShape, queueVars, calls
  <2>2. CASE PushBroken(c)
    <3>1. Push(c, "broken") /\ fired' = fired \ {c} /\ UNCHANGED <<on_close, calls>>
      BY <2>2 DEF PushBroken
    <3>2. data' \in [Waiters -> Seq(Items)]
      BY <3>1, PushData DEF Items
    <3> QED BY <3>1, <3>2 DEF CallShape, calls
  <2> QED BY <1>3, <2>1, <2>2
<1>4. ASSUME NEW c \in Calls, Send(c) PROVE CallShape'
  <2>1. UNCHANGED <<data, got, on_close, fired>>
    BY <1>4 DEF Send, queueVars, conn
  <2>2. call' \in [Calls -> CallStates]
    BY <1>4 DEF Send, CallShape, CallStates
  <2>3. CASE UNCHANGED <<holders, waiting_msgno>>
    BY <2>1, <2>2, <2>3 DEF CallShape
  <2>4. CASE /\ c \in Waiters /\ waiting_msgno' = Append(waiting_msgno, c)
             /\ holders' = [holders EXCEPT ![c] = {"caller", "channel"}]
    <3>1. waiting_msgno' \in Seq(Waiters)
      BY <2>4, AppendFacts DEF CallShape
    <3>2. holders' \in [Calls -> SUBSET {"caller", "channel", "wait"}]
      BY <2>4 DEF CallShape
    <3> QED BY <2>1, <2>2, <3>1, <3>2 DEF CallShape
  <2> QED BY <1>4, <2>3, <2>4 DEF Send
<1>5. ASSUME NEW c \in Waiters, Waits(c) \/ TimeOut(c) PROVE CallShape'
  <2>1. CASE WaitReply(c) \/ FreeWaitReply(c)
    <3>1. UNCHANGED <<data, got, on_close, fired, waiting_msgno>>
      BY <2>1 DEF WaitReply, FreeWaitReply, queueVars, conn
    <3>2. call' \in [Calls -> CallStates]
      BY <2>1 DEF WaitReply, FreeWaitReply, Goes, CallShape, CallStates
    <3>3. \E h : /\ holders' = [holders EXCEPT ![c] = h]
                 /\ h \subseteq holders[c] \cup {"wait"}
      BY <2>1 DEF WaitReply, FreeWaitReply
    <3>4. holders' \in [Calls -> SUBSET {"caller", "channel", "wait"}]
      BY <3>3 DEF CallShape
    <3> QED BY <3>1, <3>2, <3>4 DEF CallShape
  <2>2. CASE Install(c)
    <3>1. on_close' = on_close \cup {c} /\ UNCHANGED <<data, got, fired, waiting_msgno, holders>>
      BY <2>2 DEF Install, queueVars
    <3>2. call' \in [Calls -> CallStates]
      BY <2>2 DEF Install, Goes, CallShape, CallStates
    <3> QED BY <3>1, <3>2 DEF CallShape
  <2>3. CASE RemoveOnClose(c)
    <3>1. on_close' = on_close \ {c} /\ UNCHANGED <<data, got, fired, waiting_msgno>>
      BY <2>3 DEF RemoveOnClose, queueVars
    <3>2. call' \in [Calls -> CallStates]
      BY <2>3 DEF RemoveOnClose, Goes, CallShape, CallStates
    <3>3. holders' \in [Calls -> SUBSET {"caller", "channel", "wait"}]
      BY <2>3 DEF RemoveOnClose, CallShape
    <3> QED BY <3>1, <3>2, <3>3 DEF CallShape
  <2>4. CASE TimeOut(c)
    BY <2>4 DEF TimeOut, PopNothing, Goes, CallShape, CallStates, conn
  <2>5. CASE TimedPop(c)
    <3>1. UNCHANGED <<on_close, fired, holders, waiting_msgno>>
      BY <2>5 DEF TimedPop, conn
    <3>2. call' \in [Calls -> CallStates]
      BY <2>5 DEF TimedPop, Goes, CallShape, CallStates
    <3>3. CASE UNCHANGED <<data, got>>
      BY <3>1, <3>2, <3>3 DEF CallShape
    <3>4. ASSUME NEW i \in Items, TakeItem(c, i), got' = [got EXCEPT ![c] = i] PROVE CallShape'
      <4>1. data' \in [Waiters -> Seq(Items)]
        BY <3>4, TakeData
      <4> QED BY <3>1, <3>2, <3>4, <4>1 DEF CallShape
    <3> QED BY <2>5, <3>3, <3>4 DEF TimedPop, PopAtOnce, PopWoken, PopWait
  <2>6. CASE PopBeacon(c)
    <3>1. UNCHANGED <<on_close, fired, got, waiting_msgno>> /\ \E i \in Items : TakeItem(c, i)
      BY <2>6 DEF PopBeacon, PopAtOnce, conn
    <3>2. data' \in [Waiters -> Seq(Items)]
      BY <3>1, TakeData
    <3> QED BY <2>6, <3>1, <3>2 DEF PopBeacon, Goes, CallShape, CallStates
  <2> QED BY <1>5, <2>1, <2>2, <2>3, <2>4, <2>5, <2>6 DEF Waits
<1> QED BY <1>1, <1>2, <1>3, <1>4, <1>5, QuietSteps

\* A call nothing happens to stays as it is.
LEMMA SameWaiter ==
    ASSUME NEW d \in Waiters, WaiterInv(d),
           data'[d] = data[d], call'[d] = call[d], got'[d] = got[d], holders'[d] = holders[d],
           d \in on_close' <=> d \in on_close, d \in fired' <=> d \in fired,
           d \in Range(waiting_msgno)' => d \in Range(waiting_msgno)
    PROVE  WaiterInv(d)'
BY DEF WaiterInv, QueueOf, BeaconOnce, Referenced, ReplyOnce, Replied, Beaconed

\* The beacon, the reply and the queue of a call, in the steps that move them: those of
\* the reader,
LEMMA PushReplyStep ==
    ASSUME CallShape, BeaconInv, PushReply, "late" \notin irregular'
    PROVE  BeaconInv'
<1> USE ConstantFacts
<1>0. waiting_msgno # <<>> /\ Head(waiting_msgno) \in Waiters
  BY TailFacts DEF PushReply, Awaited, CallShape
<1>1. PICK c \in Waiters :
        /\ c = Head(waiting_msgno) /\ waiting_msgno' = Tail(waiting_msgno) /\ Push(c, c)
        /\ UNCHANGED <<call, got, on_close, fired, misused>>
        /\ holders' = [holders EXCEPT ![c] = @ \ {"channel"}]
  BY <1>0 DEF PushReply, Awaited, conn, hist
<1>2. "late" \notin irregular /\ ~(call[c] \in {"remove", "beacon"} /\ got[c] = None)
  BY <1>1 DEF PushReply
<1>3. c \in Waiters /\ c \in Range(waiting_msgno) /\ Range(waiting_msgno') \subseteq Range(waiting_msgno)
  BY <1>0, <1>1, TailFacts DEF CallShape
<1>4. IsInjective(waiting_msgno') /\ c \notin Range(waiting_msgno')
  BY <1>0, <1>1, <1>2, TailFacts DEF CallShape, BeaconInv
<1>5. /\ \A d \in Waiters : d # c => data'[d] = data[d]
      /\ data'[c] = Append(data[c], c) /\ data[c] \in Seq(Items)
  BY <1>1, <1>3, PushData DEF CallShape, Items
<1>6. Range(data'[c]) = Range(data[c]) \cup {c} /\ (~Replied(c) /\ IsInjective(data[c]) => IsInjective(data'[c]))
  BY <1>3, <1>5, AppendFacts DEF Items, Replied
<1>7. WaiterInv(c)
  BY <1>2, <1>3 DEF BeaconInv
<1>8. ~Replied(c) /\ call[c] # "idle" /\ got[c] # c
  BY <1>3, <1>7 DEF WaiterInv, ReplyOnce
<1>9. "wait" \in holders'[c] <=> "wait" \in holders[c]
  BY <1>1, <1>3 DEF CallShape
<1>10. WaiterInv(c)'
  <2>1. QueueOf(c)'
    BY <1>6, <1>7, <1>8 DEF WaiterInv, QueueOf
  <2>2. BeaconOnce(c)'
    BY <1>1, <1>3, <1>6, <1>7 DEF WaiterInv, BeaconOnce, Beaconed
  <2>3. Referenced(c)'
    BY <1>1, <1>7, <1>9 DEF WaiterInv, Referenced
  <2>4. ReplyOnce(c)'
    BY <1>1, <1>2, <1>4, <1>7, <1>8 DEF WaiterInv, ReplyOnce
  <2> QED BY <2>1, <2>2, <2>3, <2>4 DEF WaiterInv
<1>11. ASSUME NEW d \in Waiters, d # c PROVE WaiterInv(d)'
  <2>1. WaiterInv(d) /\ holders'[d] = holders[d]
    BY <1>1, <1>2, <1>3, <1>11 DEF BeaconInv, CallShape
  <2> QED BY <1>1, <1>3, <1>5, <1>11, <2>1, SameWaiter
<1>12. ~misused'
  BY <1>1, <1>2 DEF BeaconInv
<1> QED BY <1>4, <1>10, <1>11, <1>12 DEF BeaconInv

\* those of the connection,
LEMMA HandlerStep ==
    ASSUME CallShape, BeaconInv, NEW c \in Waiters, TakeHandler(c) \/ PushBroken(c), "late" \notin irregular'
    PROVE  BeaconInv'
<1> USE ConstantFacts
<1>1. "late" \notin irregular /\ UNCHANGED calls
  BY DEF TakeHandler, PushBroken
<1>2. WaiterInv(c) /\ ~misused /\ IsInjective(waiting_msgno)'
  BY <1>1 DEF BeaconInv, calls
<1>3. CASE TakeHandler(c)
  <2>1. /\ c \in on_close /\ on_close' = on_close \ {c} /\ fired' = fired \cup {c}
        /\ UNCHANGED <<data, misused>>
    BY <1>3 DEF TakeHandler, queueVars, hist
  <2>2. WaiterInv(c)'
    BY <1>1, <1>2, <2>1 DEF WaiterInv, QueueOf, BeaconOnce, Referenced, ReplyOnce, Replied, Beaconed, calls
  <2>3. ASSUME NEW d \in Waiters, d # c PROVE WaiterInv(d)'
    BY <1>1, <2>1, <2>3, SameWaiter DEF BeaconInv, calls
  <2> QED BY <1>2, <2>1, <2>2, <2>3 DEF BeaconInv
<1>4. CASE PushBroken(c)
  <2>1. /\ c \in fired /\ fired' = fired \ {c} /\ Push(c, "broken")
        /\ misused' = (misused \/ holders[c] = {}) /\ UNCHANGED on_close
    BY <1>4 DEF PushBroken
  <2>2. /\ \A d \in Waiters : d # c => data'[d] = data[d]
        /\ data'[c] = Append(data[c], "broken") /\ data[c] \in Seq(Items)
    BY <2>1, PushData DEF CallShape, Items
  <2>3. /\ Range(data'[c]) = Range(data[c]) \cup {"broken"}
        /\ (~Beaconed(c) /\ IsInjective(data[c]) => IsInjective(data'[c]))
    BY <2>2, AppendFacts DEF Items, Beaconed
  <2>4. c \notin on_close /\ ~Beaconed(c) /\ call[c] \in {"pop", "wait", "remove", "beacon"}
    BY <1>2, <2>1 DEF WaiterInv, BeaconOnce
  <2>5. ~misused'
    <3>1. "wait" \in holders[c]
      BY <1>2, <2>4 DEF WaiterInv, Referenced
    <3> QED BY <1>2, <2>1, <3>1
  <2>6. WaiterInv(c)'
    <3>1. QueueOf(c)'
      BY <1>2, <2>3, <2>4 DEF WaiterInv, QueueOf
    <3>2. BeaconOnce(c)'
      BY <1>1, <1>2, <2>1, <2>4 DEF WaiterInv, BeaconOnce, calls
    <3>3. Referenced(c)'
      BY <1>1, <1>2 DEF WaiterInv, Referenced, calls
    <3>4. ReplyOnce(c)'
      BY <1>1, <1>2, <2>3 DEF WaiterInv, ReplyOnce, Replied, calls
    <3> QED BY <3>1, <3>2, <3>3, <3>4 DEF WaiterInv
  <2>7. ASSUME NEW d \in Waiters, d # c PROVE WaiterInv(d)'
    BY <1>1, <2>1, <2>2, <2>7, SameWaiter DEF BeaconInv, calls
  <2> QED BY <1>2, <2>5, <2>6, <2>7 DEF BeaconInv
<1> QED BY <1>3, <1>4

\* the sending of a message,
LEMMA SendStep ==
    ASSUME CallShape, BeaconInv, NEW c \in Calls, Send(c), "late" \notin irregular'
    PROVE  BeaconInv'
<1> USE ConstantFacts
<1>1. /\ call[c] = "idle" /\ "late" \notin irregular
      /\ UNCHANGED <<data, got, on_close, fired, misused>>
  BY DEF Send, queueVars, conn, hist
<1>2. IsInjective(waiting_msgno) /\ ~misused' /\ \A d \in Waiters : WaiterInv(d)
  BY <1>1 DEF BeaconInv
<1>3. /\ \A d \in Waiters : d # c => call'[d] = call[d] /\ holders'[d] = holders[d]
      /\ call'[c] \in {"done", "sent"}
  BY DEF Send, CallShape
<1>4. /\ IsInjective(waiting_msgno') /\ Range(waiting_msgno') \subseteq Range(waiting_msgno) \cup {c}
  <2>1. CASE UNCHANGED waiting_msgno
    BY <1>2, <2>1
  <2>2. CASE c \in Waiters /\ waiting_msgno' = Append(waiting_msgno, c)
    <3>1. c \notin Range(waiting_msgno)
      BY <1>1, <1>2, <2>2 DEF WaiterInv, ReplyOnce
    <3> QED BY <1>2, <2>2, <3>1, AppendFacts DEF CallShape
  <2> QED BY <2>1, <2>2 DEF Send
<1>5. ASSUME NEW d \in Waiters PROVE WaiterInv(d)'
  <2>1. CASE d # c
    BY <1>1, <1>2, <1>3, <1>4, <2>1, SameWaiter
  <2>2. CASE d = c
    <3>1. WaiterInv(c) /\ c \in Waiters
      BY <1>2, <2>2
    <3>2. got[c] = None /\ ~Replied(c)
      BY <1>1, <3>1 DEF WaiterInv, ReplyOnce
    <3>3. QueueOf(c)'
      BY <1>1, <3>1 DEF WaiterInv, QueueOf
    <3>4. BeaconOnce(c)'
      BY <1>1, <1>3, <3>1 DEF WaiterInv, BeaconOnce, Beaconed
    <3>5. Referenced(c)'
      BY <1>3 DEF Referenced
    <3>6. ReplyOnce(c)'
      BY <1>1, <1>3, <3>1, <3>2 DEF ReplyOnce, Replied
    <3> QED BY <2>2, <3>3, <3>4, <3>5, <3>6 DEF WaiterInv
  <2> QED BY <2>1, <2>2
<1> QED BY <1>2, <1>4, <1>5 DEF BeaconInv

\* and those of a call that waits, which are its own affair.
LEMMA OwnStep ==
    ASSUME CallShape, BeaconInv, NEW c \in Waiters, Waits(c) \/ TimeOut(c)
    PROVE  /\ waiting_msgno' = waiting_msgno /\ misused' = misused /\ fired' = fired
           /\ \A d \in Waiters : d # c => /\ data'[d] = data[d] /\ call'[d] = call[d]
                                          /\ got'[d] = got[d] /\ holders'[d] = holders[d]
                                          /\ d \in on_close' <=> d \in on_close
           /\ call[c] \in {"sent", "install", "pop", "wait", "remove", "beacon", "free"}
<1> USE ConstantFacts
<1>1. CASE WaitReply(c) \/ FreeWaitReply(c)
  BY <1>1 DEF WaitReply, FreeWaitReply, Goes, CallShape, queueVars, conn, hist
<1>2. CASE Install(c)
  BY <1>2 DEF Install, Goes, CallShape, queueVars, hist
<1>3. CASE RemoveOnClose(c)
  BY <1>3 DEF RemoveOnClose, Goes, CallShape, queueVars, hist
<1>4. CASE TimeOut(c)
  BY <1>4 DEF TimeOut, PopNothing, Goes, CallShape, conn, hist
<1>5. CASE TimedPop(c)
  <2>1. /\ UNCHANGED <<on_close, fired, holders, waiting_msgno, misused>>
        /\ \A d \in Waiters : d # c => call'[d] = call[d] /\ got'[d] = got[d]
        /\ call[c] \in {"pop", "wait"}
    BY <1>5 DEF TimedPop, Goes, CallShape, conn, hist
  <2>2. \A d \in Waiters : d # c => data'[d] = data[d]
    BY <1>5, TakeData DEF TimedPop, PopAtOnce, PopWoken, PopWait
  <2> QED BY <2>1, <2>2
<1>6. CASE PopBeacon(c)
  <2>1. /\ UNCHANGED <<on_close, fired, got, waiting_msgno, misused>> /\ call[c] = "beacon"
        /\ \A d \in Waiters : d # c => call'[d] = call[d] /\ holders'[d] = holders[d]
    BY <1>6 DEF PopBeacon, Goes, CallShape, conn, hist
  <2>2. \A d \in Waiters : d # c => data'[d] = data[d]
    BY <1>6, TakeData DEF PopBeacon, PopAtOnce
  <2> QED BY <2>1, <2>2
<1> QED BY <1>1, <1>2, <1>3, <1>4, <1>5, <1>6 DEF Waits

\* A call that takes an item takes its reply or the beacon, and has neither a second time.
LEMMA TakenItem ==
    ASSUME CallShape, NEW c \in Waiters, WaiterInv(c), NEW i, TakeItem(c, i)
    PROVE  /\ (i = c /\ Replied(c)) \/ (i = "broken" /\ Beaconed(c))
           /\ QueueOf(c)' /\ i \notin Range(data'[c])
           /\ Range(data'[c]) \subseteq Range(data[c])
<1>1. /\ data[c] # <<>> /\ data[c] \in Seq(Items)
      /\ data'[c] = Tail(data[c]) /\ i = Head(data[c])
  BY TakeData DEF CallShape
<1>2. IsInjective(data[c]) /\ Range(data[c]) \subseteq {c, "broken"}
  BY DEF WaiterInv, QueueOf
<1>3. /\ i \in Range(data[c]) /\ IsInjective(data'[c]) /\ i \notin Range(data'[c])
      /\ Range(data'[c]) \subseteq Range(data[c])
  BY <1>1, <1>2, TailFacts
<1>4. QueueOf(c)'
  BY <1>2, <1>3 DEF QueueOf
<1>5. (i = c /\ Replied(c)) \/ (i = "broken" /\ Beaconed(c))
  BY <1>2, <1>3 DEF Replied, Beaconed
<1> QED BY <1>3, <1>4, <1>5

\* The handler, the reply and the reference of a call, in its own steps.
LEMMA WaitsStep ==
    ASSUME CallShape, CallShape', BeaconInv, NEW c \in Waiters, Waits(c) \/ TimeOut(c),
           "late" \notin irregular, irregular \subseteq irregular'
    PROVE  BeaconInv'
<1> USE ConstantFacts
<1>1. /\ WaiterInv(c) /\ ~misused' /\ IsInjective(waiting_msgno)'
      /\ \A d \in Waiters : d # c => WaiterInv(d)'
  <2>1. /\ ~misused /\ IsInjective(waiting_msgno) /\ \A d \in Waiters : WaiterInv(d)
    BY DEF BeaconInv
  <2> QED BY <2>1, OwnStep, SameWaiter
<1>2. waiting_msgno' = waiting_msgno /\ fired' = fired
  BY OwnStep
<1>3. CASE WaitReply(c)
  <2>1. /\ call[c] = "sent" /\ call'[c] \in {"install", "free"} /\ UNCHANGED <<data, got, on_close>>
        /\ call'[c] = "install" => "wait" \in holders'[c]
    BY <1>3 DEF WaitReply, Goes, CallShape, queueVars, conn
  <2> QED BY <1>1, <1>2, <2>1
        DEF BeaconInv, WaiterInv, QueueOf, BeaconOnce, Referenced, ReplyOnce, Replied, Beaconed
<1>4. CASE Install(c)
  <2>1. /\ call[c] = "install" /\ call'[c] = "pop" /\ UNCHANGED <<data, got, holders>>
        /\ on_close' = on_close \cup {c}
    BY <1>4 DEF Install, Goes, CallShape, queueVars
  <2> QED BY <1>1, <1>2, <2>1
        DEF BeaconInv, WaiterInv, QueueOf, BeaconOnce, Referenced, ReplyOnce, Replied, Beaconed
<1>5. CASE FreeWaitReply(c)
  <2>1. call[c] = "free" /\ call'[c] = "done" /\ UNCHANGED <<data, got, on_close>>
    BY <1>5 DEF FreeWaitReply, Goes, CallShape, queueVars, conn
  <2> QED BY <1>1, <1>2, <2>1
        DEF BeaconInv, WaiterInv, QueueOf, BeaconOnce, Referenced, ReplyOnce, Replied, Beaconed
<1>6. CASE TimeOut(c)
  <2>1. /\ call[c] = "wait" /\ call'[c] = "remove" /\ UNCHANGED <<got, on_close, holders>>
        /\ data' = data /\ data[c] = <<>>
    BY <1>6 DEF TimeOut, PopNothing, Goes, CallShape, conn
  <2>2. ~Replied(c)
    BY <2>1, EmptyFacts DEF Replied
  <2> QED BY <1>1, <1>2, <2>1, <2>2
        DEF BeaconInv, WaiterInv, QueueOf, BeaconOnce, Referenced, ReplyOnce, Replied, Beaconed
<1>7. CASE RemoveOnClose(c)
  <2>1. /\ call[c] = "remove" /\ UNCHANGED <<data, got>> /\ on_close' = on_close \ {c}
        /\ call'[c] = IF c \notin on_close /\ got[c] # "broken" THEN "beacon" ELSE "free"
        /\ call'[c] = "beacon" => holders'[c] = holders[c]
    BY <1>7 DEF RemoveOnClose, Goes, BeaconPending, CallShape, queueVars
  <2>2. call'[c] \in {"beacon", "free"} /\ (call'[c] = "free" => c \in on_close \/ got[c] = "broken")
    BY <2>1
  <2> QED BY <1>1, <1>2, <2>1, <2>2
        DEF BeaconInv, WaiterInv, QueueOf, BeaconOnce, Referenced, ReplyOnce, Replied, Beaconed
<1>8. CASE PopBeacon(c)
  <2>1. PICK i \in Items : TakeItem(c, i)
    BY <1>8 DEF PopBeacon, PopAtOnce
  <2>2. call[c] = "beacon" /\ call'[c] = "free" /\ UNCHANGED <<got, on_close>>
    BY <1>8 DEF PopBeacon, Goes, CallShape, conn
  <2>3. ~Replied(c)
    BY <1>1, <2>2 DEF WaiterInv, ReplyOnce, BeaconOnce
  <2>4. /\ i = "broken" /\ Beaconed(c) /\ QueueOf(c)'
        /\ Range(data'[c]) \subseteq Range(data[c])
    BY <1>1, <2>1, <2>3, TakenItem
  <2>5. c \notin on_close /\ c \notin fired
    BY <1>1, <2>4 DEF WaiterInv, BeaconOnce
  <2>6. WaiterInv(c)'
    BY <1>1, <1>2, <2>2, <2>3, <2>4, <2>5
      DEF WaiterInv, BeaconOnce, Referenced, ReplyOnce, Replied, Beaconed
  <2> QED BY <1>1, <2>6 DEF BeaconInv
<1>9. CASE TimedPop(c)
  <2>1. /\ UNCHANGED <<on_close, holders>> /\ call[c] \in {"pop", "wait"}
        /\ call'[c] \in {"remove", "wait"}
    BY <1>9 DEF TimedPop, Goes, CallShape, conn
  <2>2. CASE PopWait(c, c) /\ call'[c] = "wait" /\ UNCHANGED got
    <3>1. data' = data
      BY <2>2 DEF PopWait
    <3> QED BY <1>1, <1>2, <2>1, <2>2, <3>1
          DEF BeaconInv, WaiterInv, QueueOf, BeaconOnce, Referenced, ReplyOnce, Replied, Beaconed
  <2>3. ASSUME NEW i \in Items, TakeItem(c, i), got' = [got EXCEPT ![c] = i], call'[c] = "remove"
        PROVE  BeaconInv'
    <3>1. got[c] = None /\ got'[c] = i
      BY <1>1, <2>1, <2>3 DEF WaiterInv, ReplyOnce, CallShape
    <3>2. /\ (i = c /\ Replied(c)) \/ (i = "broken" /\ Beaconed(c))
          /\ QueueOf(c)' /\ i \notin Range(data'[c])
          /\ Range(data'[c]) \subseteq Range(data[c])
      BY <1>1, <2>3, TakenItem
    <3>3. Beaconed(c)' => Beaconed(c)
      BY <3>2 DEF Beaconed
    <3>4. BeaconOnce(c)'
      BY <1>1, <1>2, <2>1, <2>3, <3>1, <3>2, <3>3 DEF WaiterInv, BeaconOnce
    <3>5. Referenced(c)'
      BY <1>1, <2>1 DEF WaiterInv, Referenced
    <3>6. ReplyOnce(c)'
      BY <1>1, <1>2, <2>1, <2>3, <3>1, <3>2 DEF WaiterInv, ReplyOnce, Replied
    <3> QED BY <1>1, <3>2, <3>4, <3>5, <3>6 DEF BeaconInv, WaiterInv
  <2>4. \/ PopWait(c, c) /\ call'[c] = "wait" /\ UNCHANGED got
        \/ \E i \in Items : TakeItem(c, i) /\ got' = [got EXCEPT ![c] = i] /\ call'[c] = "remove"
    BY <1>9 DEF TimedPop, PopAtOnce, PopWoken, Goes, CallShape
  <2> QED BY <2>2, <2>3, <2>4
<1> QED BY <1>3, <1>4, <1>5, <1>6, <1>7, <1>8, <1>9 DEF Waits

\* Every step keeps the shape and the invariant ...
LEMMA BeaconStep == CallShape /\ BeaconInv /\ [Next]_vars => CallShape' /\ BeaconInv'
<1> SUFFICES ASSUME CallShape, BeaconInv, [Next]_vars PROVE CallShape' /\ BeaconInv'
  OBVIOUS
<1>1. CallShape' /\ irregular \subseteq irregular'
  BY CallShapeStep, IrregularStays
<1>2. CASE "late" \in irregular'
  BY <1>1, <1>2 DEF BeaconInv
<1>3. CASE "late" \notin irregular'
  <2>1. CASE UNCHANGED beaconVars
    <3>1. \A c \in Waiters : WaiterInv(c) => WaiterInv(c)'
      BY <2>1 DEF beaconVars, WaiterInv, QueueOf, BeaconOnce, Referenced, ReplyOnce, Replied, Beaconed
    <3> QED BY <1>1, <1>3, <2>1, <3>1 DEF BeaconInv, beaconVars
  <2> QED BY <1>1, <1>3, <2>1, QuietSteps, PushReplyStep, HandlerStep, SendStep, WaitsStep
<1> QED BY <1>1, <1>2, <1>3

\* ... which hold throughout.
LEMMA BeaconInvariant == Spec => [](CallShape /\ BeaconInv)
<1>1. Init => CallShape /\ BeaconInv
  <2> SUFFICES ASSUME Init PROVE CallShape /\ BeaconInv
    OBVIOUS
  <2> USE ConstantFacts
  <2>1. /\ data = [c \in Waiters |-> <<>>] /\ \A c \in Waiters : data[c] = <<>>
        /\ \A S : <<>> \in Seq(S)
    BY EmptySeq DEF Init, QueueInit
  <2>2. CallShape
    BY <2>1 DEF Init, CallShape, CallStates
  <2>3. ASSUME NEW c \in Waiters PROVE WaiterInv(c)
    BY <2>1, EmptyFacts
      DEF Init, WaiterInv, QueueOf, BeaconOnce, Referenced, ReplyOnce, Replied, Beaconed
  <2> QED BY <2>2, <2>3, EmptyFacts DEF Init, BeaconInv
<1> QED BY <1>1, BeaconStep, PTL DEF Spec

\* The thread of an on close handler never pushes the beacon to a queue that was released:
\* vortex_channel_wait_reply takes the beacon of a handler it could not remove before it
\* lets its reference go, unless a late reply was taken for the beacon.
THEOREM BeaconIsSafe == Spec => []BeaconSafe
<1>1. BeaconInv => BeaconSafe
  BY DEF BeaconInv, BeaconSafe
<1> QED BY <1>1, BeaconInvariant, PTL

-----------------------------------------------------------------------------
(* The order of the frames.  On a serialized channel a frame is handled when   *)
(* its sequence number is the one the channel expects.  That number says which *)
(* frame it is: between two frames there is at least an octet for each of those *)
(* between them, so the first that was not handled is the only one that can    *)
(* have it, and none has while a handler runs.                                 *)

Tasks == [id : Nat, seqno : Nat, size : Nat]

\* g has room for f, and for an octet of each frame between them.
After(f, g) == f.seqno + f.size + g.id <= g.seqno + f.id + 1

\* The frames out, which are not handled, and in, which a handler has, when n of last
\* were handled, next is the number expected and start that of the next frame to come.
Ordered(out, in, n, next, last, start) ==
    /\ n <= last /\ next + last <= start + n
    /\ \A g \in out : n < g.id /\ g.id <= last /\ next + g.id <= g.seqno + n + 1
    /\ \A f \in out \cup in : 0 < f.size /\ f.seqno + f.size + last <= start + f.id
    /\ \A f \in out \cup in : \A g \in out :
          (f.id < g.id => After(f, g)) /\ (f.id = g.id => f = g)
    /\ \A h \in in : h.id = n /\ h.seqno = next

\* The handler has one frame.
Alone(x) == {x}

\* Frames may be dropped, and a reply that is waited for leaves its numbers unused;
LEMMA FewerOrdered ==
    ASSUME NEW out, NEW in, NEW n \in Nat, NEW next \in Nat, NEW last \in Nat, NEW start \in Nat,
           out \subseteq Tasks, in \subseteq Tasks,
           NEW out2 \in SUBSET out, NEW in2 \in SUBSET in, NEW start2 \in Nat, start <= start2,
           Ordered(out, in, n, next, last, start)
    PROVE  Ordered(out2, in2, n, next, last, start2)
<1>1. \A f \in out2 \cup in2 : f \in Tasks /\ f \in out \cup in
  OBVIOUS
<1>2. \A f \in out2 \cup in2 : 0 < f.size /\ f.seqno + f.size + last <= start2 + f.id
  BY <1>1 DEF Ordered, Tasks
<1>3. next + last <= start2 + n
  BY DEF Ordered
<1> QED BY <1>1, <1>2, <1>3 DEF Ordered

\* the next frame comes after all others;
LEMMA NewOrdered ==
    ASSUME NEW out, NEW in, NEW n \in Nat, NEW next \in Nat, NEW last \in Nat, NEW start \in Nat,
           out \subseteq Tasks, in \subseteq Tasks,
           NEW x \in Tasks, x.id = last + 1, x.seqno = start, 0 < x.size,
           Ordered(out, in, n, next, last, start)
    PROVE  Ordered(out \cup {x}, in, n, next, last + 1, start + x.size)
<1>1. \A f \in out \cup in : f \in Tasks /\ f.id <= last
  BY DEF Ordered, Tasks
<1>2. /\ n <= last + 1 /\ next + (last + 1) <= start + x.size + n
      /\ n < x.id /\ x.id <= last + 1 /\ next + x.id <= x.seqno + n + 1
  BY DEF Ordered, Tasks
<1>3. \A g \in out \cup {x} : n < g.id /\ g.id <= last + 1 /\ next + g.id <= g.seqno + n + 1
  BY <1>1, <1>2 DEF Ordered, Tasks
<1>4. ASSUME NEW f \in out \cup {x} \cup in
      PROVE  0 < f.size /\ f.seqno + f.size + (last + 1) <= start + x.size + f.id
  <2>1. CASE f = x
    BY <2>1 DEF Tasks
  <2>2. CASE f \in out \cup in
    <3>1. f.seqno + f.size + last <= start + f.id /\ 0 < f.size
      BY <2>2 DEF Ordered
    <3> QED BY <1>1, <2>2, <3>1 DEF Tasks
  <2> QED BY <2>1, <2>2
<1>5. ASSUME NEW f \in out \cup {x} \cup in, NEW g \in out \cup {x}
      PROVE  (f.id < g.id => After(f, g)) /\ (f.id = g.id => f = g)
  <2>1. CASE f = x
    BY <1>1, <2>1 DEF Tasks
  <2>2. CASE f \in out \cup in /\ g = x
    <3>1. f.seqno + f.size + last <= start + f.id
      BY <2>2 DEF Ordered
    <3> QED BY <1>1, <2>2, <3>1 DEF Tasks, After
  <2>3. CASE f \in out \cup in /\ g \in out
    BY <2>3 DEF Ordered
  <2> QED BY <2>1, <2>2, <2>3
<1>6. \A h \in in : h.id = n /\ h.seqno = next
  BY DEF Ordered
<1> QED BY <1>2, <1>3, <1>4, <1>5, <1>6 DEF Ordered

\* the frame with the number expected is the next one, and is alone with the handler;
LEMMA HandledOrdered ==
    ASSUME NEW out, NEW in, NEW n \in Nat, NEW next \in Nat, NEW last \in Nat, NEW start \in Nat,
           out \subseteq Tasks, in \subseteq Tasks,
           NEW x \in out, x.seqno = next, NEW out2 \in SUBSET out, x \notin out2,
           Ordered(out, in, n, next, last, start)
    PROVE  in = {} /\ x.id = n + 1 /\ Ordered(out2, Alone(x), x.id, next, last, start)
<1>1. x \in Tasks /\ n < x.id /\ x.id <= last /\ next + x.id <= x.seqno + n + 1
  BY DEF Ordered
<1>2. x.id = n + 1
  BY <1>1 DEF Tasks
<1>3. ASSUME NEW h \in in PROVE FALSE
  <2>1. h.id = n /\ h.seqno = next /\ 0 < h.size /\ After(h, x)
    BY <1>1, <1>2 DEF Ordered, Tasks
  <2> QED BY <1>1, <1>2, <2>1 DEF Tasks, After
<1>4. ASSUME NEW g \in out2 PROVE n + 1 < g.id /\ next + g.id <= g.seqno + (n + 1) + 1
  <2>1. g \in Tasks /\ g \in out /\ n < g.id /\ g # x
    BY DEF Ordered
  <2>2. g.id # x.id
    BY <2>1 DEF Ordered
  <2>3. n + 1 < g.id
    BY <1>2, <2>1, <2>2 DEF Tasks
  <2>4. After(x, g) /\ 0 < x.size
    BY <1>2, <2>1, <2>3 DEF Ordered
  <2> QED BY <1>1, <1>2, <2>1, <2>3, <2>4 DEF Tasks, After
<1>5. n + 1 <= last /\ next + last <= start + (n + 1)
  BY <1>1, <1>2 DEF Ordered, Tasks
<1>6. \A f \in out2 \cup {x} : f \in out
  OBVIOUS
<1>7. Alone(x) = {x} /\ x.id \in Nat
  BY <1>1 DEF Alone, Tasks
<1> QED BY <1>1, <1>2, <1>3, <1>4, <1>5, <1>6, <1>7 DEF Ordered

\* when the handler returns the number expected is that of what follows its frame.
LEMMA ReturnedOrdered ==
    ASSUME NEW out, NEW in, NEW n \in Nat, NEW next \in Nat, NEW last \in Nat, NEW start \in Nat,
           out \subseteq Tasks, in \subseteq Tasks, NEW h \in in,
           Ordered(out, in, n, next, last, start)
    PROVE  Ordered(out, {}, n, h.seqno + h.size, last, start)
<1>1. h \in Tasks /\ h.id = n /\ 0 < h.size /\ h.seqno + h.size + last <= start + h.id
  BY DEF Ordered
<1>2. ASSUME NEW g \in out PROVE h.seqno + h.size + g.id <= g.seqno + n + 1
  <2>1. After(h, g)
    BY <1>1 DEF Ordered
  <2> QED BY <1>1, <2>1 DEF After
<1> QED BY <1>1, <1>2 DEF Ordered

\* The frames of the workers, and where those are that nobody handles yet.
Taken == {frame[w] : w \in {v \in Workers : at[v] = "check"}}
Handling == {frame[w] : w \in {v \in Workers : at[v] = "handler"}}
Outstanding == Taken \cup serialize_hash \cup Range(tasks)

\* Where the octets start the reader has not given to anybody.
Start ==
    IF previous_frame # None THEN previous_frame.seqno
    ELSE IF reading # None THEN reading.seqno ELSE last_seq_no_expected

FrameShape ==
    /\ sent \in Seq(Calls) /\ replied \in Nat /\ coming \in {"MSG", "RPY", None}
    /\ replied <= Len(sent) /\ (coming = "RPY" => replied < Len(sent))
    /\ reading \in Frames \cup {None} /\ previous_frame \in Frames \cup {None}
    /\ last_seq_no_expected \in Nat /\ serialize_next_seqno \in Nat /\ delivered \in Nat
    /\ tasks \in Seq(Tasks) /\ serialize_hash \subseteq Tasks /\ handled \in Seq(Nat)
    /\ at \in [Workers -> {"idle", "check", "handler"}] /\ frame \in [Workers -> Tasks \cup {None}]
    /\ \A w \in Workers : at[w] # "idle" => frame[w] \in Tasks

\* The frames the reader has follow one another.
Contiguous ==
    /\ reading # None => reading.seqno + reading.size = last_seq_no_expected
    /\ previous_frame # None =>
          previous_frame.seqno + previous_frame.size =
              IF reading # None THEN reading.seqno ELSE last_seq_no_expected

\* A frame is in one place.
OnePlace ==
    /\ \A i, j \in DOMAIN tasks : i < j => tasks[i].id < tasks[j].id
    /\ \A f \in Taken \cup serialize_hash : \A g \in Range(tasks) : f.id < g.id
    /\ \A w, v \in Workers : at[w] = "check" /\ at[v] = "check" /\ frame[w].id = frame[v].id => w = v
    /\ \A f \in Taken : \A g \in serialize_hash : f.id # g.id
    /\ \A w, v \in Workers : at[w] = "handler" /\ at[v] = "handler" => w = v

OrderInv ==
    serialize /\ "empty" \notin irregular =>
        /\ \A i \in DOMAIN handled : handled[i] = i
        /\ Ordered(Outstanding, Handling, Len(handled), serialize_next_seqno, delivered, Start)
        /\ OnePlace

frameVars == <<sent, replied, coming, reading, previous_frame, last_seq_no_expected, tasks, at, frame,
               serialize_next_seqno, serialize_hash, delivered, handled>>

\* The numbers and the sets the invariant is about have their types.
LEMMA OrderShape ==
    ASSUME FrameShape
    PROVE  /\ Start \in Nat /\ Len(handled) \in Nat
           /\ Outstanding \subseteq Tasks /\ Handling \subseteq Tasks
<1>1. Range(tasks) \subseteq Tasks
  <2>1. tasks \in Seq(Tasks)
    BY DEF FrameShape
  <2> QED BY <2>1, ElementOfSeq, LenProperties DEF Range
<1>2. Taken \subseteq Tasks /\ Handling \subseteq Tasks
  BY DEF FrameShape, Taken, Handling
<1>3. Start \in Nat
  BY DEF FrameShape, Start, Frames
<1>4. Len(handled) \in Nat
  BY LenProperties DEF FrameShape
<1> QED BY <1>1, <1>2, <1>3, <1>4 DEF Outstanding, FrameShape

\* The calls and the connection leave the frames alone, but for a message that is sent.
LEMMA OtherSteps ==
    ASSUME [Next]_vars
    PROVE  \/ UNCHANGED frameVars
           \/ Reader
           \/ \E w \in Workers : Worker(w)
           \/ \E c \in Calls : Send(c)
<1>1. CASE Notifier \/ BreakConnection
  BY <1>1 DEF Notifier, AllTaken, TakeHandler, PushBroken, BreakConnection, peer, pool, serial, hist,
              frameVars
<1>2. CASE \E c \in Waiters : Waits(c) \/ TimeOut(c)
  BY <1>2 DEF Waits, WaitReply, Install, TimedPop, TimeOut, RemoveOnClose, PopBeacon, FreeWaitReply,
              peer, pool, serial, hist, frameVars
<1>3. CASE UNCHANGED vars
  BY <1>3 DEF vars, peer, pool, serial, hist, frameVars
<1> QED BY <1>1, <1>2, <1>3 DEF Next

\* A frame and the frames kept before it: where the joined one starts and ends.
LEMMA PendingFrame ==
    ASSUME FrameShape, Contiguous, reading # None
    PROVE  /\ SinglePendingFrame \in Frames /\ SinglePendingFrame.seqno = Start
           /\ Start + SinglePendingFrame.size = last_seq_no_expected
<1>1. reading \in Frames /\ reading.seqno + reading.size = last_seq_no_expected
  BY DEF FrameShape, Contiguous
<1>2. CASE previous_frame = None
  BY <1>1, <1>2 DEF SinglePendingFrame, Start
<1>3. CASE previous_frame # None
  <2>1. previous_frame \in Frames /\ previous_frame.seqno + previous_frame.size = reading.seqno
    BY <1>3 DEF FrameShape, Contiguous
  <2>2. /\ SinglePendingFrame =
             [previous_frame EXCEPT !.more = FALSE, !.size = previous_frame.size + reading.size]
        /\ previous_frame.size + reading.size \in Nat
    BY <1>1, <1>3, <2>1 DEF SinglePendingFrame, Frames
  <2>3. /\ SinglePendingFrame \in Frames /\ SinglePendingFrame.seqno = previous_frame.seqno
        /\ SinglePendingFrame.size = previous_frame.size + reading.size
    BY <2>1, <2>2 DEF Frames
  <2> QED BY <1>1, <1>3, <2>1, <2>3 DEF Start, Frames
<1> QED BY <1>2, <1>3

\* What the reader does to the frames it has.
LEMMA ReaderStep ==
    ASSUME FrameShape, Contiguous, Reader
    PROVE  /\ reading' \in Frames \cup {None} /\ previous_frame' \in Frames \cup {None}
           /\ sent' = sent /\ replied' \in Nat /\ coming' \in {"MSG", "RPY", None}
           /\ replied' <= Len(sent) /\ (coming' = "RPY" => replied' < Len(sent))
           /\ last_seq_no_expected' \in Nat
           /\ Contiguous' /\ Start <= Start'
           /\ UNCHANGED <<at, frame, serialize_next_seqno, serialize_hash, handled>>
           /\ NewTask \/ UNCHANGED <<tasks, delivered>>
<1>1. CASE Read
  <2>1. PICK type \in {"MSG", "RPY"}, size \in Sizes, more \in BOOLEAN :
          /\ reading = None /\ coming \in {None, type}
          /\ coming = None => IF type = "MSG" THEN msgs < MaxMsgs ELSE replied < Len(sent)
          /\ reading' = [type |-> type, seqno |-> last_seq_no_expected, size |-> size,
                         more |-> more, call |-> IF type = "RPY" THEN sent[replied + 1] ELSE None]
          /\ last_seq_no_expected' = last_seq_no_expected + size
          /\ coming' = IF more THEN type ELSE None
          /\ replied' = IF type = "RPY" /\ ~more THEN replied + 1 ELSE replied
    BY <1>1 DEF Read
  <2>2. UNCHANGED <<sent, previous_frame, tasks, at, frame, serialize_next_seqno, serialize_hash,
                    delivered, handled>>
    BY <1>1 DEF Read, pool, serial, hist
  <2>3. /\ size \in Nat /\ None # "RPY" /\ sent \in Seq(Calls) /\ Len(sent) \in Nat
        /\ last_seq_no_expected \in Nat /\ replied \in Nat
    BY DeliveryAssumption, LenProperties DEF DeliveryAssumption, FrameShape
  <2>4. type = "RPY" => replied < Len(sent)
    BY <2>1 DEF FrameShape
  <2>5. type = "RPY" => sent[replied + 1] \in Calls
    BY <2>3, <2>4, ElementOfSeq
  <2>6. reading' \in Frames /\ reading'.seqno = last_seq_no_expected /\ reading'.size = size
    BY <2>1, <2>3, <2>5 DEF Frames
  <2>7. /\ replied' \in Nat /\ replied' <= Len(sent) /\ coming' \in {"MSG", "RPY", None}
        /\ coming' = "RPY" => replied' < Len(sent)
    BY <2>1, <2>3, <2>4 DEF FrameShape
  <2>8. Contiguous' /\ Start <= Start'
    <3>1. reading' # None /\ reading'.seqno + reading'.size = last_seq_no_expected'
      BY <2>1, <2>6, DeliveryAssumption DEF DeliveryAssumption
    <3>2. previous_frame' = previous_frame /\ (previous_frame # None => previous_frame \in Frames)
      BY <2>2 DEF FrameShape
    <3>3. previous_frame # None =>
             previous_frame.seqno + previous_frame.size = last_seq_no_expected
      BY <2>1 DEF Contiguous
    <3>4. Contiguous'
      BY <2>6, <3>1, <3>2, <3>3 DEF Contiguous
    <3>5. Start' = Start
      BY <2>1, <2>6, <3>1, <3>2 DEF Start
    <3>6. Start \in Nat
      BY OrderShape
    <3> QED BY <3>4, <3>5, <3>6
  <2> QED BY <2>1, <2>2, <2>3, <2>6, <2>7, <2>8 DEF FrameShape
<1>2. CASE StorePrevious
  <2>1. /\ reading # None /\ previous_frame' = SinglePendingFrame /\ reading' = None
        /\ UNCHANGED <<sent, replied, coming, last_seq_no_expected, tasks, at, frame,
                       serialize_next_seqno, serialize_hash, delivered, handled>>
    BY <1>2 DEF StorePrevious, peer, pool, serial, hist
  <2>2. /\ SinglePendingFrame \in Frames /\ SinglePendingFrame.seqno = Start
        /\ Start + SinglePendingFrame.size = last_seq_no_expected
    BY <2>1, PendingFrame
  <2>3. Start \in Nat
    BY OrderShape
  <2>4. Contiguous' /\ Start <= Start'
    <3>1. SinglePendingFrame # None
      BY <2>2, DeliveryAssumption DEF DeliveryAssumption
    <3>2. Start' = Start
      BY <2>1, <2>2, <3>1 DEF Start
    <3>3. Contiguous'
      BY <2>1, <2>2 DEF Contiguous
    <3> QED BY <2>3, <3>2, <3>3
  <2> QED BY <2>1, <2>2, <2>4 DEF FrameShape
<1>3. CASE PushReply \/ NewTask
  <2>1. /\ reading # None /\ previous_frame' = None /\ reading' = None
        /\ UNCHANGED <<sent, replied, coming, last_seq_no_expected, at, frame,
                       serialize_next_seqno, serialize_hash, handled>>
    BY <1>3 DEF PushReply, NewTask, Dispatches, peer, pool, serial, hist
  <2>2. PushReply => UNCHANGED <<tasks, delivered>>
    BY DEF PushReply, pool, hist
  <2>3. /\ SinglePendingFrame \in Frames /\ Start \in Nat
        /\ Start + SinglePendingFrame.size = last_seq_no_expected
    BY <2>1, PendingFrame, OrderShape
  <2>4. Contiguous' /\ Start' = last_seq_no_expected
    BY <2>1 DEF Contiguous, Start
  <2>5. Start <= Start'
    BY <2>3, <2>4 DEF Frames
  <2> QED BY <1>3, <2>1, <2>2, <2>4, <2>5 DEF FrameShape
<1> QED BY <1>1, <1>2, <1>3 DEF Reader

\* The task the reader makes is the next frame, where the last one ended.
LEMMA NewTaskFacts ==
    ASSUME FrameShape, Contiguous, NewTask, ~UNCHANGED <<tasks, delivered>>
    PROVE  \E x \in Tasks :
               /\ tasks' = Append(tasks, x) /\ x.id = delivered + 1 /\ delivered' = delivered + 1
               /\ x.seqno = Start /\ Start' = Start + x.size
               /\ serialize /\ "empty" \notin irregular' => 0 < x.size
<1>1. /\ reading # None /\ reading' = None /\ previous_frame' = None
      /\ last_seq_no_expected' = last_seq_no_expected
  BY DEF NewTask, Dispatches, peer
<1>2. /\ SinglePendingFrame \in Frames /\ SinglePendingFrame.seqno = Start
      /\ Start + SinglePendingFrame.size = last_seq_no_expected
  BY <1>1, PendingFrame
<1>3. Start' = last_seq_no_expected
  BY <1>1 DEF Start
<1>4. PICK x : /\ x = [id |-> delivered + 1, seqno |-> SinglePendingFrame.seqno,
                       size |-> SinglePendingFrame.size]
               /\ tasks' = Append(tasks, x) /\ delivered' = delivered + 1
               /\ serialize /\ "empty" \notin irregular' => SinglePendingFrame.size # 0
  BY DEF NewTask, Note
<1>5. x \in Tasks /\ x.seqno = Start /\ x.size = SinglePendingFrame.size /\ x.id = delivered + 1
  BY <1>2, <1>4 DEF FrameShape, Frames, Tasks
<1> QED BY <1>2, <1>3, <1>4, <1>5 DEF Tasks

\* What a worker does: it takes the first task,
LEMMA TakeFacts ==
    ASSUME FrameShape, NEW w \in Workers, Take(w)
    PROVE  /\ tasks # <<>> /\ tasks' = Tail(tasks) /\ Head(tasks) \in Tasks
           /\ at[w] = "idle" /\ at'[w] = "check" /\ frame'[w] = Head(tasks)
           /\ \A v \in Workers : v # w => at'[v] = at[v] /\ frame'[v] = frame[v]
           /\ UNCHANGED <<serialize_hash, serialize_next_seqno, handled, delivered>>
           /\ FrameShape' /\ UNCHANGED <<reading, previous_frame, last_seq_no_expected>>
<1>1. /\ tasks # <<>> /\ at[w] = "idle" /\ tasks' = Tail(tasks)
      /\ at' = [at EXCEPT ![w] = "check"] /\ frame' = [frame EXCEPT ![w] = Head(tasks)]
      /\ UNCHANGED <<sent, replied, coming, reading, previous_frame, last_seq_no_expected,
                     serialize_next_seqno, serialize_hash, handled, delivered>>
  BY DEF Take, peer, serial, hist
<1>2. Head(tasks) \in Tasks /\ Tail(tasks) \in Seq(Tasks)
  BY <1>1, TailFacts DEF FrameShape
<1>3. /\ at'[w] = "check" /\ frame'[w] = Head(tasks)
      /\ \A v \in Workers : v # w => at'[v] = at[v] /\ frame'[v] = frame[v]
      /\ at' \in [Workers -> {"idle", "check", "handler"}] /\ frame' \in [Workers -> Tasks \cup {None}]
  BY <1>1, <1>2 DEF FrameShape
<1>4. \A v \in Workers : at'[v] # "idle" => frame'[v] \in Tasks
  BY <1>2, <1>3 DEF FrameShape
<1>5. FrameShape'
  BY <1>1, <1>2, <1>3, <1>4 DEF FrameShape
<1> QED BY <1>1, <1>2, <1>3, <1>5

\* drops a frame it has or calls the handler with one,
LEMMA WorkerGoes ==
    ASSUME FrameShape, NEW w \in Workers, at[w] # "idle", serialize_hash' \subseteq Tasks,
           serialize_next_seqno' \in Nat,
           UNCHANGED <<sent, replied, coming, reading, previous_frame, last_seq_no_expected, tasks,
                       delivered>>,
           Drop(w) \/ \E x \in Tasks : Handle(w, x)
    PROVE  /\ FrameShape'
           /\ \A v \in Workers : v # w => at'[v] = at[v] /\ frame'[v] = frame[v]
<1>1. PICK a \in {"idle", "handler"}, y \in Tasks \cup {None} :
         /\ at' = [at EXCEPT ![w] = a] /\ frame' = [frame EXCEPT ![w] = y]
         /\ a = "handler" => y \in Tasks
  BY DEF Drop, Handle
<1>2. /\ at'[w] = a /\ frame'[w] = y
      /\ \A v \in Workers : v # w => at'[v] = at[v] /\ frame'[v] = frame[v]
      /\ at' \in [Workers -> {"idle", "check", "handler"}] /\ frame' \in [Workers -> Tasks \cup {None}]
  BY <1>1 DEF FrameShape
<1>3. \A v \in Workers : at'[v] # "idle" => frame'[v] \in Tasks
  BY <1>1, <1>2 DEF FrameShape
<1>4. handled' \in Seq(Nat)
  <2>1. CASE handled' = handled
    BY <2>1 DEF FrameShape
  <2>2. ASSUME NEW x \in Tasks, handled' = Append(handled, x.id) PROVE handled' \in Seq(Nat)
    BY <2>2, AppendFacts DEF FrameShape, Tasks
  <2> QED BY <2>1, <2>2 DEF Drop, Handle
<1> QED BY <1>2, <1>3, <1>4 DEF FrameShape

\* when it checks the frame,
LEMMA CheckFacts ==
    ASSUME FrameShape, NEW w \in Workers, Check(w)
    PROVE  /\ at[w] = "check" /\ frame[w] \in Tasks
           /\ UNCHANGED <<reading, previous_frame, last_seq_no_expected, tasks, delivered,
                          serialize_next_seqno>>
           /\ \/ ItsTurn(frame[w]) /\ Handle(w, frame[w]) /\ UNCHANGED serialize_hash
              \/ Drop(w) /\ serialize_hash' \subseteq serialize_hash \cup {frame[w]}
           /\ FrameShape' /\ \A v \in Workers : v # w => at'[v] = at[v] /\ frame'[v] = frame[v]
<1>1. /\ at[w] = "check"
      /\ UNCHANGED <<sent, replied, coming, reading, previous_frame, last_seq_no_expected, tasks,
                     delivered, serialize_next_seqno>>
  BY DEF Check, peer
<1>2. frame[w] \in Tasks /\ at[w] # "idle"
  BY <1>1 DEF FrameShape
<1>3. \/ ItsTurn(frame[w]) /\ Handle(w, frame[w]) /\ UNCHANGED serialize_hash
      \/ Drop(w) /\ serialize_hash' \subseteq serialize_hash \cup {frame[w]}
  BY DEF Check
<1>4. serialize_hash' \subseteq Tasks /\ serialize_next_seqno' \in Nat
  BY <1>1, <1>2, <1>3 DEF FrameShape
<1> QED BY <1>1, <1>2, <1>3, <1>4, WorkerGoes

\* and when its handler returns.
LEMMA ReturnFacts ==
    ASSUME FrameShape, NEW w \in Workers, HandlerReturns(w)
    PROVE  /\ at[w] = "handler" /\ frame[w] \in Tasks
           /\ UNCHANGED <<reading, previous_frame, last_seq_no_expected, tasks, delivered>>
           /\ serialize => serialize_next_seqno' = frame[w].seqno + frame[w].size
           /\ \/ Drop(w) /\ serialize_hash' \subseteq serialize_hash
              \/ /\ serialize
                 /\ \E x \in serialize_hash :
                      /\ x.seqno = serialize_next_seqno' /\ Handle(w, x)
                      /\ serialize_hash' \subseteq serialize_hash \ {x}
           /\ FrameShape' /\ \A v \in Workers : v # w => at'[v] = at[v] /\ frame'[v] = frame[v]
<1>1. /\ at[w] = "handler"
      /\ UNCHANGED <<sent, replied, coming, reading, previous_frame, last_seq_no_expected, tasks,
                     delivered>>
  BY DEF HandlerReturns, peer
<1>2. frame[w] \in Tasks /\ at[w] # "idle" /\ serialize_hash \subseteq Tasks
  BY <1>1 DEF FrameShape
<1>3. CASE ~serialize
  <2>1. Drop(w) /\ UNCHANGED <<serialize_next_seqno, serialize_hash>>
    BY <1>3 DEF HandlerReturns, serial
  <2>2. serialize_next_seqno' \in Nat
    BY <2>1 DEF FrameShape
  <2> QED BY <1>1, <1>2, <1>3, <2>1, <2>2, WorkerGoes
<1>4. CASE serialize
  <2>1. PICK next, pending :
          /\ next = frame[w].seqno + frame[w].size
          /\ pending = {f \in serialize_hash : f.seqno = next}
          /\ serialize_next_seqno' = next /\ serialize_hash' = serialize_hash \ pending
          /\ IF pending = {} THEN Drop(w) ELSE Handle(w, CHOOSE f \in pending : TRUE)
    BY <1>4 DEF HandlerReturns, NextStored
  <2>2. next \in Nat
    BY <1>2, <2>1 DEF Tasks
  <2>3. CASE pending = {}
    BY <1>1, <1>2, <1>4, <2>1, <2>2, <2>3, WorkerGoes
  <2>4. CASE pending # {}
    <3>1. PICK x \in pending : Handle(w, x)
      BY <2>1, <2>4
    <3>2. x \in serialize_hash /\ x \in Tasks /\ x.seqno = next /\ serialize_hash' \subseteq serialize_hash \ {x}
      BY <1>2, <2>1, <3>1
    <3> QED BY <1>1, <1>2, <1>4, <2>1, <2>2, <3>1, <3>2, WorkerGoes
  <2> QED BY <2>3, <2>4
<1> QED BY <1>3, <1>4, DeliveryAssumption DEF DeliveryAssumption

\* The shapes of the frames, in every step.
LEMMA FrameShapeStep == FrameShape /\ Contiguous /\ [Next]_vars => FrameShape' /\ Contiguous'
<1> SUFFICES ASSUME FrameShape, Contiguous, [Next]_vars PROVE FrameShape' /\ Contiguous'
  OBVIOUS
<1>1. CASE UNCHANGED frameVars
  BY <1>1 DEF frameVars, FrameShape, Contiguous
<1>2. CASE Reader
  <2>1. tasks' \in Seq(Tasks) /\ delivered' \in Nat
    <3>1. CASE UNCHANGED <<tasks, delivered>>
      BY <3>1 DEF FrameShape
    <3>2. CASE NewTask /\ ~UNCHANGED <<tasks, delivered>>
      <4>1. PICK x \in Tasks : tasks' = Append(tasks, x) /\ delivered' = delivered + 1
        BY <3>2, NewTaskFacts
      <4> QED BY <4>1, AppendFacts DEF FrameShape
    <3> QED BY <1>2, <3>1, <3>2, ReaderStep
  <2> QED BY <1>2, <2>1, ReaderStep DEF FrameShape
<1>3. ASSUME NEW w \in Workers, Worker(w) PROVE FrameShape' /\ Contiguous'
  <2>1. FrameShape' /\ UNCHANGED <<reading, previous_frame, last_seq_no_expected>>
    BY <1>3, TakeFacts, CheckFacts, ReturnFacts DEF Worker
  <2> QED BY <2>1 DEF Contiguous
<1>4. ASSUME NEW c \in Calls, Send(c) PROVE FrameShape' /\ Contiguous'
  <2>1. /\ sent' = Append(sent, c)
        /\ UNCHANGED <<replied, coming, reading, previous_frame, last_seq_no_expected, tasks, at, frame,
                       serialize_next_seqno, serialize_hash, delivered, handled>>
    BY <1>4 DEF Send, pool, serial, hist
  <2>2. sent' \in Seq(Calls) /\ Len(sent') = Len(sent) + 1 /\ Len(sent) \in Nat
    BY <2>1, AppendProperties, LenProperties DEF FrameShape
  <2>3. replied' <= Len(sent') /\ (coming' = "RPY" => replied' < Len(sent'))
    BY <2>1, <2>2 DEF FrameShape
  <2> QED BY <2>1, <2>2, <2>3 DEF FrameShape, Contiguous
<1> QED BY <1>1, <1>2, <1>3, <1>4, OtherSteps

\* The order, in the steps of the reader,
LEMMA ReaderOrder ==
    ASSUME FrameShape, FrameShape', Contiguous, OrderInv, Reader, serialize, "empty" \notin irregular',
           irregular \subseteq irregular'
    PROVE  OrderInv'
<1>1. /\ \A i \in DOMAIN handled : handled[i] = i
      /\ Ordered(Outstanding, Handling, Len(handled), serialize_next_seqno, delivered, Start)
      /\ OnePlace
  BY DEF OrderInv
<1>2. /\ UNCHANGED <<at, frame, serialize_next_seqno, serialize_hash, handled>>
      /\ Start <= Start' /\ (NewTask \/ UNCHANGED <<tasks, delivered>>)
  BY ReaderStep
<1>3. Taken' = Taken /\ Handling' = Handling
  BY <1>2 DEF Taken, Handling
<1>4. /\ Start \in Nat /\ Len(handled) \in Nat /\ serialize_next_seqno \in Nat
      /\ delivered \in Nat /\ Outstanding \subseteq Tasks /\ Handling \subseteq Tasks
  BY OrderShape DEF FrameShape
<1>5. Start' \in Nat
  BY DEF FrameShape, Start, Frames
<1>6. CASE UNCHANGED <<tasks, delivered>>
  <2>1. Outstanding' = Outstanding
    BY <1>2, <1>3, <1>6 DEF Outstanding
  <2>2. Ordered(Outstanding, Handling, Len(handled), serialize_next_seqno, delivered, Start')
    BY <1>1, <1>2, <1>4, <1>5, FewerOrdered
  <2>3. OnePlace'
    BY <1>1, <1>2, <1>3, <1>6 DEF OnePlace
  <2> QED BY <1>1, <1>2, <1>3, <1>6, <2>1, <2>2, <2>3 DEF OrderInv
<1>7. CASE NewTask /\ ~UNCHANGED <<tasks, delivered>>
  <2>1. PICK x \in Tasks :
             /\ tasks' = Append(tasks, x) /\ x.id = delivered + 1 /\ delivered' = delivered + 1
             /\ x.seqno = Start /\ Start' = Start + x.size /\ 0 < x.size
    BY <1>7, NewTaskFacts
  <2>2. tasks \in Seq(Tasks) /\ Range(tasks') = Range(tasks) \cup {x}
    BY <2>1, AppendFacts DEF FrameShape
  <2>3. Outstanding' = Outstanding \cup {x}
    BY <1>2, <1>3, <2>2 DEF Outstanding
  <2>4. Ordered(Outstanding \cup {x}, Handling, Len(handled), serialize_next_seqno, delivered + 1, Start + x.size)
    BY <1>1, <1>4, <2>1, NewOrdered
  <2>5. \A f \in Outstanding : f \in Tasks /\ f.id < x.id
    BY <1>1, <1>4, <2>1 DEF Ordered, Tasks
  <2>6. ASSUME NEW i \in DOMAIN tasks', NEW j \in DOMAIN tasks', i < j
        PROVE  tasks'[i].id < tasks'[j].id
    <3>1. /\ DOMAIN tasks = 1 .. Len(tasks) /\ DOMAIN tasks' = 1 .. Len(tasks) + 1 /\ Len(tasks) \in Nat
          /\ \A k \in 1 .. Len(tasks) : tasks'[k] = tasks[k]
          /\ tasks'[Len(tasks) + 1] = x
      BY <2>1, <2>2, AppendProperties, LenProperties
    <3>2. i \in DOMAIN tasks
      BY <2>6, <3>1
    <3>3. CASE j \in DOMAIN tasks
      BY <1>1, <2>6, <3>1, <3>2, <3>3 DEF OnePlace
    <3>4. CASE j = Len(tasks) + 1
      <4>1. tasks[i] \in Outstanding
        BY <3>2 DEF Outstanding, Range
      <4> QED BY <2>5, <3>1, <3>2, <3>4, <4>1
    <3> QED BY <2>6, <3>1, <3>3, <3>4
  <2>7. \A f \in Taken \cup serialize_hash : \A g \in Range(tasks') : f.id < g.id
    BY <1>1, <2>2, <2>5 DEF OnePlace, Outstanding
  <2>8. OnePlace'
    BY <1>1, <1>2, <1>3, <2>6, <2>7 DEF OnePlace
  <2> QED BY <1>1, <1>2, <1>3, <2>1, <2>3, <2>4, <2>8 DEF OrderInv
<1> QED BY <1>2, <1>6, <1>7

\* and in those of the workers: when one takes a task,
LEMMA TakeOrder ==
    ASSUME FrameShape, OrderInv, NEW w \in Workers, Take(w), serialize, "empty" \notin irregular
    PROVE  OrderInv'
<1>1. /\ \A i \in DOMAIN handled : handled[i] = i
      /\ Ordered(Outstanding, Handling, Len(handled), serialize_next_seqno, delivered, Start)
      /\ OnePlace
  BY DEF OrderInv
<1>2. /\ tasks # <<>> /\ tasks' = Tail(tasks) /\ Head(tasks) \in Tasks
      /\ at[w] = "idle" /\ at'[w] = "check" /\ frame'[w] = Head(tasks)
      /\ \A v \in Workers : v # w => at'[v] = at[v] /\ frame'[v] = frame[v]
      /\ UNCHANGED <<serialize_hash, serialize_next_seqno, handled, delivered>>
      /\ UNCHANGED <<reading, previous_frame, last_seq_no_expected>>
  BY TakeFacts
<1>3. Start' = Start
  BY <1>2 DEF Start
<1>4. Handling' = Handling /\ Taken' = Taken \cup {Head(tasks)}
  BY <1>2 DEF Taken, Handling
<1>5. /\ DOMAIN tasks = 1 .. Len(tasks) /\ Len(tasks) \in Nat \ {0}
      /\ DOMAIN tasks' = 1 .. Len(tasks) - 1 /\ Head(tasks) = tasks[1]
      /\ \A i \in 1 .. Len(tasks) - 1 : tasks'[i] = tasks[i + 1]
  BY <1>2, HeadTailProperties, EmptySeq, LenProperties DEF FrameShape
<1>6. Range(tasks) = Range(tasks') \cup {Head(tasks)}
  <2>1. \A i \in 1 .. Len(tasks) : i = 1 \/ (i - 1 \in 1 .. Len(tasks) - 1 /\ (i - 1) + 1 = i)
    BY <1>5
  <2>2. 1 \in 1 .. Len(tasks) /\ \A i \in 1 .. Len(tasks) - 1 : i + 1 \in 1 .. Len(tasks)
    BY <1>5
  <2>3. Range(tasks) \subseteq Range(tasks') \cup {Head(tasks)}
    BY <1>5, <2>1 DEF Range
  <2>4. Range(tasks') \cup {Head(tasks)} \subseteq Range(tasks)
    BY <1>5, <2>2 DEF Range
  <2> QED BY <2>3, <2>4
<1>7. Outstanding' = Outstanding
  BY <1>2, <1>4, <1>6 DEF Outstanding
<1>8. \A g \in Range(tasks') : Head(tasks).id < g.id
  BY <1>1, <1>5 DEF OnePlace, Range
<1>9. \A f \in Taken \cup serialize_hash : f.id < Head(tasks).id
  BY <1>1, <1>6 DEF OnePlace
<1>10. /\ \A g \in Range(tasks) : g \in Tasks
       /\ \A f \in Taken \cup serialize_hash : f \in Tasks
  BY OrderShape DEF Outstanding
<1>11. OnePlace'
  <2>1. ASSUME NEW i \in DOMAIN tasks', NEW j \in DOMAIN tasks', i < j
        PROVE  tasks'[i].id < tasks'[j].id
    <3>1. i + 1 \in DOMAIN tasks /\ j + 1 \in DOMAIN tasks /\ i + 1 < j + 1
      BY <1>5, <2>1
    <3> QED BY <1>1, <1>5, <2>1, <3>1 DEF OnePlace
  <2>2. \A f \in Taken' \cup serialize_hash' : \A g \in Range(tasks') : f.id < g.id
    BY <1>1, <1>2, <1>4, <1>6, <1>8 DEF OnePlace
  <2>3. ASSUME NEW u \in Workers, NEW v \in Workers, at'[u] = "check", at'[v] = "check",
               frame'[u].id = frame'[v].id
        PROVE  u = v
    <3>1. \A z \in Workers : z # w /\ at'[z] = "check" => at[z] = "check" /\ frame'[z] = frame[z] /\ frame[z] \in Taken
      BY <1>2 DEF Taken
    <3>2. \A z \in Workers : z # w /\ at'[z] = "check" => frame'[z].id < Head(tasks).id /\ frame'[z] \in Tasks
      BY <1>9, <1>10, <3>1
    <3>3. \A z \in Workers : z # w /\ at'[z] = "check" => frame'[z].id # frame'[w].id
      BY <1>2, <3>2 DEF Tasks
    <3>4. CASE u # w /\ v # w
      BY <1>1, <2>3, <3>1, <3>4 DEF OnePlace
    <3> QED BY <2>3, <3>3, <3>4
  <2>4. \A f \in Taken' : \A g \in serialize_hash' : f.id # g.id
    <3>1. \A g \in serialize_hash : g.id # Head(tasks).id
      BY <1>2, <1>9, <1>10 DEF Tasks
    <3> QED BY <1>1, <1>2, <1>4, <3>1 DEF OnePlace
  <2>5. \A u, v \in Workers : at'[u] = "handler" /\ at'[v] = "handler" => u = v
    BY <1>1, <1>2 DEF OnePlace
  <2> QED BY <2>1, <2>2, <2>3, <2>4, <2>5 DEF OnePlace
<1> QED BY <1>1, <1>2, <1>3, <1>4, <1>7, <1>11 DEF OrderInv

\* checks one,
LEMMA CheckOrder ==
    ASSUME FrameShape, OrderInv, NEW w \in Workers, Check(w), serialize, "empty" \notin irregular
    PROVE  OrderInv'
<1>1. /\ \A i \in DOMAIN handled : handled[i] = i
      /\ Ordered(Outstanding, Handling, Len(handled), serialize_next_seqno, delivered, Start)
      /\ OnePlace
  BY DEF OrderInv
<1>2. /\ at[w] = "check" /\ frame[w] \in Tasks
      /\ UNCHANGED <<reading, previous_frame, last_seq_no_expected, tasks, delivered, serialize_next_seqno>>
      /\ \A v \in Workers : v # w => at'[v] = at[v] /\ frame'[v] = frame[v]
      /\ at \in [Workers -> {"idle", "check", "handler"}] /\ frame \in [Workers -> Tasks \cup {None}]
  BY CheckFacts DEF FrameShape
<1>3. Start' = Start /\ frame[w] \in Taken
  BY <1>2 DEF Start, Taken
<1>4. /\ Start \in Nat /\ Len(handled) \in Nat /\ serialize_next_seqno \in Nat
      /\ delivered \in Nat /\ Outstanding \subseteq Tasks /\ Handling \subseteq Tasks
  BY OrderShape DEF FrameShape
<1>5. ASSUME NEW v \in Workers, v # w, at[v] = "check" PROVE frame[v].id # frame[w].id
  BY <1>1, <1>2, <1>5 DEF OnePlace
<1>6. CASE ItsTurn(frame[w]) /\ Handle(w, frame[w]) /\ UNCHANGED serialize_hash
  <2>1. /\ at'[w] = "handler" /\ frame'[w] = frame[w] /\ handled' = Append(handled, frame[w].id)
        /\ frame[w].seqno = serialize_next_seqno
    BY <1>2, <1>6 DEF Handle, ItsTurn
  <2>2. Taken' \subseteq Taken /\ \A f \in Taken' : f.id # frame[w].id
    <3>1. \A v \in Workers : at'[v] = "check" => v # w /\ at[v] = "check" /\ frame'[v] = frame[v]
      BY <1>2, <2>1
    <3>2. Taken' \subseteq Taken
      BY <3>1 DEF Taken
    <3> QED BY <1>5, <3>1, <3>2 DEF Taken
  <2>3. Outstanding' \subseteq Outstanding /\ frame[w] \in Outstanding
    BY <1>2, <1>3, <1>6, <2>2 DEF Outstanding
  <2>4. frame[w] \notin Outstanding'
    <3>1. frame[w] \notin Taken'
      BY <2>2
    <3>2. frame[w] \notin serialize_hash
      BY <1>1, <1>3 DEF OnePlace
    <3>3. frame[w] \notin Range(tasks)
      <4>1. \A g \in Range(tasks) : frame[w].id < g.id
        BY <1>1, <1>3 DEF OnePlace
      <4>2. ~(frame[w].id < frame[w].id)
        BY <1>2 DEF Tasks
      <4> QED BY <4>1, <4>2
    <3> QED BY <1>2, <1>6, <3>1, <3>2, <3>3 DEF Outstanding
  <2>5. /\ Handling = {} /\ frame[w].id = Len(handled) + 1
        /\ Ordered(Outstanding', {frame[w]}, Len(handled) + 1, serialize_next_seqno, delivered, Start)
    <3>1. PICK x \in Outstanding : x = frame[w] /\ x.seqno = serialize_next_seqno /\ x \notin Outstanding'
      BY <2>1, <2>3, <2>4
    <3>2. /\ Handling = {} /\ x.id = Len(handled) + 1
          /\ Ordered(Outstanding', Alone(x), x.id, serialize_next_seqno, delivered, Start)
      BY <1>1, <1>4, <2>3, <3>1, HandledOrdered
    <3> QED BY <3>1, <3>2 DEF Alone
  <2>6. \A v \in Workers : at[v] # "handler"
    BY <2>5 DEF Handling
  <2>7. Handling' = {frame[w]}
    BY <1>2, <2>1, <2>6 DEF Handling
  <2>8. Len(handled') = Len(handled) + 1 /\ \A i \in DOMAIN handled' : handled'[i] = i
    <3>1. handled \in Seq(Nat) /\ frame[w].id \in Nat
      BY <1>2 DEF FrameShape, Tasks
    <3>2. /\ DOMAIN handled = 1 .. Len(handled) /\ DOMAIN handled' = 1 .. Len(handled) + 1
          /\ Len(handled') = Len(handled) + 1
          /\ \A i \in 1 .. Len(handled) : handled'[i] = handled[i]
          /\ handled'[Len(handled) + 1] = frame[w].id
      BY <2>1, <3>1, AppendProperties, LenProperties
    <3>3. \A i \in 1 .. Len(handled) + 1 : i \in 1 .. Len(handled) \/ i = Len(handled) + 1
      BY <1>4
    <3> QED BY <1>1, <2>5, <3>2, <3>3
  <2>9. OnePlace'
    <3>1. \A u, v \in Workers : at'[u] = "check" /\ at'[v] = "check" /\ frame'[u].id = frame'[v].id => u = v
      BY <1>1, <1>2, <2>1 DEF OnePlace
    <3>2. \A u, v \in Workers : at'[u] = "handler" /\ at'[v] = "handler" => u = v
      BY <1>2, <2>6
    <3> QED BY <1>1, <1>2, <1>6, <2>2, <3>1, <3>2 DEF OnePlace
  <2> QED BY <1>2, <1>3, <2>5, <2>7, <2>8, <2>9 DEF OrderInv
<1>7. CASE Drop(w) /\ serialize_hash' \subseteq serialize_hash \cup {frame[w]}
  <2>1. at'[w] = "idle" /\ handled' = handled
    BY <1>2, <1>7 DEF Drop
  <2>2. /\ Taken' \subseteq Taken /\ Handling' = Handling
        /\ \A f \in Taken' : f.id # frame[w].id
    BY <1>2, <1>5, <2>1 DEF Taken, Handling
  <2>3. Outstanding' \subseteq Outstanding
    BY <1>2, <1>3, <1>7, <2>2 DEF Outstanding
  <2>4. Ordered(Outstanding', Handling, Len(handled), serialize_next_seqno, delivered, Start)
    BY <1>1, <1>4, <2>3, FewerOrdered
  <2>5. OnePlace'
    <3>1. \A f \in Taken' \cup serialize_hash' : f \in Taken \cup serialize_hash
      BY <1>3, <1>7, <2>2
    <3>2. \A u, v \in Workers : at'[u] = "check" /\ at'[v] = "check" /\ frame'[u].id = frame'[v].id => u = v
      BY <1>1, <1>2, <2>1 DEF OnePlace
    <3>3. \A u, v \in Workers : at'[u] = "handler" /\ at'[v] = "handler" => u = v
      BY <1>1, <1>2, <2>1 DEF OnePlace
    <3>4. \A f \in Taken' : \A g \in serialize_hash' : f.id # g.id
      BY <1>1, <1>7, <2>2 DEF OnePlace
    <3> QED BY <1>1, <1>2, <3>1, <3>2, <3>3, <3>4 DEF OnePlace
  <2> QED BY <1>1, <1>2, <1>3, <2>1, <2>2, <2>4, <2>5 DEF OrderInv
<1> QED BY <1>6, <1>7, CheckFacts

\* and when its handler returns.
LEMMA ReturnOrder ==
    ASSUME FrameShape, OrderInv, NEW w \in Workers, HandlerReturns(w), serialize, "empty" \notin irregular
    PROVE  OrderInv'
<1>1. /\ \A i \in DOMAIN handled : handled[i] = i
      /\ Ordered(Outstanding, Handling, Len(handled), serialize_next_seqno, delivered, Start)
      /\ OnePlace
  BY DEF OrderInv
<1>2. /\ at[w] = "handler" /\ frame[w] \in Tasks
      /\ UNCHANGED <<reading, previous_frame, last_seq_no_expected, tasks, delivered>>
      /\ serialize_next_seqno' = frame[w].seqno + frame[w].size
      /\ \A v \in Workers : v # w => at'[v] = at[v] /\ frame'[v] = frame[v]
      /\ at \in [Workers -> {"idle", "check", "handler"}] /\ frame \in [Workers -> Tasks \cup {None}]
  BY ReturnFacts DEF FrameShape
<1>3. Start' = Start /\ frame[w] \in Handling
  BY <1>2 DEF Start, Handling
<1>4. /\ Start \in Nat /\ Len(handled) \in Nat /\ serialize_next_seqno \in Nat
      /\ delivered \in Nat /\ Outstanding \subseteq Tasks /\ Handling \subseteq Tasks
  BY OrderShape DEF FrameShape
<1>5. \A v \in Workers : v # w => at'[v] # "handler"
  BY <1>1, <1>2 DEF OnePlace
<1>6. Ordered(Outstanding, {}, Len(handled), serialize_next_seqno', delivered, Start)
  BY <1>1, <1>2, <1>3, <1>4, ReturnedOrdered
<1>7. serialize_next_seqno' \in Nat
  BY <1>2 DEF Tasks
<1>8. ASSUME at'[w] # "check", serialize_hash' \subseteq serialize_hash
      PROVE  Taken' = Taken /\ Outstanding' \subseteq Outstanding /\ OnePlace'
  <2>1. Taken' = Taken
    BY <1>2, <1>8 DEF Taken
  <2>2. Outstanding' \subseteq Outstanding
    BY <1>2, <1>8, <2>1 DEF Outstanding
  <2>3. \A u, v \in Workers : at'[u] = "check" /\ at'[v] = "check" /\ frame'[u].id = frame'[v].id => u = v
    BY <1>1, <1>2, <1>8 DEF OnePlace
  <2>4. \A u, v \in Workers : at'[u] = "handler" /\ at'[v] = "handler" => u = v
    BY <1>5
  <2> QED BY <1>1, <1>2, <1>8, <2>1, <2>2, <2>3, <2>4 DEF OnePlace
<1>9. CASE Drop(w) /\ serialize_hash' \subseteq serialize_hash
  <2>1. at'[w] = "idle" /\ handled' = handled
    BY <1>2, <1>9 DEF Drop
  <2>2. Outstanding' \subseteq Outstanding /\ OnePlace'
    BY <1>8, <1>9, <2>1
  <2>3. Handling' = {}
    BY <1>5, <2>1 DEF Handling
  <2>4. Ordered(Outstanding', {}, Len(handled), serialize_next_seqno', delivered, Start)
    BY <1>4, <1>6, <1>7, <2>2, FewerOrdered
  <2> QED BY <1>1, <1>2, <1>3, <2>1, <2>2, <2>3, <2>4 DEF OrderInv
<1>10. ASSUME NEW x \in serialize_hash, x.seqno = serialize_next_seqno', Handle(w, x),
              serialize_hash' \subseteq serialize_hash \ {x}
       PROVE  OrderInv'
  <2>1. at'[w] = "handler" /\ frame'[w] = x /\ handled' = Append(handled, x.id)
    BY <1>2, <1>10 DEF Handle
  <2>2. Taken' = Taken /\ Outstanding' \subseteq Outstanding /\ OnePlace'
    BY <1>8, <1>10, <2>1
  <2>3. x \in Outstanding /\ x \in Tasks
    BY <1>4 DEF Outstanding
  <2>4. x \notin Outstanding'
    <3>1. x \notin Taken
      BY <1>1 DEF OnePlace
    <3>2. x \notin Range(tasks)
      <4>1. \A g \in Range(tasks) : x.id < g.id
        BY <1>1 DEF OnePlace
      <4>2. ~(x.id < x.id)
        BY <2>3 DEF Tasks
      <4> QED BY <4>1, <4>2
    <3> QED BY <1>2, <1>10, <2>2, <3>1, <3>2 DEF Outstanding
  <2>5. /\ x.id = Len(handled) + 1
        /\ Ordered(Outstanding', {x}, Len(handled) + 1, serialize_next_seqno', delivered, Start)
    <3>1. /\ x.id = Len(handled) + 1
          /\ Ordered(Outstanding', Alone(x), x.id, serialize_next_seqno', delivered, Start)
      BY <1>4, <1>6, <1>7, <1>10, <2>2, <2>3, <2>4, HandledOrdered
    <3> QED BY <3>1 DEF Alone
  <2>6. Handling' = {x}
    BY <1>5, <2>1 DEF Handling
  <2>7. Len(handled') = Len(handled) + 1 /\ \A i \in DOMAIN handled' : handled'[i] = i
    <3>1. handled \in Seq(Nat) /\ x.id \in Nat
      BY <2>3 DEF FrameShape, Tasks
    <3>2. /\ DOMAIN handled = 1 .. Len(handled) /\ DOMAIN handled' = 1 .. Len(handled) + 1
          /\ Len(handled') = Len(handled) + 1
          /\ \A i \in 1 .. Len(handled) : handled'[i] = handled[i]
          /\ handled'[Len(handled) + 1] = x.id
      BY <2>1, <3>1, AppendProperties, LenProperties
    <3>3. \A i \in 1 .. Len(handled) + 1 : i \in 1 .. Len(handled) \/ i = Len(handled) + 1
      BY <1>4
    <3> QED BY <1>1, <2>5, <3>2, <3>3
  <2> QED BY <1>2, <1>3, <2>2, <2>5, <2>6, <2>7 DEF OrderInv
<1> QED BY <1>9, <1>10, ReturnFacts

\* Every step keeps the shapes and the order ...
LEMMA OrderStep ==
    FrameShape /\ Contiguous /\ OrderInv /\ [Next]_vars => FrameShape' /\ Contiguous' /\ OrderInv'
<1> SUFFICES ASSUME FrameShape, Contiguous, OrderInv, [Next]_vars
             PROVE  FrameShape' /\ Contiguous' /\ OrderInv'
  OBVIOUS
<1>1. FrameShape' /\ Contiguous' /\ irregular \subseteq irregular'
  BY FrameShapeStep, IrregularStays
<1>2. ASSUME serialize, "empty" \notin irregular', UNCHANGED frameVars \/ \E c \in Calls : Send(c)
      PROVE  OrderInv'
  <2>1. UNCHANGED <<reading, previous_frame, last_seq_no_expected, tasks, at, frame,
                    serialize_next_seqno, serialize_hash, delivered, handled>>
    BY <1>2 DEF frameVars, Send, pool, serial, hist
  <2>2. /\ Taken' = Taken /\ Handling' = Handling /\ Start' = Start
        /\ Outstanding' = Outstanding
    BY <2>1 DEF Taken, Handling, Outstanding, Start
  <2> QED BY <1>1, <1>2, <2>1, <2>2 DEF OrderInv, OnePlace
<1>3. CASE serialize /\ "empty" \notin irregular'
  <2>1. "empty" \notin irregular
    BY <1>1, <1>3
  <2>2. ASSUME NEW w \in Workers, Worker(w) PROVE OrderInv'
    BY <1>3, <2>1, <2>2, TakeOrder, CheckOrder, ReturnOrder DEF Worker
  <2>3. CASE Reader
    BY <1>1, <1>3, <2>3, ReaderOrder
  <2> QED BY <1>1, <1>2, <1>3, <2>2, <2>3, OtherSteps
<1>4. CASE ~(serialize /\ "empty" \notin irregular')
  BY <1>1, <1>4 DEF OrderInv
<1> QED BY <1>1, <1>3, <1>4

\* ... which hold throughout.
LEMMA OrderInvariant == Spec => [](FrameShape /\ Contiguous /\ OrderInv)
<1>1. Init => FrameShape /\ Contiguous /\ OrderInv
  <2> SUFFICES ASSUME Init PROVE FrameShape /\ Contiguous /\ OrderInv
    OBVIOUS
  <2>1. /\ at = [w \in Workers |-> "idle"] /\ frame = [w \in Workers |-> None]
        /\ tasks = <<>> /\ serialize_hash = {} /\ handled = <<>>
        /\ reading = None /\ previous_frame = None /\ last_seq_no_expected = 0
        /\ serialize_next_seqno = 0 /\ delivered = 0 /\ sent = <<>> /\ replied = 0 /\ coming = None
    BY DEF Init
  <2>2. (\A S : <<>> \in Seq(S)) /\ Len(<<>>) = 0 /\ None # "RPY"
    BY EmptySeq, DeliveryAssumption DEF DeliveryAssumption
  <2>3. FrameShape /\ Contiguous
    BY <2>1, <2>2 DEF FrameShape, Contiguous
  <2>4. Outstanding = {} /\ Handling = {} /\ Taken = {} /\ Start = 0 /\ DOMAIN handled = {} /\ DOMAIN tasks = {}
    BY <2>1, EmptyFacts DEF Outstanding, Handling, Taken, Start
  <2>5. Ordered({}, {}, 0, 0, 0, 0)
    BY DEF Ordered
  <2>6. OnePlace
    BY <2>1, <2>4, EmptyFacts DEF OnePlace
  <2> QED BY <2>1, <2>2, <2>3, <2>4, <2>5, <2>6 DEF OrderInv
<1> QED BY <1>1, OrderStep, PTL DEF Spec

\* The frame received handler of a serialized channel gets the frames one at a time and in
\* the order they came, whatever thread of the pool has each of them: the comparison with
\* serialize_next_seqno in vortex_channel_check_serialize is enough, unless a frame is empty.
THEOREM HandledInOrder == Spec => []Serialized
<1>1. FrameShape /\ OrderInv => Serialized
  <2> SUFFICES ASSUME OrderInv, serialize, "empty" \notin irregular
               PROVE  /\ \A i \in DOMAIN handled : handled[i] = i
                      /\ Cardinality({w \in Workers : at[w] = "handler"}) <= 1
    BY DEF Serialized
  <2> DEFINE H == {w \in Workers : at[w] = "handler"}
  <2>1. \A w, v \in H : w = v
    BY DEF OrderInv, OnePlace
  <2>2. Cardinality(H) <= 1
    <3>1. CASE H = {}
      BY <3>1, FS_EmptySet
    <3>2. CASE H # {}
      <4>1. PICK w : H = {w}
        BY <2>1, <3>2
      <4> HIDE DEF H
      <4>2. Cardinality(H) = 1
        BY <4>1, FS_Singleton
      <4> QED BY <4>2
    <3> QED BY <3>1, <3>2
  <2> QED BY <2>2 DEF OrderInv
<1> QED BY <1>1, OrderInvariant, PTL
=============================================================================
