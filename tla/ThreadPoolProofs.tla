--------------------------- MODULE ThreadPoolProofs ---------------------------
(***************************************************************************)
(* Proofs about ThreadPool for any number of threads, tasks and events.    *)
(***************************************************************************)
EXTENDS ThreadPool, FiniteSetTheorems, FunctionTheorems, SequenceTheorems, TLAPS

\* The assumptions as the proofs use them.
LEMMA PoolFacts ==
    /\ Initial \subseteq Workers /\ Initial # {} /\ Nobody \notin Workers /\ Nobody \notin Events
    /\ IsFiniteSet(Workers) /\ Queues = {"pool"}
    /\ Tasks \cap {"finish", "stop", "collect", "timeout"} = {}
    /\ thread_add_step \in Nat \ {0} /\ thread_remove_step \in Nat \ {0}
BY PoolAssumption DEF PoolAssumption

-----------------------------------------------------------------------------
(* Types *)

\* Every variable has the shape of the field, list or place it stands for.
LEMMA TypeStart == Init => TypeOK
<1> SUFFICES ASSUME Init PROVE TypeOK
  OBVIOUS
<1>1. <<>> \in Seq(Tasks \cup Beacons) /\ <<>> \in Seq(Workers)
  OBVIOUS
<1> QED BY <1>1, PoolFacts DEF Init, QueueInit, TypeOK, Places, Irregularities

\* Pushing an item keeps the shape of the queue.
LEMMA PushType ==
    ASSUME TypeOK, NEW it \in Tasks \cup Beacons, Push("pool", it)
    PROVE  /\ data' \in [Queues -> Seq(Tasks \cup Beacons)]
           /\ waiters' \in [Queues -> Nat] /\ asleep' \in [Queues -> SUBSET Workers]
BY PoolFacts DEF TypeOK, Push, Signal

\* Threads are finitely many.
LEMMA Finite == ASSUME NEW S \in SUBSET Workers PROVE IsFiniteSet(S) /\ Cardinality(S) \in Nat
BY PoolFacts, FS_Subset, FS_CardinalityType

\* vortex_thread_pool_remove asks at most for all threads but one, wakes one thread for
\* each beacon or all that sleep, and keeps the shape of the queue.
LEMMA AskFacts ==
    ASSUME TypeOK, NEW n \in Nat, AskToStop(n)
    PROVE  \E count \in Nat, S \in SUBSET asleep["pool"] :
              /\ count < Cardinality(threads)
              /\ Cardinality(S) = count \/ S = asleep["pool"]
              /\ [i \in 1..count |-> "stop"] \in Seq({"stop"})
              /\ data' = [data EXCEPT !["pool"] = @ \o [i \in 1..count |-> "stop"]]
              /\ asleep' = [asleep EXCEPT !["pool"] = @ \ S]
              /\ waiters' = waiters
              /\ irregular \subseteq irregular' /\ irregular' \subseteq Irregularities
              /\ "overlapped" \in irregular' \/ count = 0 \/ ~StopsPending
<1> DEFINE count == IF n < Cardinality(threads) THEN n ELSE Cardinality(threads) - 1
<1>1. Cardinality(threads) \in Nat
  BY Finite DEF TypeOK
<1>2. PICK S \in SUBSET asleep["pool"] :
          /\ Cardinality(S) = count \/ (S = asleep["pool"] /\ Cardinality(S) < count)
          /\ asleep' = [asleep EXCEPT !["pool"] = @ \ S]
  BY DEF AskToStop
<1>3. Cardinality(S) \in Nat
  BY Finite, PoolFacts DEF TypeOK
<1>4. count \in Nat /\ count < Cardinality(threads)
  BY <1>1, <1>2, <1>3
<1>5. /\ data' = [data EXCEPT !["pool"] = @ \o [i \in 1..count |-> "stop"]]
      /\ waiters' = waiters
      /\ Note("overlapped", count > 0 /\ StopsPending)
  BY DEF AskToStop
<1>6. [i \in 1..count |-> "stop"] \in Seq({"stop"})
  BY <1>4
<1> HIDE DEF count
<1>7. irregular \subseteq irregular' /\ irregular' \subseteq Irregularities
  BY <1>5 DEF Note, TypeOK, Irregularities
<1>8. ASSUME count # 0, StopsPending PROVE "overlapped" \in irregular'
  BY <1>4, <1>5, <1>8 DEF Note
<1> QED BY <1>8, <1>2, <1>4, <1>5, <1>6, <1>7

\* Beacons to stop keep it.
LEMMA AskType ==
    ASSUME TypeOK, NEW n \in Nat, AskToStop(n)
    PROVE  /\ data' \in [Queues -> Seq(Tasks \cup Beacons)]
           /\ waiters' \in [Queues -> Nat] /\ asleep' \in [Queues -> SUBSET Workers]
           /\ irregular' \subseteq Irregularities
<1>1. PICK count \in Nat, S \in SUBSET asleep["pool"] :
              /\ [i \in 1..count |-> "stop"] \in Seq({"stop"})
              /\ data' = [data EXCEPT !["pool"] = @ \o [i \in 1..count |-> "stop"]]
              /\ asleep' = [asleep EXCEPT !["pool"] = @ \ S]
              /\ waiters' = waiters
              /\ irregular' \subseteq Irregularities
  BY AskFacts
<1>2. [i \in 1..count |-> "stop"] \in Seq(Tasks \cup Beacons)
  BY <1>1 DEF Beacons
<1>3. data["pool"] \in Seq(Tasks \cup Beacons)
  BY PoolFacts DEF TypeOK
<1>4. data["pool"] \o [i \in 1..count |-> "stop"] \in Seq(Tasks \cup Beacons)
  BY <1>2, <1>3
<1> QED BY <1>1, <1>4, PoolFacts DEF TypeOK

-----------------------------------------------------------------------------
(* What the waiters and the events of the pool are at every step *)

\* The queue counts the threads that wait in it, and those that sleep are among them.
WaitSet == {w \in Workers : pc[w] = "wait"}
QueueInv ==
    /\ waiters["pool"] = Cardinality(WaitSet)
    /\ asleep["pool"] \subseteq WaitSet
    /\ asleep["pool"] # {} => Len(data["pool"]) <= waiters["pool"] - Cardinality(asleep["pool"])

\* One thread is among the events, the only one that may call a handler, and an event
\* has a reference for the list and one for the call.
AtEvents(w) == pc[w] \in {"next event", "call event"}
Called(e) == \E w \in Workers : calling[w] = e
CallInv == \A w \in Workers : calling[w] # Nobody <=> pc[w] = "call event"
ProcessingInv ==
    \A w \in Workers : AtEvents(w) =>
        processing_events /\ \A v \in Workers : AtEvents(v) => v = w
RefInv ==
    \A e \in Events :
        /\ e \in events => ref_count[e] >= 1
        /\ Called(e) => ref_count[e] >= 1
        /\ e \in events /\ Called(e) => ref_count[e] >= 2
EventInv == CallInv /\ ProcessingInv /\ RefInv

\* What vortex_thread_pool_add starts are threads.
LEMMA AddType ==
    ASSUME TypeOK, NEW n \in Nat, AddThreads(n), NEW w \in Workers \cup {Nobody},
           pc' = NewThreads(w)
    PROVE  threads' \subseteq Workers /\ pc' \in [Workers -> Places]
BY DEF TypeOK, AddThreads, NewThreads, AfterResize, Places

\* What a thread pops says where it goes.
LEMMA GotType ==
    ASSUME TypeOK, NEW w \in Workers, NEW it, Got(w, it)
    PROVE  pc' \in [Workers -> Places] /\ item' \in [Workers -> Tasks \cup {"timeout"}]
<1>1. item' \in [Workers -> Tasks \cup {"timeout"}]
  BY DEF TypeOK, Got
<1>2. pc' \in [Workers -> Places]
  BY DEF TypeOK, Got, GoTo, Places
<1> QED BY <1>1, <1>2

\* It goes neither to sleep nor to the events.
LEMMA GotPlace ==
    ASSUME NEW w \in Workers, NEW it, Got(w, it)
    PROVE  \E place \in {"events", "stop", "collect", "ended", "resize", "run"} :
              /\ pc' = [pc EXCEPT ![w] = place]
              /\ place = "stop" <=> it = "stop"
              /\ place = "collect" => it = "collect"
<1> DEFINE place == CASE it = "timeout" -> "events"
                      [] it \in {"stop", "collect"} -> it
                      [] it = "finish" -> "ended"
                      [] OTHER -> IF preemtive THEN "resize" ELSE "run"
<1>1. pc' = [pc EXCEPT ![w] = place]
  BY DEF Got, GoTo
<1>2. /\ place \in {"events", "stop", "collect", "ended", "resize", "run"}
      /\ place = "stop" <=> it = "stop"
      /\ place = "collect" => it = "collect"
  OBVIOUS
<1> QED BY <1>1, <1>2

\* A thread that waits is counted.
LEMMA WaiterCounted ==
    ASSUME TypeOK, QueueInv, NEW w \in Workers, pc[w] = "wait"
    PROVE  waiters["pool"] \in Nat \ {0}
<1>1. IsFiniteSet(WaitSet) /\ w \in WaitSet
  BY Finite DEF WaitSet
<1>2. Cardinality(WaitSet) # 0
  BY <1>1, FS_EmptySet
<1> QED BY <1>1, <1>2, Finite DEF QueueInv, WaitSet

\* Taking an item keeps the shape of the queue.
LEMMA TakeType ==
    ASSUME TypeOK, NEW it, TakeItem("pool", it)
    PROVE  data' \in [Queues -> Seq(Tasks \cup Beacons)] /\ it \in Tasks \cup Beacons
<1>1. data["pool"] \in Seq(Tasks \cup Beacons) /\ data["pool"] # <<>>
  BY PoolFacts DEF TypeOK, TakeItem
<1>2. Head(data["pool"]) \in Tasks \cup Beacons /\ Tail(data["pool"]) \in Seq(Tasks \cup Beacons)
  BY <1>1
<1> QED BY <1>2 DEF TakeItem, TypeOK

\* A handler that returned gives back its reference, and that of the list if it removes
\* the event from it.
LEMMA Returned ==
    ASSUME TypeOK, EventInv, NEW w \in Workers, EventRemoved(w) \/ EventKept(w)
    PROVE  \E e \in Events, n \in Nat :
              /\ pc[w] = "call event" /\ pc' = [pc EXCEPT ![w] = "next event"]
              /\ calling[w] = e /\ calling' = [calling EXCEPT ![w] = Nobody]
              /\ ref_count' = [ref_count EXCEPT ![e] = n]
              /\ \/ n = ref_count[e] - 1 /\ events' = events
                 \/ n = ref_count[e] - 2 /\ e \in events /\ events' = events \ {e}
<1>1. PICK e \in Events : calling[w] = e /\ pc[w] = "call event"
  BY DEF EventRemoved, EventKept, EventInv, CallInv, TypeOK
<1>2. /\ ref_count[e] \in Nat /\ ref_count[e] >= 1
      /\ e \in events => ref_count[e] >= 2
  BY <1>1 DEF EventInv, RefInv, Called, TypeOK
<1>3. pc' = [pc EXCEPT ![w] = "next event"] /\ calling' = [calling EXCEPT ![w] = Nobody]
  BY DEF EventRemoved, EventKept, GoTo
<1>4. CASE EventRemoved(w) /\ e \in events
  <2>1. ref_count' = [ref_count EXCEPT ![e] = ref_count[e] - 2] /\ events' = events \ {e}
    BY <1>1, <1>4 DEF EventRemoved
  <2>2. ref_count[e] - 2 \in Nat
    BY <1>2, <1>4
  <2> WITNESS e \in Events, ref_count[e] - 2 \in Nat
  <2> QED BY <1>1, <1>3, <1>4, <2>1
<1>5. CASE EventKept(w) \/ (EventRemoved(w) /\ e \notin events)
  <2>1. ref_count' = [ref_count EXCEPT ![e] = ref_count[e] - 1] /\ events' = events
    BY <1>1, <1>5 DEF EventRemoved, EventKept
  <2>2. ref_count[e] - 1 \in Nat
    BY <1>2
  <2> WITNESS e \in Events, ref_count[e] - 1 \in Nat
  <2> QED BY <1>1, <1>3, <2>1
<1> QED BY <1>4, <1>5

\* Every step keeps the shapes: a counter is only taken from what was counted before.
LEMMA TypeStep == TypeOK /\ QueueInv /\ EventInv /\ [Next]_vars => TypeOK'
<1> SUFFICES ASSUME TypeOK, QueueInv, EventInv, [Next]_vars PROVE TypeOK'
  OBVIOUS
<1> USE PoolFacts
<1>1. ASSUME NEW w \in Workers, Pop(w) PROVE TypeOK'
  <2>1. CASE \E it \in Tasks \cup Beacons : PopAtOnce("pool", it) /\ Got(w, it)
    BY <1>1, <2>1, TakeType, GotType
       DEF Pop, PopAtOnce, TypeOK, lists, config, evs, ending
  <2>2. CASE PopWait("pool", w) /\ GoTo(w, "wait") /\ UNCHANGED item
    <3>1. /\ waiters' \in [Queues -> Nat] /\ asleep' \in [Queues -> SUBSET Workers]
          /\ data' = data
      BY <2>2 DEF PopWait, TypeOK
    <3>2. pc' \in [Workers -> Places]
      BY <2>2 DEF GoTo, TypeOK, Places
    <3> QED BY <1>1, <2>2, <3>1, <3>2 DEF Pop, TypeOK, lists, config, evs, ending
  <2> QED BY <1>1, <2>1, <2>2 DEF Pop
<1>2. ASSUME NEW w \in Workers, Wake(w) PROVE TypeOK'
  <2>1. waiters["pool"] \in Nat \ {0}
    BY <1>2, WaiterCounted DEF Wake
  <2>2. CASE \E it \in Tasks \cup Beacons : PopWoken("pool", w, it) /\ Got(w, it)
    BY <1>2, <2>1, <2>2, TakeType, GotType
       DEF Wake, PopWoken, Leave, TypeOK, lists, config, evs, ending
  <2>3. CASE PopNothing("pool", w) /\ Got(w, "timeout")
    BY <1>2, <2>1, <2>3, GotType
       DEF Wake, PopNothing, Leave, TypeOK, lists, config, evs, ending
  <2> QED BY <1>2, <2>2, <2>3 DEF Wake
<1>3. ASSUME NEW w \in Workers, RunTask(w) \/ SkipTask(w) PROVE TypeOK'
  BY <1>3 DEF RunTask, SkipTask, TaskDone, GoTo, TypeOK, Places,
              queueVars, lists, config, evs, ending
<1>4. ASSUME NEW w \in Workers, Unlink(w) PROVE TypeOK'
  <2>1. stopped' \in Seq(Workers)
    BY <1>4 DEF Unlink, TypeOK
  <2> QED BY <1>4, <2>1 DEF Unlink, GoTo, TypeOK, Places, queueVars, config, evs, ending
<1>5. ASSUME NEW w \in Workers, AskCollect(w) PROVE TypeOK'
  BY <1>5, PushType DEF AskCollect, GoTo, TypeOK, Places, Beacons, lists, config, evs, ending
<1>6. ASSUME NEW w \in Workers, Join(w) PROVE TypeOK'
  <2>1. stopped' \in Seq(Workers)
    BY <1>6 DEF Join, TypeOK
  <2>2. pc' \in [Workers -> Places]
    BY <1>6 DEF Join, TypeOK, Places
  <2> QED BY <1>6, <2>1, <2>2 DEF Join, TypeOK, queueVars, config, evs, ending
<1>7. ASSUME NEW w \in Workers, ProcessEvents(w) PROVE TypeOK'
  BY <1>7 DEF ProcessEvents, AfterEvents, GoTo, TypeOK, Places, queueVars, lists, config, ending
<1>8. ASSUME NEW w \in Workers, NEW e \in Events, EventDue(w, e) PROVE TypeOK'
  <2>1. ref_count[e] + 1 \in Nat
    BY DEF TypeOK
  <2>3. ref_count' \in [Events -> Nat]
    BY <1>8, <2>1 DEF EventDue, TypeOK
  <2>4. calling' \in [Workers -> Events \cup {Nobody}]
    BY <1>8 DEF EventDue, TypeOK
  <2>2. pc' \in [Workers -> Places]
    BY <1>8 DEF EventDue, GoTo, TypeOK, Places
  <2> QED BY <1>8, <2>2, <2>3, <2>4 DEF EventDue, TypeOK, queueVars, lists, config, ending
<1>9. ASSUME NEW w \in Workers, EventRemoved(w) \/ EventKept(w) PROVE TypeOK'
  <2>1. PICK e \in Events, n \in Nat :
           /\ pc' = [pc EXCEPT ![w] = "next event"]
           /\ ref_count' = [ref_count EXCEPT ![e] = n]
    BY <1>9, Returned
  <2>2. ref_count' \in [Events -> Nat] /\ pc' \in [Workers -> Places]
    BY <2>1 DEF TypeOK, Places
  <2> QED BY <1>9, <2>2 DEF EventRemoved, EventKept, TypeOK, queueVars, lists, config, ending
<1>10. ASSUME NEW w \in Workers, EventsEnd(w) PROVE TypeOK'
  BY <1>10 DEF EventsEnd, AfterEvents, GoTo, TypeOK, Places, queueVars, lists, config, ending
<1>11. ASSUME NEW w \in Workers, ResizeAdds(w) PROVE TypeOK'
  BY <1>11, AddType DEF ResizeAdds, TypeOK, queueVars, config, evs, ending
<1>12. ASSUME NEW w \in Workers, ResizeRemoves(w) PROVE TypeOK'
  <2>1. pc' \in [Workers -> Places]
    BY <1>12 DEF ResizeRemoves, AfterResize, GoTo, TypeOK, Places
  <2> QED BY <1>12, <2>1, AskType DEF ResizeRemoves, TypeOK, lists, config, evs, ending
<1>13. ASSUME NEW w \in Workers, Resized(w) PROVE TypeOK'
  BY <1>13 DEF Resized, AfterResize, GoTo, TypeOK, Places, queueVars, lists, config, evs, ending
<1>14. CASE ReaderAdds
  BY <1>14, AddType DEF ReaderAdds, TypeOK, queueVars, config, evs, ending
<1>15. CASE ReaderRemoves
  BY <1>15, AskType DEF ReaderRemoves, TypeOK, lists, workers, config, evs, ending
<1>16. ASSUME NEW t \in Tasks, NewTask(t) PROVE TypeOK'
  BY <1>16, PushType DEF NewTask, TypeOK, lists, workers, config, evs, ending
<1>17. ASSUME NEW e \in Events, NewEvent(e) \/ RemoveEvent(e) PROVE TypeOK'
  <2>1. CASE NewEvent(e)
    BY <2>1 DEF NewEvent, TypeOK, queueVars, lists, workers, config, ending
  <2>2. CASE RemoveEvent(e)
    <3>1. ref_count[e] \in Nat /\ ref_count[e] >= 1
      BY <2>2 DEF RemoveEvent, EventInv, RefInv, TypeOK
    <3>2. ref_count' \in [Events -> Nat]
      BY <2>2, <3>1 DEF RemoveEvent, TypeOK
    <3> QED BY <2>2, <3>2 DEF RemoveEvent, TypeOK, queueVars, lists, workers, config, ending
  <2> QED BY <1>17, <2>1, <2>2
<1>18. CASE AddPool
  BY <1>18, AddType DEF AddPool, TypeOK, queueVars, evs, ending
<1>19. CASE RemovePool
  BY <1>19, AskType DEF RemovePool, TypeOK, lists, workers, evs, ending
<1>20. CASE StartExit
  BY <1>20 DEF StartExit, TypeOK, queueVars, lists, workers, config, evs
<1>21. CASE BeingClosed
  BY <1>21 DEF BeingClosed, ExitGoesTo, TypeOK, queueVars, lists, workers, config, evs
<1>22. CASE PushFinish
  BY <1>22, PushType DEF PushFinish, TypeOK, Beacons, lists, workers, config, evs
<1>23. CASE AllPushed
  BY <1>23 DEF AllPushed, ExitGoesTo, Note, Irregularities, TypeOK,
               queueVars, lists, workers, config, evs
<1>24. CASE JoinThreads
  BY <1>24 DEF JoinThreads, ExitGoesTo, TypeOK, queueVars, workers, config, evs
<1>25. CASE JoinStopped
  BY <1>25, <<>> \in Seq(Workers) DEF JoinStopped, ExitGoesTo, TypeOK, queueVars, workers, config
<1>26. CASE UNCHANGED vars
  BY <1>26 DEF vars, TypeOK, queueVars, lists, workers, config, evs, ending
<1> QED BY <1>1, <1>2, <1>3, <1>4, <1>5, <1>6, <1>7, <1>8, <1>9, <1>10, <1>11, <1>12, <1>13,
           <1>14, <1>15, <1>16, <1>17, <1>18, <1>19, <1>20, <1>21, <1>22, <1>23, <1>24, <1>25,
           <1>26 DEF Next, Worker, Exit

-----------------------------------------------------------------------------
(* Events *)

\* A step that leaves the events alone, and moves no thread into or out of them.
LEMMA EventSame ==
    ASSUME EventInv, UNCHANGED evs,
           \A v \in Workers : /\ pc'[v] = "call event" <=> pc[v] = "call event"
                              /\ pc'[v] = "next event" <=> pc[v] = "next event"
    PROVE  EventInv'
BY DEF EventInv, CallInv, ProcessingInv, RefInv, evs, AtEvents, Called

\* New threads do not start among the events.
LEMMA AddPlaces ==
    ASSUME TypeOK, NEW n \in Nat, AddThreads(n), NEW w \in Workers \cup {Nobody},
           pc' = NewThreads(w), w # Nobody => pc[w] = "resize"
    PROVE  \A v \in Workers : \/ pc'[v] = pc[v]
                              \/ pc[v] = "none" /\ pc'[v] = "pop" /\ v \in threads'
                              \/ v = w /\ pc[v] = "resize" /\ pc'[v] = AfterResize(w)
<1>1. \A v \in Workers : v \in threads' \ threads => pc[v] = "none"
  BY DEF AddThreads
<1>2. \A v \in Workers : pc'[v] = IF v \in threads' \ threads THEN "pop"
                                 ELSE IF v = w THEN AfterResize(w) ELSE pc[v]
  BY DEF NewThreads
<1>3. w \in Workers => pc[w] = "resize"
  BY PoolFacts
<1> QED BY <1>1, <1>2, <1>3

\* Every step keeps the handlers and the references of the events in order.
LEMMA EventStep == TypeOK /\ EventInv /\ [Next]_vars => EventInv'
<1> SUFFICES ASSUME TypeOK, EventInv, [Next]_vars PROVE EventInv'
  OBVIOUS
<1> USE PoolFacts
<1>0. pc \in [Workers -> Places] /\ \A d \in Events : ref_count[d] \in Nat
  BY DEF TypeOK
<1>1. ASSUME NEW w \in Workers, Pop(w) \/ Wake(w) PROVE EventInv'
  <2>1. pc[w] \in {"pop", "wait"} /\ UNCHANGED evs
    BY <1>1 DEF Pop, Wake
  <2>2. PICK place \in Places \ {"call event", "next event"} : pc' = [pc EXCEPT ![w] = place]
    <3>1. CASE \E it \in Tasks \cup Beacons \cup {"timeout"} : Got(w, it)
      BY <3>1, GotPlace DEF Places
    <3>2. CASE GoTo(w, "wait")
      BY <3>2 DEF GoTo, Places
    <3> QED BY <1>1, <3>1, <3>2 DEF Pop, Wake
  <2> QED BY <2>1, <2>2, EventSame DEF TypeOK
<1>2. ASSUME NEW w \in Workers,
             RunTask(w) \/ SkipTask(w) \/ Unlink(w) \/ AskCollect(w) \/ Resized(w) \/ ResizeRemoves(w)
      PROVE  EventInv'
  <2>1. pc[w] \in {"run", "stop", "ask", "resize"} /\ UNCHANGED evs
    BY <1>2 DEF RunTask, SkipTask, Unlink, AskCollect, Resized, ResizeRemoves
  <2>2. PICK place \in {"events", "ask", "ended", "run", "pop"} : pc' = [pc EXCEPT ![w] = place]
    BY <1>2 DEF RunTask, SkipTask, TaskDone, Unlink, AskCollect, Resized, ResizeRemoves,
                AfterResize, GoTo
  <2> QED BY <2>1, <2>2, EventSame DEF TypeOK
<1>3. ASSUME NEW w \in Workers, Join(w) PROVE EventInv'
  <2>1. UNCHANGED evs /\ pc[w] = "collect"
    BY <1>3 DEF Join
  <2>2. \A v \in Workers : pc'[v] = pc[v] \/ (pc[v] \in {"collect", "ended"} /\ pc'[v] \in {"pop", "none"})
    BY <1>3 DEF Join, TypeOK
  <2> QED BY <2>1, <2>2, EventSame
<1>4. ASSUME NEW w \in Workers, ProcessEvents(w) PROVE EventInv'
  <2>1. CASE BusyProcessing \/ events = {} \/ Exiting
    <3>1. UNCHANGED evs
      BY <1>4, <2>1 DEF ProcessEvents, evs
    <3>2. pc[w] = "events" /\ pc' = [pc EXCEPT ![w] = AfterEvents(w)]
      BY <1>4, <2>1 DEF ProcessEvents, GoTo
    <3>3. AfterEvents(w) \in {"pop", "resize"}
      BY DEF AfterEvents
    <3> QED BY <3>1, <3>2, <3>3, EventSame DEF TypeOK
  <2>2. CASE ~(BusyProcessing \/ events = {} \/ Exiting)
    <3>1. /\ ~processing_events /\ processing_events' = TRUE
          /\ pc[w] = "events" /\ pc' = [pc EXCEPT ![w] = "next event"]
          /\ UNCHANGED <<events, ref_count, calling>>
      BY <1>4, <2>2 DEF ProcessEvents, GoTo, BusyProcessing
    <3> QED BY <1>0, <3>1 DEF EventInv, CallInv, ProcessingInv, RefInv, AtEvents, Called
  <2> QED BY <2>1, <2>2
<1>5. ASSUME NEW w \in Workers, NEW e \in Events, EventDue(w, e) PROVE EventInv'
  <2>1. /\ pc[w] = "next event" /\ pc' = [pc EXCEPT ![w] = "call event"]
        /\ calling' = [calling EXCEPT ![w] = e] /\ e \in events
        /\ UNCHANGED <<events, processing_events>>
    BY <1>5 DEF EventDue, GoTo
  <2>2. ref_count[e] \in Nat /\ ref_count' = [ref_count EXCEPT ![e] = ref_count[e] + 1]
    BY <1>5 DEF EventDue, TypeOK
  <2>3. ref_count'[e] = ref_count[e] + 1 /\ \A d \in Events \ {e} : ref_count'[d] = ref_count[d]
    BY <2>2 DEF TypeOK
  <2>4. \A v \in Workers : v # w => pc[v] \notin {"call event", "next event"}
    BY <2>1 DEF EventInv, ProcessingInv, AtEvents
  <2>5. \A v \in Workers : calling'[v] = IF v = w THEN e ELSE Nobody
    BY <2>1, <2>4 DEF EventInv, CallInv, TypeOK
  <2>6. CallInv' /\ ProcessingInv'
    <3>1. \A v \in Workers : v # w => pc'[v] \notin {"call event", "next event"}
      BY <1>0, <2>1, <2>4
    <3>2. pc'[w] = "call event" /\ processing_events'
      BY <1>0, <2>1 DEF EventInv, ProcessingInv, AtEvents
    <3> QED BY <2>5, <3>1, <3>2 DEF CallInv, ProcessingInv, AtEvents
  <2>7. \A d \in Events : Called(d)' => d = e
    BY <2>5 DEF Called
  <2>8. RefInv'
    <3>1. ref_count[e] >= 1
      BY <1>0, <2>1 DEF EventInv, RefInv
    <3>2. ref_count'[e] >= 2
      BY <1>0, <2>3, <3>1
    <3>3. \A d \in Events : d # e /\ d \in events' => ref_count'[d] >= 1
      BY <1>0, <2>1, <2>3 DEF EventInv, RefInv
    <3> QED BY <2>2, <2>3, <2>7, <3>2, <3>3 DEF RefInv
  <2> QED BY <2>6, <2>8 DEF EventInv
<1>6. ASSUME NEW w \in Workers, EventRemoved(w) \/ EventKept(w) PROVE EventInv'
  <2>1. PICK e \in Events, n \in Nat :
           /\ pc[w] = "call event" /\ pc' = [pc EXCEPT ![w] = "next event"]
           /\ calling[w] = e /\ calling' = [calling EXCEPT ![w] = Nobody]
           /\ ref_count' = [ref_count EXCEPT ![e] = n]
           /\ \/ n = ref_count[e] - 1 /\ events' = events
              \/ n = ref_count[e] - 2 /\ e \in events /\ events' = events \ {e}
    BY <1>6, Returned
  <2>2. processing_events' = processing_events
    BY <1>6 DEF EventRemoved, EventKept
  <2>3. \A v \in Workers : v # w => pc[v] \notin {"call event", "next event"}
    BY <2>1 DEF EventInv, ProcessingInv, AtEvents
  <2>4. \A v \in Workers : calling'[v] = Nobody
    BY <2>1, <2>3 DEF EventInv, CallInv, TypeOK
  <2>5. \A d \in Events : ~Called(d)'
    BY <2>4 DEF Called
  <2>6. CallInv' /\ ProcessingInv'
    <3>1. \A v \in Workers : v # w => pc'[v] \notin {"call event", "next event"}
      BY <1>0, <2>1, <2>3
    <3>2. pc'[w] = "next event" /\ processing_events'
      BY <1>0, <2>1, <2>2 DEF EventInv, ProcessingInv, AtEvents
    <3> QED BY <2>4, <3>1, <3>2 DEF CallInv, ProcessingInv, AtEvents
  <2>7. ref_count'[e] = n /\ \A d \in Events \ {e} : ref_count'[d] = ref_count[d]
    BY <2>1 DEF TypeOK
  <2>8. e \in events => ref_count[e] >= 2
    BY <2>1 DEF EventInv, RefInv, Called
  <2>9. \A d \in Events : d \in events' => ref_count'[d] >= 1
    <3>1. \A d \in Events : d # e /\ d \in events' => ref_count'[d] >= 1
      BY <2>1, <2>7 DEF EventInv, RefInv
    <3>2. e \in events' => ref_count'[e] >= 1
      <4>1. e \in events' => n = ref_count[e] - 1 /\ e \in events
        BY <2>1
      <4>2. ref_count[e] \in Nat /\ ref_count'[e] = n
        BY <1>0, <2>7
      <4> QED BY <2>8, <4>1, <4>2
    <3> QED BY <3>1, <3>2
  <2> QED BY <2>5, <2>6, <2>9 DEF EventInv, RefInv
<1>7. ASSUME NEW w \in Workers, EventsEnd(w) PROVE EventInv'
  <2>1. /\ pc[w] = "next event" /\ pc' = [pc EXCEPT ![w] = AfterEvents(w)]
        /\ UNCHANGED <<events, ref_count, calling>>
    BY <1>7 DEF EventsEnd, GoTo
  <2>2. AfterEvents(w) \in {"pop", "resize"}
    BY DEF AfterEvents
  <2>3. \A v \in Workers : ~AtEvents(v)'
    <3>1. \A v \in Workers : v # w => pc[v] \notin {"call event", "next event"}
      BY <2>1 DEF EventInv, ProcessingInv, AtEvents
    <3> QED BY <1>0, <2>1, <2>2, <3>1 DEF AtEvents
  <2>4. CallInv'
    BY <1>0, <2>1, <2>2, <2>3 DEF EventInv, CallInv, AtEvents
  <2> QED BY <2>1, <2>3, <2>4 DEF EventInv, ProcessingInv, RefInv, Called
<1>8. ASSUME NEW w \in Workers \cup {Nobody}, NEW n \in Nat, AddThreads(n), pc' = NewThreads(w),
             w # Nobody => pc[w] = "resize", UNCHANGED evs
      PROVE  EventInv'
  <2>1. AfterResize(w) \in {"run", "pop"}
    BY DEF AfterResize
  <2> QED BY <1>8, <2>1, AddPlaces, EventSame
<1>9. ASSUME NEW w \in Workers, ResizeAdds(w) PROVE EventInv'
  BY <1>8, <1>9 DEF ResizeAdds
<1>10. CASE ReaderAdds \/ AddPool
  BY <1>8, <1>10 DEF ReaderAdds, AddPool
<1>11. ASSUME NEW e \in Events, NewEvent(e) PROVE EventInv'
  <2>1. /\ ref_count[e] = 0 /\ ref_count' = [ref_count EXCEPT ![e] = 1] /\ events' = events \cup {e}
        /\ UNCHANGED <<processing_events, calling, pc>>
    BY <1>11 DEF NewEvent, workers
  <2>2. ~Called(e)
    BY <2>1 DEF EventInv, RefInv, Called
  <2>3. CallInv' /\ ProcessingInv'
    BY <2>1 DEF EventInv, CallInv, ProcessingInv, AtEvents
  <2>4. ref_count'[e] = 1 /\ \A d \in Events \ {e} : ref_count'[d] = ref_count[d]
    BY <2>1 DEF TypeOK
  <2>5. RefInv'
    BY <2>1, <2>2, <2>4 DEF EventInv, RefInv, Called
  <2> QED BY <2>3, <2>5 DEF EventInv
<1>12. ASSUME NEW e \in Events, RemoveEvent(e) PROVE EventInv'
  <2>1. /\ e \in events /\ events' = events \ {e} /\ UNCHANGED <<processing_events, calling, pc>>
    BY <1>12 DEF RemoveEvent, workers
  <2>2. ref_count[e] \in Nat /\ ref_count' = [ref_count EXCEPT ![e] = ref_count[e] - 1]
    BY <1>12 DEF RemoveEvent, TypeOK
  <2>3. ref_count'[e] = ref_count[e] - 1 /\ \A d \in Events \ {e} : ref_count'[d] = ref_count[d]
    BY <2>2 DEF TypeOK
  <2>4. \A d \in Events : Called(d)' <=> Called(d)
    BY <2>1 DEF Called
  <2>5. RefInv'
    <3>1. Called(e) => ref_count[e] >= 2
      BY <2>1 DEF EventInv, RefInv
    <3>2. Called(e)' => ref_count'[e] >= 1
      BY <2>2, <2>3, <2>4, <3>1
    <3> QED BY <2>1, <2>3, <2>4, <3>2 DEF EventInv, RefInv
  <2> QED BY <2>1, <2>5 DEF EventInv, CallInv, ProcessingInv, AtEvents
<1>13. CASE JoinStopped
  BY <1>13 DEF JoinStopped, workers, EventInv, CallInv, ProcessingInv, RefInv, AtEvents, Called
<1>14. ASSUME UNCHANGED <<evs, pc>> PROVE EventInv'
  BY <1>14, EventSame
<1>15. CASE ReaderRemoves \/ RemovePool \/ StartExit \/ BeingClosed \/ PushFinish \/ AllPushed
            \/ JoinThreads \/ UNCHANGED vars \/ \E t \in Tasks : NewTask(t)
  BY <1>14, <1>15 DEF ReaderRemoves, RemovePool, StartExit, BeingClosed, PushFinish, AllPushed,
                      JoinThreads, NewTask, vars, workers
<1> QED BY <1>1, <1>2, <1>3, <1>4, <1>5, <1>6, <1>7, <1>9, <1>10, <1>11, <1>12, <1>13, <1>15
           DEF Next, Worker, Exit

-----------------------------------------------------------------------------
(* The queue *)

\* The queue of the pool as its parts.
LEMMA QueueTypes ==
    ASSUME TypeOK
    PROVE  /\ data["pool"] \in Seq(Tasks \cup Beacons) /\ Len(data["pool"]) \in Nat
           /\ waiters["pool"] \in Nat /\ asleep["pool"] \subseteq Workers
           /\ IsFiniteSet(asleep["pool"]) /\ Cardinality(asleep["pool"]) \in Nat
           /\ IsFiniteSet(WaitSet) /\ WaitSet \subseteq Workers
           /\ DOMAIN data = {"pool"} /\ DOMAIN asleep = {"pool"} /\ DOMAIN waiters = {"pool"}
<1>1. /\ data["pool"] \in Seq(Tasks \cup Beacons) /\ waiters["pool"] \in Nat
      /\ asleep["pool"] \subseteq Workers
  BY PoolFacts DEF TypeOK
<1>2. DOMAIN data = {"pool"} /\ DOMAIN asleep = {"pool"} /\ DOMAIN waiters = {"pool"}
  BY PoolFacts DEF TypeOK
<1> QED BY <1>1, <1>2, Finite DEF WaitSet

\* A step that leaves the queue alone, and lets no thread start or end to wait.
LEMMA QueueSame ==
    ASSUME QueueInv, UNCHANGED queueVars,
           \A v \in Workers : pc'[v] = "wait" <=> pc[v] = "wait"
    PROVE  QueueInv'
<1>1. WaitSet' = WaitSet
  BY DEF WaitSet
<1> QED BY <1>1 DEF QueueInv, queueVars

\* An item pushed has a thread on its way to it, if any sleeps.
LEMMA PushQueue ==
    ASSUME TypeOK, QueueInv, NEW it, Push("pool", it),
           \A v \in Workers : pc'[v] = "wait" <=> pc[v] = "wait"
    PROVE  QueueInv'
<1>1. WaitSet' = WaitSet
  BY DEF WaitSet
<1>2. /\ data'["pool"] = Append(data["pool"], it) /\ waiters' = waiters
      /\ Len(data'["pool"]) = Len(data["pool"]) + 1
  BY QueueTypes DEF Push
<1>3. CASE asleep["pool"] = {}
  BY <1>1, <1>2, <1>3 DEF QueueInv, Push, Signal
<1>4. CASE asleep["pool"] # {}
  <2>1. waiters["pool"] > 0
    <3>1. Cardinality(WaitSet) \in Nat /\ Cardinality(WaitSet) # 0
      BY <1>4, QueueTypes, FS_EmptySet, FS_CardinalityType DEF QueueInv
    <3> QED BY <3>1 DEF QueueInv
  <2>2. PICK t \in asleep["pool"] : asleep' = [asleep EXCEPT !["pool"] = @ \ {t}]
    BY <1>4, <2>1 DEF Push, Signal
  <2>3. asleep'["pool"] = asleep["pool"] \ {t}
    BY <2>2, QueueTypes
  <2>4. Cardinality(asleep'["pool"]) = Cardinality(asleep["pool"]) - 1
    <3>1. IsFiniteSet(asleep["pool"])
      BY QueueTypes
    <3>2. Cardinality(asleep["pool"] \ {t}) = Cardinality(asleep["pool"]) - 1
      BY <3>1, FS_RemoveElement
    <3> QED BY <2>3, <3>2
  <2> QED BY <1>1, <1>2, <1>4, <2>3, <2>4, QueueTypes DEF QueueInv
<1> QED BY <1>3, <1>4

\* Each beacon to stop has a thread on its way to it, or no thread sleeps any more.
LEMMA AskQueue ==
    ASSUME TypeOK, QueueInv, NEW n \in Nat, AskToStop(n),
           \A v \in Workers : pc'[v] = "wait" <=> pc[v] = "wait"
    PROVE  QueueInv'
<1>1. WaitSet' = WaitSet
  BY DEF WaitSet
<1>2. PICK count \in Nat, S \in SUBSET asleep["pool"] :
              /\ Cardinality(S) = count \/ S = asleep["pool"]
              /\ [i \in 1..count |-> "stop"] \in Seq({"stop"})
              /\ data' = [data EXCEPT !["pool"] = @ \o [i \in 1..count |-> "stop"]]
              /\ asleep' = [asleep EXCEPT !["pool"] = @ \ S]
              /\ waiters' = waiters
  BY AskFacts
<1>3. asleep'["pool"] = asleep["pool"] \ S /\ data'["pool"] = data["pool"] \o [i \in 1..count |-> "stop"]
  BY <1>2, QueueTypes
<1>4. CASE S = asleep["pool"]
  <2>1. asleep'["pool"] = {}
    BY <1>3, <1>4
  <2> QED BY <1>1, <1>2, <2>1 DEF QueueInv
<1>5. CASE Cardinality(S) = count
  <2>1. Cardinality(asleep'["pool"]) = Cardinality(asleep["pool"]) - count
    <3>1. Cardinality(asleep["pool"] \ S) = Cardinality(asleep["pool"]) - Cardinality(asleep["pool"] \cap S)
      BY QueueTypes, FS_Difference
    <3>2. asleep["pool"] \cap S = S
      OBVIOUS
    <3> QED BY <1>3, <1>5, <3>1, <3>2
  <2>2. Len(data'["pool"]) = Len(data["pool"]) + count
    <3>1. data["pool"] \in Seq(Tasks \cup Beacons \cup {"stop"})
      BY QueueTypes
    <3>2. Len([i \in 1..count |-> "stop"]) = count
      BY <1>2
    <3> HIDE <1>2
    <3>3. [i \in 1..count |-> "stop"] \in Seq(Tasks \cup Beacons \cup {"stop"})
      BY <1>2
    <3> QED BY <1>3, <3>1, <3>2, <3>3
  <2> QED BY <1>1, <1>2, <1>3, <2>1, <2>2, QueueTypes DEF QueueInv
<1> QED BY <1>2, <1>4, <1>5

\* Nobody waits when the pool starts.
LEMMA QueueStart == Init => QueueInv
<1> SUFFICES ASSUME Init PROVE QueueInv
  OBVIOUS
<1>1. WaitSet = {}
  BY DEF Init, WaitSet
<1> QED BY <1>1, PoolFacts, FS_EmptySet DEF Init, QueueInit, QueueInv

\* Every step keeps the count of the waiters, and those signalled as many as the items.
LEMMA QueueStep == TypeOK /\ QueueInv /\ [Next]_vars => QueueInv'
<1> SUFFICES ASSUME TypeOK, QueueInv, [Next]_vars PROVE QueueInv'
  OBVIOUS
<1>0. pc \in [Workers -> Places]
  BY DEF TypeOK
<1>1. ASSUME NEW w \in Workers, Pop(w) PROVE QueueInv'
  <2>1. CASE \E it \in Tasks \cup Beacons : PopAtOnce("pool", it) /\ Got(w, it)
    <3>1. PICK it \in Tasks \cup Beacons : PopAtOnce("pool", it) /\ Got(w, it)
      BY <2>1
    <3>2. PICK place \in Places \ {"wait"} : pc' = [pc EXCEPT ![w] = place]
      BY <3>1, GotPlace DEF Places
    <3>3. WaitSet' = WaitSet
      BY <1>0, <1>1, <3>2 DEF WaitSet, Pop
    <3>4. Len(data'["pool"]) = Len(data["pool"]) - 1 /\ waiters' = waiters /\ asleep' = asleep
      BY <3>1, QueueTypes DEF PopAtOnce, TakeItem
    <3> QED BY <3>3, <3>4, QueueTypes DEF QueueInv
  <2>2. CASE PopWait("pool", w) /\ GoTo(w, "wait")
    <3>1. WaitSet' = WaitSet \cup {w} /\ w \notin WaitSet
      BY <1>0, <1>1, <2>2 DEF GoTo, WaitSet, Pop
    <3>2. Cardinality(WaitSet') = Cardinality(WaitSet) + 1
      BY <3>1, QueueTypes, FS_AddElement
    <3>3. /\ waiters'["pool"] = waiters["pool"] + 1 /\ asleep'["pool"] = asleep["pool"] \cup {w}
          /\ Len(data'["pool"]) = 0
      BY <2>2, QueueTypes DEF PopWait
    <3>4. asleep'["pool"] \subseteq WaitSet'
      BY <3>1, <3>3 DEF QueueInv
    <3>5. Cardinality(asleep'["pool"]) <= Cardinality(WaitSet') /\ Cardinality(asleep'["pool"]) \in Nat
      BY <3>1, <3>4, QueueTypes, FS_Subset, FS_AddElement, FS_CardinalityType
    <3> QED BY <3>2, <3>3, <3>4, <3>5, QueueTypes DEF QueueInv
  <2> QED BY <1>1, <2>1, <2>2 DEF Pop
<1>2. ASSUME NEW w \in Workers, Wake(w) PROVE QueueInv'
  <2>1. PICK place \in Places \ {"wait"} : pc' = [pc EXCEPT ![w] = place]
    BY <1>2, GotPlace DEF Wake, Places
  <2>2. WaitSet' = WaitSet \ {w} /\ w \in WaitSet
    BY <1>0, <1>2, <2>1 DEF WaitSet, Wake
  <2>3. Cardinality(WaitSet') = Cardinality(WaitSet) - 1 /\ IsFiniteSet(WaitSet')
    BY <2>2, QueueTypes, FS_RemoveElement
  <2>4. waiters'["pool"] = waiters["pool"] - 1 /\ asleep'["pool"] = asleep["pool"] \ {w}
    BY <1>2, QueueTypes DEF Wake, PopWoken, PopNothing, Leave
  <2>5. asleep'["pool"] \subseteq WaitSet'
    BY <2>2, <2>4 DEF QueueInv
  <2>6. /\ Cardinality(asleep'["pool"]) <= Cardinality(WaitSet') /\ Cardinality(asleep'["pool"]) \in Nat
        /\ Cardinality(WaitSet') \in Nat
    BY <2>3, <2>5, FS_Subset, FS_CardinalityType
  <2>7. Cardinality(asleep'["pool"]) <= Cardinality(asleep["pool"])
    BY <2>4, QueueTypes, FS_Subset
  <2>8. CASE \E it \in Tasks \cup Beacons : PopWoken("pool", w, it)
    <3>1. Len(data'["pool"]) = Len(data["pool"]) - 1
      BY <2>8, QueueTypes DEF PopWoken, TakeItem
    <3>2. CASE w \in asleep["pool"]
      <4>1. Cardinality(asleep'["pool"]) = Cardinality(asleep["pool"]) - 1
        BY <2>4, <3>2, QueueTypes, FS_RemoveElement
      <4> QED BY <2>3, <2>4, <2>5, <3>1, <3>2, <4>1, QueueTypes DEF QueueInv
    <3>3. CASE w \notin asleep["pool"]
      <4>1. asleep'["pool"] = asleep["pool"]
        BY <2>4, <3>3
      <4>2. waiters'["pool"] = Cardinality(WaitSet')
        BY <2>3, <2>4 DEF QueueInv
      <4>3. asleep["pool"] # {} => Len(data'["pool"]) <= waiters'["pool"] - Cardinality(asleep["pool"])
        BY <2>4, <3>1, QueueTypes DEF QueueInv
      <4> QED BY <2>5, <4>1, <4>2, <4>3 DEF QueueInv
    <3> QED BY <3>2, <3>3
  <2>9. CASE PopNothing("pool", w)
    <3>1. Len(data'["pool"]) = 0
      BY <2>9, QueueTypes DEF PopNothing
    <3> QED BY <2>3, <2>4, <2>5, <2>6, <3>1, QueueTypes DEF QueueInv
  <2> QED BY <1>2, <2>8, <2>9 DEF Wake
<1>3. ASSUME NEW w \in Workers, NEW place \in Places \ {"wait"}, pc[w] # "wait",
             pc' = [pc EXCEPT ![w] = place], UNCHANGED queueVars
      PROVE  QueueInv'
  BY <1>0, <1>3, QueueSame
<1>4. ASSUME NEW w \in Workers, RunTask(w) \/ SkipTask(w) \/ Unlink(w) PROVE QueueInv'
  BY <1>3, <1>4 DEF RunTask, SkipTask, TaskDone, Unlink, GoTo, Places
<1>5. ASSUME NEW w \in Workers, ProcessEvents(w) \/ EventsEnd(w) PROVE QueueInv'
  <2>1. AfterEvents(w) \in Places \ {"wait"}
    BY DEF AfterEvents, Places
  <2>2. "next event" \in Places \ {"wait"}
    BY DEF Places
  <2> QED BY <1>3, <1>5, <2>1, <2>2 DEF ProcessEvents, EventsEnd, GoTo
<1>6. ASSUME NEW w \in Workers, EventRemoved(w) \/ EventKept(w) \/ \E e \in Events : EventDue(w, e)
      PROVE  QueueInv'
  BY <1>3, <1>6 DEF EventRemoved, EventKept, EventDue, GoTo, Places
<1>7. ASSUME NEW w \in Workers, AskCollect(w) PROVE QueueInv'
  <2>1. \A v \in Workers : pc'[v] = "wait" <=> pc[v] = "wait"
    BY <1>0, <1>7 DEF AskCollect, GoTo
  <2> QED BY <1>7, <2>1, PushQueue DEF AskCollect
<1>8. ASSUME NEW w \in Workers, Join(w) PROVE QueueInv'
  <2>1. \A v \in Workers : pc'[v] = pc[v] \/ (pc[v] \in {"collect", "ended"} /\ pc'[v] \in {"pop", "none"})
    BY <1>8 DEF Join, TypeOK
  <2> QED BY <1>8, <2>1, QueueSame DEF Join
<1>9. ASSUME NEW w \in Workers \cup {Nobody}, NEW n \in Nat, AddThreads(n), pc' = NewThreads(w),
             w # Nobody => pc[w] = "resize", UNCHANGED queueVars
      PROVE  QueueInv'
  <2>1. AfterResize(w) \in {"run", "pop"}
    BY DEF AfterResize
  <2> QED BY <1>9, <2>1, AddPlaces, QueueSame
<1>10. ASSUME NEW w \in Workers, ResizeAdds(w) PROVE QueueInv'
  BY <1>9, <1>10, PoolFacts DEF ResizeAdds
<1>11. CASE ReaderAdds \/ AddPool
  BY <1>9, <1>11, PoolFacts DEF ReaderAdds, AddPool
<1>12. ASSUME NEW w \in Workers, ResizeRemoves(w) \/ Resized(w) PROVE QueueInv'
  <2>1. AfterResize(w) \in Places \ {"wait"}
    BY DEF AfterResize, Places
  <2>2. pc[w] # "wait" /\ pc' = [pc EXCEPT ![w] = AfterResize(w)]
    BY <1>12 DEF ResizeRemoves, Resized, GoTo
  <2>3. CASE Resized(w)
    BY <1>3, <2>1, <2>2, <2>3 DEF Resized
  <2>4. CASE ResizeRemoves(w)
    <3>1. \A v \in Workers : pc'[v] = "wait" <=> pc[v] = "wait"
      BY <1>0, <2>1, <2>2
    <3> QED BY <2>4, <3>1, AskQueue, PoolFacts DEF ResizeRemoves
  <2> QED BY <1>12, <2>3, <2>4
<1>13. CASE ReaderRemoves \/ RemovePool
  BY <1>13, AskQueue, PoolFacts DEF ReaderRemoves, RemovePool, workers
<1>14. CASE PushFinish \/ \E t \in Tasks : NewTask(t)
  BY <1>14, PushQueue DEF PushFinish, NewTask, workers
<1>15. ASSUME UNCHANGED <<queueVars, pc>> PROVE QueueInv'
  BY <1>15, QueueSame
<1>16. CASE StartExit \/ BeingClosed \/ AllPushed \/ JoinThreads \/ JoinStopped \/ UNCHANGED vars
            \/ \E e \in Events : NewEvent(e) \/ RemoveEvent(e)
  BY <1>15, <1>16 DEF StartExit, BeingClosed, AllPushed, JoinThreads, JoinStopped, NewEvent,
                      RemoveEvent, vars, workers
<1> QED BY <1>1, <1>2, <1>4, <1>5, <1>6, <1>7, <1>8, <1>10, <1>11, <1>12, <1>13, <1>14, <1>16
           DEF Next, Worker, Exit

\* No thread is among the events when the pool starts.
LEMMA EventStart == Init => EventInv
BY PoolFacts DEF Init, EventInv, CallInv, ProcessingInv, RefInv, AtEvents, Called

\* In every state each variable has its shape, the queue counts its waiters, and the
\* events have the references that are held (vortex_thread_pool.c, vortex_thread.c).
THEOREM Types == Spec => [](TypeOK /\ QueueInv /\ EventInv)
<1>1. Init => TypeOK /\ QueueInv /\ EventInv
  BY TypeStart, QueueStart, EventStart
<1>2. TypeOK /\ QueueInv /\ EventInv /\ [Next]_vars => (TypeOK /\ QueueInv /\ EventInv)'
  BY TypeStep, QueueStep, EventStep
<1> QED BY <1>1, <1>2, PTL DEF Spec

\* No thread sleeps in vortex_async_queue_timedpop while an item waits that no other thread
\* was signalled for.
THEOREM NobodySleepsOnAnItem == Spec => []NoLostWakeup
<1>1. TypeOK /\ QueueInv => NoLostWakeup
  BY PoolFacts DEF QueueInv, NoLostWakeup
<1> QED BY <1>1, Types, PTL

\* A handler of an event runs in one thread at a time, with a reference to its event
\* (__vortex_thread_pool_process_events).
THEOREM HandlersAreSafe == Spec => []EventSafe
<1>1. TypeOK /\ EventInv => EventSafe
  <2> SUFFICES ASSUME TypeOK, EventInv, NEW w \in Workers, calling[w] # Nobody
               PROVE  /\ ref_count[calling[w]] > 0
                      /\ \A v \in Workers \ {w} : calling[v] # calling[w]
    BY DEF EventSafe
  <2>1. calling[w] \in Events /\ pc[w] = "call event"
    BY DEF TypeOK, EventInv, CallInv
  <2>2. ref_count[calling[w]] > 0
    <3>1. ref_count[calling[w]] \in Nat
      BY <2>1 DEF TypeOK
    <3>2. ref_count[calling[w]] >= 1
      BY <2>1 DEF EventInv, RefInv, Called
    <3> QED BY <3>1, <3>2
  <2>3. \A v \in Workers \ {w} : pc[v] # "call event"
    BY <2>1 DEF EventInv, ProcessingInv, AtEvents
  <2> QED BY <2>2, <2>3 DEF EventInv, CallInv
<1> QED BY <1>1, Types, PTL

-----------------------------------------------------------------------------
(* The list of threads *)

\* A thread at work is in the list, until the context joins the threads of the list.
Joined == exit \in {"stopped", "done"}
AtRest(place) == place \in {"none", "ended", "ask"}
ListInv == ~Joined => \A w \in Workers : ~AtRest(pc[w]) => w \in threads

\* Threads go on working, or come to rest, or are new in the list.
LEMMA ListSame ==
    ASSUME ListInv, Joined => Joined',
           threads \subseteq threads',
           \A v \in Workers : AtRest(pc[v]) => AtRest(pc'[v]) \/ v \in threads'
    PROVE  ListInv'
BY DEF ListInv

\* Every step keeps the threads that work in the list.
LEMMA ListStep == TypeOK /\ ListInv /\ [Next]_vars => ListInv'
<1> SUFFICES ASSUME TypeOK, ListInv, [Next]_vars PROVE ListInv'
  OBVIOUS
<1>0. pc \in [Workers -> Places]
  BY DEF TypeOK
<1>1. ASSUME NEW w \in Workers, Worker(w), threads' = threads, exit' = exit,
             NEW place, ~AtRest(pc[w]) \/ place = "ended", pc' = [pc EXCEPT ![w] = place]
      PROVE  ListInv'
  <2>1. \A v \in Workers : AtRest(pc[v]) => AtRest(pc'[v])
    BY <1>0, <1>1 DEF AtRest
  <2> QED BY <1>1, <2>1, ListSame DEF Joined
<1>2. ASSUME NEW w \in Workers, Pop(w) PROVE ListInv'
  <2>1. \E place : pc' = [pc EXCEPT ![w] = place]
    BY <1>2, GotPlace DEF Pop, GoTo
  <2> QED BY <1>1, <1>2, <2>1 DEF Worker, Pop, lists, ending, AtRest
<1>3. ASSUME NEW w \in Workers, Wake(w) PROVE ListInv'
  <2>1. \E place : pc' = [pc EXCEPT ![w] = place]
    BY <1>3, GotPlace DEF Wake
  <2> QED BY <1>1, <1>3, <2>1 DEF Worker, Wake, lists, ending, AtRest
<1>4. ASSUME NEW w \in Workers, RunTask(w) \/ SkipTask(w) \/ AskCollect(w) \/ ProcessEvents(w)
      PROVE  ListInv'
  <2>1. \E place : pc' = [pc EXCEPT ![w] = place] /\ (~AtRest(pc[w]) \/ place = "ended")
    BY <1>4 DEF RunTask, SkipTask, TaskDone, AskCollect, ProcessEvents, GoTo, AtRest
  <2>2. threads' = threads /\ exit' = exit
    BY <1>4 DEF RunTask, SkipTask, AskCollect, ProcessEvents, lists, ending
  <2> QED BY <1>1, <1>4, <2>1, <2>2 DEF Worker
<1>5. ASSUME NEW w \in Workers, EventRemoved(w) \/ EventKept(w) \/ EventsEnd(w)
                                  \/ Resized(w) \/ ResizeRemoves(w) \/ \E e \in Events : EventDue(w, e)
      PROVE  ListInv'
  <2>1. \E place : pc' = [pc EXCEPT ![w] = place] /\ ~AtRest(pc[w])
    BY <1>5 DEF EventRemoved, EventKept, EventsEnd, EventDue, Resized, ResizeRemoves, GoTo, AtRest
  <2>2. threads' = threads /\ exit' = exit
    BY <1>5 DEF EventRemoved, EventKept, EventsEnd, EventDue, Resized, ResizeRemoves, lists, ending
  <2> QED BY <1>1, <1>5, <2>1, <2>2 DEF Worker
<1>6. ASSUME NEW w \in Workers, Unlink(w) PROVE ListInv'
  <2>1. pc' = [pc EXCEPT ![w] = "ask"] /\ threads' = threads \ {w} /\ exit' = exit
    BY <1>6 DEF Unlink, GoTo, ending
  <2> QED BY <1>0, <2>1 DEF ListInv, AtRest, Joined
<1>7. ASSUME NEW w \in Workers, Join(w) PROVE ListInv'
  <2>1. /\ \A v \in Workers : v # w => pc'[v] = pc[v] \/ pc'[v] = "none"
        /\ threads' = threads /\ exit' = exit /\ pc[w] = "collect"
    BY <1>7 DEF Join, ending
  <2>2. \A v \in Workers : AtRest(pc[v]) => AtRest(pc'[v])
    BY <2>1 DEF AtRest
  <2> QED BY <2>1, <2>2, ListSame DEF Joined
<1>8. ASSUME NEW w \in Workers \cup {Nobody}, NEW n \in Nat, AddThreads(n), pc' = NewThreads(w),
             w # Nobody => pc[w] = "resize", exit' = exit
      PROVE  ListInv'
  <2>1. threads \subseteq threads'
    BY <1>8 DEF AddThreads
  <2>2. \A v \in Workers : AtRest(pc[v]) => AtRest(pc'[v]) \/ v \in threads'
    BY <1>8, AddPlaces DEF AtRest
  <2> QED BY <1>8, <2>1, <2>2, ListSame DEF Joined
<1>9. ASSUME NEW w \in Workers, ResizeAdds(w) PROVE ListInv'
  BY <1>8, <1>9, PoolFacts DEF ResizeAdds, ending
<1>10. CASE ReaderAdds \/ AddPool
  BY <1>8, <1>10, PoolFacts DEF ReaderAdds, AddPool, ending
<1>11. ASSUME UNCHANGED <<threads, pc>>, Joined => Joined' PROVE ListInv'
  BY <1>11, ListSame
<1>12. CASE ReaderRemoves \/ RemovePool \/ (\E t \in Tasks : NewTask(t))
              \/ \E e \in Events : NewEvent(e) \/ RemoveEvent(e)
  BY <1>11, <1>12 DEF ReaderRemoves, RemovePool, NewTask, NewEvent, RemoveEvent, lists, workers,
                      ending, Joined
<1>13. CASE StartExit \/ BeingClosed \/ PushFinish \/ AllPushed \/ JoinStopped \/ UNCHANGED vars
  BY <1>11, <1>13 DEF StartExit, BeingClosed, PushFinish, AllPushed, JoinStopped, ExitGoesTo, vars,
                      lists, workers, ending, Joined
<1>14. CASE JoinThreads
  BY <1>14 DEF JoinThreads, ExitGoesTo, Joined, ListInv
<1> QED BY <1>2, <1>3, <1>4, <1>5, <1>6, <1>7, <1>9, <1>10, <1>12, <1>13, <1>14
           DEF Next, Worker, Exit

\* Threads are in the list while they work.
LEMMA Listed == Spec => []ListInv
<1>1. Init => ListInv
  BY DEF Init, ListInv, AtRest
<1> QED BY <1>1, ListStep, Types, PTL DEF Spec

-----------------------------------------------------------------------------
(* At least one thread *)

\* The beacons to stop, queued or popped, are fewer than the threads of the list.
StopsIn(s) == {i \in DOMAIN s : s[i] = "stop"}
StopSet == {w \in Workers : pc[w] = "stop"}
StopInv ==
    ~Exiting /\ "overlapped" \notin irregular =>
        Cardinality(StopsIn(data["pool"])) + Cardinality(StopSet) < Cardinality(threads)

\* The beacons of a queue are finitely many,
LEMMA StopsInFinite ==
    ASSUME NEW T, NEW s \in Seq(T)
    PROVE  /\ StopsIn(s) = {i \in 1..Len(s) : s[i] = "stop"}
           /\ IsFiniteSet(StopsIn(s)) /\ Cardinality(StopsIn(s)) \in Nat
<1>1. Len(s) \in Nat /\ DOMAIN s = 1..Len(s)
  BY LenProperties
<1>2. StopsIn(s) = {i \in 1..Len(s) : s[i] = "stop"}
  BY <1>1 DEF StopsIn
<1>3. IsFiniteSet(1..Len(s))
  BY <1>1, FS_Interval
<1>4. IsFiniteSet(StopsIn(s))
  BY <1>2, <1>3, FS_Subset
<1> QED BY <1>2, <1>4, FS_CardinalityType

\* and so are the threads.
LEMMA StopsFinite ==
    ASSUME TypeOK
    PROVE  /\ IsFiniteSet(StopsIn(data["pool"])) /\ Cardinality(StopsIn(data["pool"])) \in Nat
           /\ IsFiniteSet(StopSet) /\ Cardinality(StopSet) \in Nat
           /\ IsFiniteSet(threads) /\ Cardinality(threads) \in Nat
<1> QED BY QueueTypes, StopsInFinite, Finite DEF StopSet, TypeOK

\* Taking the first item leaves the other beacons.
LEMMA StopsTail ==
    ASSUME NEW T, NEW s \in Seq(T), s # <<>>
    PROVE  /\ IsFiniteSet(StopsIn(s))
           /\ Cardinality(StopsIn(Tail(s))) <=
                Cardinality(StopsIn(s)) - (IF Head(s) = "stop" THEN 1 ELSE 0)
<1>1. /\ Tail(s) \in Seq(T) /\ Len(Tail(s)) = Len(s) - 1 /\ Len(s) \in Nat \ {0} /\ Head(s) = s[1]
      /\ \A i \in 1..Len(Tail(s)) : Tail(s)[i] = s[i + 1]
  BY HeadTailProperties, EmptySeq
<1>2. StopsIn(s) = {i \in 1..Len(s) : s[i] = "stop"}
  BY StopsInFinite
<1>3. StopsIn(Tail(s)) = {i \in 1..(Len(s) - 1) : s[i + 1] = "stop"}
  <2>1. StopsIn(Tail(s)) = {i \in 1..(Len(s) - 1) : Tail(s)[i] = "stop"}
    BY <1>1, StopsInFinite
  <2> QED BY <1>1, <2>1
<1>4. IsFiniteSet(StopsIn(s)) /\ Cardinality(StopsIn(s)) \in Nat
  BY StopsInFinite
<1> DEFINE next == [i \in StopsIn(Tail(s)) |-> i + 1]
<1>5. next \in [StopsIn(Tail(s)) -> StopsIn(s) \ {1}]
  BY <1>1, <1>2, <1>3
<1>6. \A i, j \in StopsIn(Tail(s)) : next[i] = next[j] => i = j
  BY <1>3
<1>7. next \in Injection(StopsIn(Tail(s)), StopsIn(s) \ {1})
  BY <1>5, <1>6, Fun_IsInj
<1>8. /\ IsFiniteSet(StopsIn(s) \ {1})
      /\ Cardinality(StopsIn(s) \ {1}) = IF 1 \in StopsIn(s) THEN Cardinality(StopsIn(s)) - 1
                                                             ELSE Cardinality(StopsIn(s))
  BY <1>4, FS_RemoveElement
<1>9. Cardinality(StopsIn(Tail(s))) <= Cardinality(StopsIn(s) \ {1})
  BY <1>7, <1>8, FS_Injection
<1>10. 1 \in StopsIn(s) <=> Head(s) = "stop"
  <2>1. 1 \in 1..Len(s)
    BY <1>1
  <2> QED BY <1>1, <1>2, <2>1
<1> QED BY <1>4, <1>8, <1>9, <1>10

\* Items of other kinds are none.
LEMMA StopsAppend ==
    ASSUME NEW T, NEW s \in Seq(T), NEW it \in T, it # "stop"
    PROVE  StopsIn(Append(s, it)) = StopsIn(s)
<1>1. /\ Append(s, it) \in Seq(T) /\ Len(Append(s, it)) = Len(s) + 1 /\ Len(s) \in Nat
      /\ \A i \in 1..Len(s) : Append(s, it)[i] = s[i]
      /\ Append(s, it)[Len(s) + 1] = it
  BY AppendProperties, LenProperties
<1>2. DOMAIN s = 1..Len(s) /\ DOMAIN Append(s, it) = 1..(Len(s) + 1)
  BY <1>1, LenProperties
<1>3. \A i \in 1..(Len(s) + 1) : i \in 1..Len(s) \/ i = Len(s) + 1
  BY <1>1
<1> QED BY <1>1, <1>2, <1>3 DEF StopsIn

\* As many as are asked, when there were none.
LEMMA StopsAsked ==
    ASSUME NEW T, NEW s \in Seq(T), StopsIn(s) = {}, NEW count \in Nat, "stop" \in T,
           [i \in 1..count |-> "stop"] \in Seq({"stop"})
    PROVE  Cardinality(StopsIn(s \o [i \in 1..count |-> "stop"])) <= count
<1> DEFINE t == [i \in 1..count |-> "stop"]
<1>1. t \in Seq(T)
  OBVIOUS
<1>2. Len(t) = count /\ Len(s) \in Nat
  BY LenProperties
<1> HIDE DEF t
<1>3. /\ s \o t \in Seq(T) /\ Len(s \o t) = Len(s) + count
      /\ \A i \in 1..Len(s) : (s \o t)[i] = s[i]
  <2>1. \A i \in 1..Len(s) : i \in 1..(Len(s) + Len(t)) /\ i <= Len(s)
    BY <1>2
  <2> QED BY <1>1, <1>2, <2>1, ConcatProperties
<1>4. \A i \in 1..Len(s) : s[i] # "stop"
  BY LenProperties DEF StopsIn
<1>5. StopsIn(s \o t) \subseteq (Len(s) + 1)..(Len(s) + count)
  BY <1>2, <1>3, <1>4, LenProperties DEF StopsIn
<1>6. /\ IsFiniteSet((Len(s) + 1)..(Len(s) + count))
      /\ Cardinality((Len(s) + 1)..(Len(s) + count)) = count
  <2>1. Len(s) + 1 \in Int /\ Len(s) + count \in Int
    BY <1>2
  <2>2. (IF Len(s) + 1 > Len(s) + count THEN 0 ELSE Len(s) + count - (Len(s) + 1) + 1) = count
    BY <1>2
  <2> QED BY <2>1, <2>2, FS_Interval
<1>7. Cardinality(StopsIn(s \o t)) <= count
  BY <1>5, <1>6, FS_Subset
<1> QED BY <1>7 DEF t

\* A step that neither asks nor stops a thread.
LEMMA StopSame ==
    ASSUME TypeOK, StopInv, StopsIn(data'["pool"]) = StopsIn(data["pool"]),
           \A v \in Workers : pc'[v] = "stop" <=> pc[v] = "stop",
           threads \subseteq threads', threads' \subseteq Workers,
           Exiting => Exiting', irregular \subseteq irregular'
    PROVE  StopInv'
<1>1. StopSet' = StopSet
  BY DEF StopSet
<1>2. /\ Cardinality(threads) <= Cardinality(threads')
      /\ Cardinality(threads) \in Nat /\ Cardinality(threads') \in Nat
  BY Finite, FS_Subset DEF TypeOK
<1>3. /\ Cardinality(StopsIn(data["pool"])) \in Nat
      /\ Cardinality(StopSet) \in Nat
  BY StopsFinite
<1> QED BY <1>1, <1>2, <1>3 DEF StopInv

\* Beacons are asked for while none is left, for fewer threads than there are.
LEMMA StopAsk ==
    ASSUME TypeOK, StopInv, NEW n \in Nat, AskToStop(n), threads' = threads, exit' = exit,
           \A v \in Workers : pc'[v] = "stop" <=> pc[v] = "stop"
    PROVE  StopInv'
<1>1. PICK count \in Nat :
              /\ count < Cardinality(threads)
              /\ [i \in 1..count |-> "stop"] \in Seq({"stop"})
              /\ data' = [data EXCEPT !["pool"] = @ \o [i \in 1..count |-> "stop"]]
              /\ irregular \subseteq irregular'
              /\ "overlapped" \in irregular' \/ count = 0 \/ ~StopsPending
  BY AskFacts
<1>2. data'["pool"] = data["pool"] \o [i \in 1..count |-> "stop"]
  BY <1>1, QueueTypes
<1>3. CASE "overlapped" \in irregular'
  BY <1>3 DEF StopInv
<1>4. CASE count = 0
  <2>1. [i \in 1..count |-> "stop"] = <<>>
    BY <1>4
  <2>2. data'["pool"] = data["pool"]
    BY <1>2, <2>1, QueueTypes, ConcatEmptySeq
  <2> QED BY <1>1, <2>2, StopSame DEF Exiting, TypeOK
<1>5. CASE ~StopsPending
  <2>1. StopsIn(data["pool"]) = {} /\ StopSet = {}
    BY <1>5 DEF StopsPending, Queued, StopsIn, StopSet
  <2>2. StopSet' = {}
    BY <2>1 DEF StopSet
  <2>3. Cardinality(StopsIn(data'["pool"])) <= count
    <3>1. data["pool"] \in Seq(Tasks \cup Beacons) /\ "stop" \in Tasks \cup Beacons
      BY QueueTypes DEF Beacons
    <3> QED BY <1>1, <1>2, <2>1, <3>1, StopsAsked
  <2>4. Cardinality(StopsIn(data'["pool"])) \in Nat
    <3>1. data'["pool"] \in Seq(Tasks \cup Beacons)
      <4>1. data' \in [Queues -> Seq(Tasks \cup Beacons)]
        BY AskType
      <4> QED BY <4>1, PoolFacts
    <3> QED BY <3>1, StopsInFinite
  <2> QED BY <1>1, <2>2, <2>3, <2>4, FS_EmptySet, StopsFinite DEF StopInv
<1> QED BY <1>1, <1>3, <1>4, <1>5

\* The first item of the queue is taken, by a thread that stops if it says so.
LEMMA StopTake ==
    ASSUME TypeOK, StopInv, NEW w \in Workers, NEW it, TakeItem("pool", it), Got(w, it),
           pc[w] # "stop", UNCHANGED <<threads, exit, irregular>>
    PROVE  StopInv'
<1>1. data["pool"] \in Seq(Tasks \cup Beacons) /\ data["pool"] # <<>> /\ it = Head(data["pool"])
  BY QueueTypes DEF TakeItem
<1>2. data'["pool"] = Tail(data["pool"])
  BY QueueTypes DEF TakeItem
<1>3. /\ Cardinality(StopsIn(data'["pool"])) <=
            Cardinality(StopsIn(data["pool"])) - (IF it = "stop" THEN 1 ELSE 0)
      /\ Cardinality(StopsIn(data["pool"])) \in Nat
  BY <1>1, <1>2, StopsTail, StopsFinite
<1>4. Cardinality(StopsIn(data'["pool"])) \in Nat
  <2>1. data'["pool"] \in Seq(Tasks \cup Beacons)
    BY <1>1, <1>2
  <2> QED BY <2>1, StopsInFinite
<1>5. PICK place \in {"events", "stop", "collect", "ended", "resize", "run"} :
              pc' = [pc EXCEPT ![w] = place] /\ (place = "stop" <=> it = "stop")
  BY GotPlace
<1>6. CASE it = "stop"
  <2>1. StopSet' = StopSet \cup {w} /\ w \notin StopSet
    BY <1>5, <1>6 DEF StopSet, TypeOK
  <2>2. Cardinality(StopSet') = Cardinality(StopSet) + 1
    BY <2>1, StopsFinite, FS_AddElement
  <2> QED BY <1>3, <1>4, <1>6, <2>2, StopsFinite DEF StopInv, Exiting
<1>7. CASE it # "stop"
  <2>1. StopSet' = StopSet
    BY <1>5, <1>7 DEF StopSet, TypeOK
  <2> QED BY <1>3, <1>4, <1>7, <2>1, StopsFinite DEF StopInv, Exiting
<1> QED BY <1>6, <1>7

\* An item of another kind is pushed.
LEMMA StopPush ==
    ASSUME TypeOK, NEW it \in (Tasks \cup Beacons) \ {"stop"}, Push("pool", it)
    PROVE  StopsIn(data'["pool"]) = StopsIn(data["pool"])
BY QueueTypes, StopsAppend DEF Push

\* Every step keeps the beacons to stop fewer than the threads.
LEMMA StopStep == TypeOK /\ ListInv /\ StopInv /\ [Next]_vars => StopInv'
<1> SUFFICES ASSUME TypeOK, ListInv, StopInv, [Next]_vars PROVE StopInv'
  OBVIOUS
<1>0. pc \in [Workers -> Places] /\ threads \subseteq Workers
  BY DEF TypeOK
<1>1. ASSUME data' = data, threads' = threads, Exiting => Exiting', irregular \subseteq irregular',
             \A v \in Workers : pc'[v] = "stop" <=> pc[v] = "stop"
      PROVE  StopInv'
  BY <1>0, <1>1, StopSame
<1>2. ASSUME NEW w \in Workers, Pop(w) \/ Wake(w) PROVE StopInv'
  <2>1. UNCHANGED <<threads, exit, irregular>> /\ pc[w] \in {"pop", "wait"}
    BY <1>2 DEF Pop, Wake, lists, ending
  <2>2. CASE \E it \in Tasks \cup Beacons : TakeItem("pool", it) /\ Got(w, it)
    BY <2>1, <2>2, StopTake
  <2>3. CASE data' = data /\ (GoTo(w, "wait") \/ Got(w, "timeout"))
    <3>1. PICK place : place # "stop" /\ pc' = [pc EXCEPT ![w] = place]
      BY <2>3, GotPlace DEF GoTo
    <3>2. \A v \in Workers : pc'[v] = "stop" <=> pc[v] = "stop"
      BY <1>0, <2>1, <3>1
    <3> QED BY <1>1, <2>1, <2>3, <3>2 DEF Exiting
  <2> QED BY <1>2, <2>2, <2>3 DEF Pop, Wake, PopAtOnce, PopWait, PopWoken, PopNothing
<1>3. ASSUME NEW w \in Workers, pc[w] # "stop", NEW place, place # "stop",
             pc' = [pc EXCEPT ![w] = place], UNCHANGED <<data, threads, exit, irregular>>
      PROVE  StopInv'
  <2>1. \A v \in Workers : pc'[v] = "stop" <=> pc[v] = "stop"
    BY <1>0, <1>3
  <2> QED BY <1>1, <1>3, <2>1 DEF Exiting
<1>4. ASSUME NEW w \in Workers, RunTask(w) \/ SkipTask(w) \/ ProcessEvents(w) \/ EventsEnd(w)
                                  \/ Resized(w)
      PROVE  StopInv'
  <2>1. AfterEvents(w) # "stop" /\ AfterResize(w) # "stop"
    BY DEF AfterEvents, AfterResize
  <2>2. \E place : place # "stop" /\ pc' = [pc EXCEPT ![w] = place] /\ pc[w] # "stop"
    BY <1>4, <2>1 DEF RunTask, SkipTask, TaskDone, ProcessEvents, EventsEnd, Resized, GoTo
  <2>3. UNCHANGED <<data, threads, exit, irregular>>
    BY <1>4 DEF RunTask, SkipTask, ProcessEvents, EventsEnd, Resized, queueVars, lists, ending
  <2> QED BY <1>3, <2>2, <2>3
<1>5. ASSUME NEW w \in Workers, EventRemoved(w) \/ EventKept(w) \/ \E e \in Events : EventDue(w, e)
      PROVE  StopInv'
  <2>1. \E place : place # "stop" /\ pc' = [pc EXCEPT ![w] = place] /\ pc[w] # "stop"
    BY <1>5 DEF EventRemoved, EventKept, EventDue, GoTo
  <2>2. UNCHANGED <<data, threads, exit, irregular>>
    BY <1>5 DEF EventRemoved, EventKept, EventDue, queueVars, lists, ending
  <2> QED BY <1>3, <2>1, <2>2
<1>6. ASSUME NEW w \in Workers, Unlink(w) PROVE StopInv'
  <2> SUFFICES ASSUME ~Exiting', "overlapped" \notin irregular'
               PROVE  Cardinality(StopsIn(data'["pool"])) + Cardinality(StopSet') < Cardinality(threads')
    BY DEF StopInv
  <2>1. /\ pc[w] = "stop" /\ pc' = [pc EXCEPT ![w] = "ask"] /\ threads' = threads \ {w}
        /\ UNCHANGED <<data, exit, irregular>>
    BY <1>6 DEF Unlink, GoTo, queueVars, ending
  <2>2. w \in threads
    BY <2>1 DEF ListInv, AtRest, Joined, Exiting
  <2>3. StopSet' = StopSet \ {w} /\ w \in StopSet
    BY <1>0, <2>1 DEF StopSet
  <2>4. Cardinality(StopSet') = Cardinality(StopSet) - 1
    BY <2>3, StopsFinite, FS_RemoveElement
  <2>5. Cardinality(threads') = Cardinality(threads) - 1
    BY <2>1, <2>2, StopsFinite, FS_RemoveElement
  <2>6. Cardinality(StopsIn(data["pool"])) + Cardinality(StopSet) < Cardinality(threads)
    BY <2>1 DEF StopInv, Exiting
  <2> QED BY <2>1, <2>4, <2>5, <2>6, StopsFinite
<1>7. ASSUME NEW w \in Workers, AskCollect(w) PROVE StopInv'
  <2>1. StopsIn(data'["pool"]) = StopsIn(data["pool"])
    <3>1. "collect" \in (Tasks \cup Beacons) \ {"stop"}
      BY DEF Beacons
    <3> QED BY <1>7, <3>1, StopPush DEF AskCollect
  <2>2. \A v \in Workers : pc'[v] = "stop" <=> pc[v] = "stop"
    BY <1>0, <1>7 DEF AskCollect, GoTo
  <2> QED BY <1>0, <1>7, <2>1, <2>2, StopSame DEF AskCollect, lists, ending, Exiting
<1>8. ASSUME NEW w \in Workers, Join(w) PROVE StopInv'
  <2>1. \A v \in Workers : pc'[v] = pc[v] \/ (pc[v] \in {"collect", "ended"} /\ pc'[v] \in {"pop", "none"})
    BY <1>8 DEF Join, TypeOK
  <2>2. UNCHANGED <<data, threads, exit, irregular>>
    BY <1>8 DEF Join, queueVars, ending
  <2> QED BY <1>1, <2>1, <2>2 DEF Exiting
<1>9. ASSUME NEW w \in Workers \cup {Nobody}, NEW n \in Nat, AddThreads(n), pc' = NewThreads(w),
             w # Nobody => pc[w] = "resize", UNCHANGED <<data, exit, irregular>>
      PROVE  StopInv'
  <2>1. \A v \in Workers : pc'[v] = "stop" <=> pc[v] = "stop"
    BY <1>9, AddPlaces DEF AfterResize
  <2>2. threads \subseteq threads' /\ threads' \subseteq Workers
    BY <1>9, AddType DEF AddThreads
  <2> QED BY <1>9, <2>1, <2>2, StopSame DEF Exiting
<1>10. ASSUME NEW w \in Workers, ResizeAdds(w) PROVE StopInv'
  BY <1>9, <1>10, PoolFacts DEF ResizeAdds, queueVars, ending
<1>11. CASE ReaderAdds \/ AddPool
  BY <1>9, <1>11, PoolFacts DEF ReaderAdds, AddPool, queueVars, ending
<1>12. ASSUME NEW w \in Workers, ResizeRemoves(w) PROVE StopInv'
  <2>1. \A v \in Workers : pc'[v] = "stop" <=> pc[v] = "stop"
    BY <1>0, <1>12 DEF ResizeRemoves, GoTo, AfterResize
  <2> QED BY <1>12, <2>1, StopAsk, PoolFacts DEF ResizeRemoves, lists, ending
<1>13. CASE ReaderRemoves \/ RemovePool
  BY <1>13, StopAsk, PoolFacts DEF ReaderRemoves, RemovePool, lists, workers, ending
<1>14. ASSUME NEW t \in Tasks, NewTask(t) PROVE StopInv'
  <2>1. StopsIn(data'["pool"]) = StopsIn(data["pool"])
    BY <1>14, StopPush, PoolFacts DEF NewTask
  <2> QED BY <1>0, <1>14, <2>1, StopSame DEF NewTask, lists, workers, ending, Exiting
<1>15. CASE PushFinish
  <2>1. StopsIn(data'["pool"]) = StopsIn(data["pool"])
    <3>1. "finish" \in (Tasks \cup Beacons) \ {"stop"}
      BY DEF Beacons
    <3> QED BY <1>15, <3>1, StopPush DEF PushFinish
  <2> QED BY <1>0, <1>15, <2>1, StopSame DEF PushFinish, lists, workers, Exiting
<1>16. CASE (\E e \in Events : NewEvent(e) \/ RemoveEvent(e)) \/ UNCHANGED vars
  BY <1>1, <1>16 DEF NewEvent, RemoveEvent, vars, queueVars, lists, workers, ending, Exiting
<1>17. ASSUME Exiting' PROVE StopInv'
  BY <1>17 DEF StopInv
<1>18. CASE StartExit \/ BeingClosed \/ AllPushed \/ JoinThreads \/ JoinStopped
  BY <1>17, <1>18 DEF StartExit, BeingClosed, AllPushed, JoinThreads, JoinStopped, ExitGoesTo, Exiting
<1> QED BY <1>2, <1>4, <1>5, <1>6, <1>7, <1>8, <1>10, <1>11, <1>12, <1>13, <1>14, <1>15, <1>16, <1>18
           DEF Next, Worker, Exit

\* The pool keeps a thread (vortex_thread_pool_remove leaves one at least), as long as no
\* threads are removed while others asked to stop are still counted.
THEOREM AThreadIsLeft == Spec => []OneThreadLeft
<1>1. Init => StopInv
  <2> SUFFICES ASSUME Init PROVE StopInv
    OBVIOUS
  <2>1. StopsIn(data["pool"]) = {} /\ StopSet = {}
    BY PoolFacts DEF Init, QueueInit, StopsIn, StopSet
  <2>2. Cardinality(threads) \in Nat /\ Cardinality(threads) # 0
    BY PoolFacts, Finite, FS_EmptySet DEF Init
  <2> QED BY <2>1, <2>2, FS_EmptySet DEF StopInv
<1>2. TypeOK /\ StopInv => OneThreadLeft
  BY StopsFinite, FS_EmptySet DEF StopInv, OneThreadLeft
<1> QED BY <1>1, <1>2, StopStep, Types, Listed, PTL DEF Spec

-----------------------------------------------------------------------------
(* The end of the context *)

\* Nothing is being removed from the time the threads are joined, if nothing was then.
Joining == exit \in {"join", "stopped", "done"} /\ "removing" \notin irregular
RemovingInv == Joining => ~Removing

\* Then the threads the list had have ended, but for the one that ends the context.
JoinedInv ==
    Joined /\ "removing" \notin irregular =>
        \A w \in Workers : w = exiter \/ pc[w] \in {"none", "ended"}

\* Nothing is removed after a step that queues no such beacon and leads no thread there.
LEMMA RemovingSame ==
    ASSUME ~Removing,
           Queued("stop")' => Queued("stop"), Queued("collect")' => Queued("collect"),
           \A v \in Workers : pc'[v] \in {"stop", "ask", "collect"} => pc'[v] = pc[v]
    PROVE  ~Removing'
<1>1. ~Queued("stop") /\ ~Queued("collect") /\ \A v \in Workers : pc[v] \notin {"stop", "ask", "collect"}
  BY DEF Removing, StopsPending
<1>2. ~Queued("stop")' /\ ~Queued("collect")' /\ \A v \in Workers : pc'[v] \notin {"stop", "ask", "collect"}
  BY <1>1
<1> QED BY <1>2 DEF Removing, StopsPending

\* Of a queue without such a beacon none is taken.
LEMMA TakeNothing ==
    ASSUME TypeOK, NEW b, ~Queued(b), NEW it, TakeItem("pool", it)
    PROVE  it # b /\ ~Queued(b)'
<1>1. data["pool"] \in Seq(Tasks \cup Beacons) /\ data["pool"] # <<>> /\ it = Head(data["pool"])
  BY QueueTypes DEF TakeItem
<1>2. data'["pool"] = Tail(data["pool"])
  BY QueueTypes DEF TakeItem
<1>3. /\ Tail(data["pool"]) \in Seq(Tasks \cup Beacons) /\ Len(Tail(data["pool"])) = Len(data["pool"]) - 1
      /\ Len(data["pool"]) \in Nat \ {0} /\ it = data["pool"][1]
      /\ \A i \in 1..Len(Tail(data["pool"])) : Tail(data["pool"])[i] = data["pool"][i + 1]
  BY <1>1, HeadTailProperties, EmptySeq
<1>4. DOMAIN data["pool"] = 1..Len(data["pool"]) /\ DOMAIN data'["pool"] = 1..(Len(data["pool"]) - 1)
  BY <1>1, <1>2, <1>3, LenProperties
<1>5. \A i \in 1..Len(data["pool"]) : data["pool"][i] # b
  BY <1>4 DEF Queued
<1>6. \A i \in 1..(Len(data["pool"]) - 1) : i + 1 \in 1..Len(data["pool"])
  BY <1>3
<1>7. 1 \in 1..Len(data["pool"])
  BY <1>3
<1> QED BY <1>2, <1>3, <1>4, <1>5, <1>6, <1>7 DEF Queued

\* While the threads are joined a thread may only do what removes nothing.
LEMMA JoiningWorker ==
    ASSUME TypeOK, Joining, ~Removing, NEW w \in Workers, Worker(w)
    PROVE  ~Removing' /\ UNCHANGED <<exit, exiter, irregular, threads>>
           /\ pc[w] \notin {"none", "ended"} /\ \A v \in Workers : v # w => pc'[v] = pc[v]
<1>0. pc \in [Workers -> Places] /\ Exiting
  BY DEF TypeOK, Joining, Exiting
<1>1. ~Queued("stop") /\ ~Queued("collect") /\ \A v \in Workers : pc[v] \notin {"stop", "ask", "collect"}
  BY DEF Removing, StopsPending
<1>2. ~Unlink(w) /\ ~AskCollect(w) /\ ~Join(w) /\ ~ResizeAdds(w) /\ ~ResizeRemoves(w)
  BY <1>0, <1>1 DEF Unlink, AskCollect, Join, ResizeAdds, ResizeRemoves
<1>3. ASSUME NEW place, place \notin {"stop", "ask", "collect"}, pc' = [pc EXCEPT ![w] = place],
             ~Queued("stop")', ~Queued("collect")', UNCHANGED <<exit, exiter, irregular, threads>>,
             pc[w] \notin {"none", "ended"}
      PROVE  ~Removing' /\ UNCHANGED <<exit, exiter, irregular, threads>>
             /\ pc[w] \notin {"none", "ended"} /\ \A v \in Workers : v # w => pc'[v] = pc[v]
  <2>1. \A v \in Workers : pc'[v] \in {"stop", "ask", "collect"} => pc'[v] = pc[v]
    BY <1>0, <1>3
  <2>2. ~Removing'
    BY <1>3, <2>1, RemovingSame
  <2> QED BY <1>0, <1>3, <2>2
<1>4. CASE Pop(w) \/ Wake(w)
  <2>1. UNCHANGED <<exit, exiter, irregular, threads>> /\ pc[w] \notin {"none", "ended"}
    BY <1>4 DEF Pop, Wake, lists, ending
  <2>2. CASE \E it \in Tasks \cup Beacons : TakeItem("pool", it) /\ Got(w, it)
    <3>1. PICK it \in Tasks \cup Beacons : TakeItem("pool", it) /\ Got(w, it)
      BY <2>2
    <3>2. it # "stop" /\ it # "collect" /\ ~Queued("stop")' /\ ~Queued("collect")'
      BY <1>1, <3>1, TakeNothing
    <3>3. PICK place : place \notin {"stop", "ask", "collect"} /\ pc' = [pc EXCEPT ![w] = place]
      BY <3>1, <3>2, GotPlace
    <3> QED BY <1>3, <2>1, <3>2, <3>3
  <2>3. CASE data' = data /\ (GoTo(w, "wait") \/ Got(w, "timeout"))
    <3>1. PICK place : place \notin {"stop", "ask", "collect"} /\ pc' = [pc EXCEPT ![w] = place]
      BY <2>3, GotPlace DEF GoTo
    <3> QED BY <1>1, <1>3, <2>1, <2>3, <3>1 DEF Queued
  <2> QED BY <1>4, <2>2, <2>3 DEF Pop, Wake, PopAtOnce, PopWait, PopWoken, PopNothing
<1>5. CASE RunTask(w) \/ SkipTask(w) \/ ProcessEvents(w) \/ EventsEnd(w) \/ Resized(w)
            \/ EventRemoved(w) \/ EventKept(w) \/ \E e \in Events : EventDue(w, e)
  <2>1. /\ AfterEvents(w) \notin {"stop", "ask", "collect"}
        /\ AfterResize(w) \notin {"stop", "ask", "collect"}
    BY DEF AfterEvents, AfterResize
  <2>2. \E place : /\ place \notin {"stop", "ask", "collect"} /\ pc' = [pc EXCEPT ![w] = place]
                   /\ pc[w] \notin {"none", "ended"}
    BY <1>5, <2>1 DEF RunTask, SkipTask, TaskDone, ProcessEvents, EventsEnd, Resized, EventRemoved,
                      EventKept, EventDue, GoTo
  <2>3. UNCHANGED <<data, exit, exiter, irregular, threads>>
    BY <1>5 DEF RunTask, SkipTask, ProcessEvents, EventsEnd, Resized, EventRemoved, EventKept,
                EventDue, queueVars, lists, ending
  <2> QED BY <1>1, <1>3, <2>2, <2>3 DEF Queued
<1> QED BY <1>2, <1>4, <1>5 DEF Worker

\* Every step that ends the context leaves nothing being removed,
LEMMA RemovingStep == TypeOK /\ RemovingInv /\ [Next]_vars => RemovingInv'
<1> SUFFICES ASSUME TypeOK, RemovingInv, [Next]_vars, Joining' PROVE ~Removing'
  BY DEF RemovingInv
<1>1. CASE AllPushed
  <2>1. ~Removing
    BY <1>1 DEF AllPushed, Note, Joining
  <2> QED BY <1>1, <2>1, RemovingSame DEF AllPushed, queueVars, workers, Queued
<1>2. ASSUME NEW w \in Workers, Worker(w) PROVE ~Removing'
  <2>1. Joining
    <3>1. exit' = exit
      BY <1>2 DEF Worker, Pop, Wake, RunTask, SkipTask, Unlink, AskCollect, Join, ProcessEvents,
                  EventDue, EventRemoved, EventKept, EventsEnd, ResizeAdds, ResizeRemoves, Resized, ending
    <3>2. irregular \subseteq irregular'
      <4>1. CASE ResizeRemoves(w)
        BY <4>1 DEF ResizeRemoves, AskToStop, Note
      <4>2. CASE ~ResizeRemoves(w)
        BY <1>2, <4>2 DEF Worker, Pop, Wake, RunTask, SkipTask, Unlink, AskCollect, Join,
                  ProcessEvents, EventDue, EventRemoved, EventKept, EventsEnd, ResizeAdds, Resized
      <4> QED BY <4>1, <4>2
    <3> QED BY <3>1, <3>2 DEF Joining
  <2> QED BY <1>2, <2>1, JoiningWorker DEF RemovingInv
<1>3. CASE ReaderAdds \/ ReaderRemoves \/ AddPool \/ RemovePool \/ StartExit \/ BeingClosed \/ PushFinish
            \/ (\E t \in Tasks : NewTask(t)) \/ \E e \in Events : NewEvent(e) \/ RemoveEvent(e)
  BY <1>3 DEF ReaderAdds, ReaderRemoves, AddPool, RemovePool, StartExit, BeingClosed, PushFinish,
              NewTask, NewEvent, RemoveEvent, ExitGoesTo, Exiting, BeingStopped, ending, Joining, TypeOK
<1>4. CASE JoinThreads \/ JoinStopped \/ UNCHANGED vars
  <2>1. UNCHANGED <<data, pc, irregular>> /\ Joining
    BY <1>4 DEF JoinThreads, JoinStopped, vars, queueVars, workers, ending, Joining
  <2> QED BY <2>1, RemovingSame DEF RemovingInv, Queued
<1> QED BY <1>1, <1>2, <1>3, <1>4 DEF Next, Exit

\* and after the joins no thread but that of the exit.
LEMMA JoinedStep == TypeOK /\ ListInv /\ RemovingInv /\ JoinedInv /\ [Next]_vars => JoinedInv'
<1> SUFFICES ASSUME TypeOK, ListInv, RemovingInv, JoinedInv, [Next]_vars,
                    Joined', "removing" \notin irregular', NEW v \in Workers
             PROVE  v = exiter' \/ pc'[v] \in {"none", "ended"}
  BY DEF JoinedInv
<1>1. CASE JoinThreads
  <2>1. exit = "join" /\ UNCHANGED <<pc, exiter, irregular>>
    BY <1>1 DEF JoinThreads, ExitGoesTo, workers
  <2>2. ~Removing
    BY <2>1 DEF RemovingInv, Joining
  <2>3. pc[v] \notin {"ask", "stop", "collect"}
    BY <2>2 DEF Removing, StopsPending
  <2>4. CASE v \in threads \ {exiter}
    BY <1>1, <2>1, <2>4 DEF JoinThreads
  <2>5. CASE v \notin threads
    BY <2>1, <2>3, <2>5 DEF ListInv, AtRest, Joined
  <2> QED BY <2>1, <2>4, <2>5
<1>2. ASSUME NEW w \in Workers, Worker(w), Joined PROVE v = exiter' \/ pc'[v] \in {"none", "ended"}
  <2>1. irregular \subseteq irregular'
    <3>1. CASE ResizeRemoves(w)
      BY <1>2, <3>1 DEF ResizeRemoves, Joined, Exiting
    <3>2. CASE ~ResizeRemoves(w)
      BY <1>2, <3>2 DEF Worker, Pop, Wake, RunTask, SkipTask, Unlink, AskCollect, Join,
                ProcessEvents, EventDue, EventRemoved, EventKept, EventsEnd, ResizeAdds, Resized
    <3> QED BY <3>1, <3>2
  <2>2. Joining /\ ~Removing
    BY <1>2, <2>1 DEF Joining, Joined, RemovingInv
  <2> QED BY <1>2, <2>1, <2>2, JoiningWorker DEF JoinedInv
<1>3. CASE ReaderAdds \/ ReaderRemoves \/ AddPool \/ RemovePool \/ StartExit \/ BeingClosed \/ PushFinish
            \/ AllPushed \/ (\E t \in Tasks : NewTask(t)) \/ \E e \in Events : NewEvent(e) \/ RemoveEvent(e)
  BY <1>3 DEF ReaderAdds, ReaderRemoves, AddPool, RemovePool, StartExit, BeingClosed, PushFinish, AllPushed,
              NewTask, NewEvent, RemoveEvent, ExitGoesTo, Exiting, BeingStopped, ending, Joined, TypeOK
<1>4. CASE JoinStopped \/ UNCHANGED vars
  BY <1>4 DEF JoinStopped, ExitGoesTo, vars, workers, ending, Joined, JoinedInv
<1>5. ASSUME NEW w \in Workers, Worker(w), ~Joined PROVE FALSE
  BY <1>5 DEF Worker, Pop, Wake, RunTask, SkipTask, Unlink, AskCollect, Join, ProcessEvents, EventDue,
              EventRemoved, EventKept, EventsEnd, ResizeAdds, ResizeRemoves, Resized, ending, Joined
<1> QED BY <1>1, <1>2, <1>3, <1>4, <1>5 DEF Next, Exit

\* vortex_thread_pool_exit releases lists that no thread uses any more, if no thread was
\* being removed when it had pushed its beacons.
THEOREM ReleasedAfterUse == Spec => []ReleasedUnused
<1>1. Init => RemovingInv /\ JoinedInv
  BY DEF Init, RemovingInv, JoinedInv, Joining, Joined
<1>2. RemovingInv /\ JoinedInv => ReleasedUnused
  BY DEF RemovingInv, JoinedInv, Joining, Joined, Removing, StopsPending, ReleasedUnused, Released
<1> QED BY <1>1, <1>2, RemovingStep, JoinedStep, Types, Listed, PTL DEF Spec

=============================================================================
