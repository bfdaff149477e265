----------------------------- MODULE ThreadPool -----------------------------
(***************************************************************************)
(* The thread pool of a context (vortex_thread_pool.c) and the queue its   *)
(* threads wait on.                                                        *)
(*                                                                         *)
(* pc[w] follows __vortex_thread_pool_dispatcher and what it calls.  What  *)
(* is done under the mutex of the pool is one step (the checks before it   *)
(* are repeated with it), and so is what is done under stopped_mutex.      *)
(* Periods are not counted: whether one has passed is left open.  exit     *)
(* follows vortex_exit_ctx, called by the application or by a task.        *)
(***************************************************************************)
EXTENDS AsyncQueue, Functions

CONSTANTS
    Workers,        \* the threads there may be
    Initial,        \* those vortex_thread_pool_init starts
    Tasks, Events,  \* a task is queued once
    thread_max_limit, thread_add_step, thread_remove_step, preemtive,
    MaxRemoves,     \* bound: calls of vortex_thread_pool_remove
    MaxAdds,        \* bound: calls of vortex_thread_pool_add
    MayExit,        \* the context may end
    Nobody

PoolAssumption ==
    /\ Initial \subseteq Workers /\ Initial # {} /\ Nobody \notin Workers \cup Events
    /\ IsFiniteSet(Workers) /\ Tasks \cap {"finish", "stop", "collect", "timeout"} = {}
    /\ Queues = {"pool"} /\ {MayExit, preemtive} \subseteq BOOLEAN
    /\ thread_max_limit \in Nat /\ {thread_add_step, thread_remove_step} \subseteq Nat \ {0}
ASSUME PoolAssumption

VARIABLES
    threads, stopped,       \* the lists of the pool
    pc, item,               \* where a worker is, and the task it popped
    removes, adds,
    events, ref_count,      \* events in the list, references of an event
    processing_events, to_see, \* by a worker, and the events it has not seen
    calling,                \* the event whose handler a worker calls
    exit, exiter, iterator, \* where vortex_exit_ctx is, in whom, beacons pushed
    installed,              \* tasks queued so far
    irregular               \* history: what excuses the properties

lists   == <<threads, stopped>>
workers == <<pc, item>>
config  == <<removes, adds>>
evs     == <<events, ref_count, processing_events, to_see, calling>>
ending  == <<exit, exiter, iterator>>
vars == <<queueVars, lists, workers, config, evs, ending, installed, irregular>>

\* Beacons: finish (1), stop (2) and collect (3); timeout is a NULL.
Beacons == {"finish", "stop", "collect"}

\* overlapped: threads are removed while others that were asked to stop still count
\* removing:   the context ends while a thread is being removed
Irregularities == {"overlapped", "removing"}
Note(event, condition) ==
    irregular' = irregular \cup (IF condition THEN {event} ELSE {})

Init ==
    /\ QueueInit
    /\ threads = Initial /\ stopped = <<>>
    /\ pc = [w \in Workers |-> IF w \in Initial THEN "pop" ELSE "none"]
    /\ item = [w \in Workers |-> "timeout"]
    /\ removes = 0 /\ adds = 0
    /\ events = {} /\ ref_count = [e \in Events |-> 0]
    /\ processing_events = FALSE /\ to_see = {}
    /\ calling = [w \in Workers |-> Nobody]
    /\ exit = "no" /\ exiter = Nobody /\ iterator = 0
    /\ installed = {} /\ irregular = {}

\* vortex_is_exiting, thread_pool_being_stopped and the pool itself.
Exiting == exit # "no"
BeingStopped == exit \notin {"no", "flagged"}
Released == exit = "done"

GoTo(w, place) == pc' = [pc EXCEPT ![w] = place]

\* A thread was asked to stop and is still in the list, or waits to be collected.
Queued(it) == \E i \in DOMAIN data["pool"] : data["pool"][i] = it
StopsPending == Queued("stop") \/ \E w \in Workers : pc[w] = "stop"
Removing ==
    \/ StopsPending \/ Queued("collect")
    \/ \E w \in Workers : pc[w] \in {"ask", "collect"}

\* The worker is inside vortex_exit_ctx.
InExit(w) == exiter = w /\ ~Released

-----------------------------------------------------------------------------
(* A worker *)

Got(w, it) ==
    /\ item' = [item EXCEPT ![w] = IF it \in Tasks THEN it ELSE "timeout"]
    /\ GoTo(w, CASE it = "timeout" -> "events"
                 [] it \in {"stop", "collect"} -> it
                 [] it = "finish" -> "ended"
                 [] OTHER -> IF preemtive THEN "resize" ELSE "run")

Pop(w) ==
    /\ pc[w] = "pop"
    /\ \/ \E it \in Tasks \cup Beacons : PopAtOnce("pool", it) /\ Got(w, it)
       \/ PopWait("pool", w) /\ GoTo(w, "wait") /\ UNCHANGED item
    /\ UNCHANGED <<lists, config, evs, ending, installed, irregular>>

\* The wait ends with a signal or after 100 ms.
Wake(w) ==
    /\ pc[w] = "wait"
    /\ \/ \E it \in Tasks \cup Beacons : PopWoken("pool", w, it) /\ Got(w, it)
       \/ PopNothing("pool", w) /\ Got(w, "timeout")
    /\ UNCHANGED <<lists, config, evs, ending, installed, irregular>>

\* func (data) is called, unless the context ends before; a preemtive pool keeps in
\* mind that it had a task, and does not resize after it.
TaskDone(w) ==
    /\ GoTo(w, "events")
    /\ item' = [item EXCEPT ![w] = IF preemtive THEN @ ELSE "timeout"]

RunTask(w) ==
    /\ pc[w] = "run" /\ ~InExit(w)
    /\ TaskDone(w)
    /\ UNCHANGED <<queueVars, lists, config, evs, ending, installed, irregular>>

SkipTask(w) ==
    /\ pc[w] = "run" /\ Exiting /\ exiter # w
    /\ TaskDone(w)
    /\ UNCHANGED <<queueVars, lists, config, evs, ending, installed, irregular>>

\* A beacon to stop: the worker leaves the list of threads for that of the stopped,
Unlink(w) ==
    /\ pc[w] = "stop"
    /\ threads' = threads \ {w} /\ stopped' = Append(stopped, w)
    /\ GoTo(w, "ask")
    /\ UNCHANGED <<queueVars, item, config, evs, ending, installed, irregular>>

\* asks another thread to collect it, and ends.
AskCollect(w) ==
    /\ pc[w] = "ask"
    /\ Push("pool", "collect") /\ GoTo(w, "ended")
    /\ UNCHANGED <<lists, item, config, evs, ending, installed, irregular>>

\* The one that collects joins the first of the list, with stopped_mutex:
\* the one it waits for has left its last critical section.
Join(w) ==
    /\ pc[w] = "collect"
    /\ stopped # <<>> => pc[Head(stopped)] = "ended"
    /\ stopped' = IF stopped = <<>> THEN stopped ELSE Tail(stopped)
    /\ pc' = [v \in Workers |-> IF v = w THEN "pop"
                                ELSE IF stopped # <<>> /\ v = Head(stopped) THEN "none" ELSE pc[v]]
    /\ UNCHANGED <<queueVars, threads, item, config, evs, ending, installed, irregular>>

-----------------------------------------------------------------------------
(* Events, after a task or a wait *)

\* __vortex_thread_pool_process_events: one worker at a time goes through the list,
AfterEvents(w) == IF preemtive /\ item[w] # "timeout" THEN "pop" ELSE "resize"

\* Mutant: any worker may.
NeverBusy == FALSE

BusyProcessing == processing_events
ProcessEvents(w) ==
    /\ pc[w] = "events"
    /\ IF BusyProcessing \/ events = {} \/ Exiting
       THEN GoTo(w, AfterEvents(w)) /\ UNCHANGED <<processing_events, to_see>>
       ELSE GoTo(w, "next event") /\ processing_events' = TRUE /\ to_see' = events
    /\ UNCHANGED <<queueVars, lists, item, config, events, ref_count, calling, ending,
                   installed, irregular>>

\* and calls the handler of each event that is due, with a reference to it.
EventDue(w, e) ==
    /\ pc[w] = "next event" /\ e \in events \cap to_see
    /\ to_see' = to_see \ {e}
    /\ ref_count' = [ref_count EXCEPT ![e] = @ + 1]
    /\ calling' = [calling EXCEPT ![w] = e]
    /\ GoTo(w, "call event")
    /\ UNCHANGED <<queueVars, lists, item, config, events, processing_events,
                   ending, installed, irregular>>

\* A handler that returns true has its event removed, unless somebody did it in
\* between; the event is released with its last reference.
EventRemoved(w) ==
    /\ pc[w] = "call event"
    /\ LET e == calling[w]
       IN  /\ events' = events \ {e}
           /\ ref_count' = [ref_count EXCEPT ![e] = @ - (IF e \in events THEN 2 ELSE 1)]
    /\ calling' = [calling EXCEPT ![w] = Nobody]
    /\ GoTo(w, "next event")
    /\ UNCHANGED <<queueVars, lists, item, config, processing_events, to_see, ending, installed, irregular>>

\* One that returns false is called again.
EventKept(w) ==
    /\ pc[w] = "call event"
    /\ ref_count' = [ref_count EXCEPT ![calling[w]] = @ - 1]
    /\ calling' = [calling EXCEPT ![w] = Nobody]
    /\ GoTo(w, "next event")
    /\ UNCHANGED <<queueVars, lists, item, config, events, processing_events, to_see, ending,
                   installed, irregular>>

EventsEnd(w) ==
    /\ pc[w] = "next event"
    /\ GoTo(w, AfterEvents(w)) /\ processing_events' = FALSE /\ to_see' = {}
    /\ UNCHANGED <<queueVars, lists, item, config, events, ref_count, calling, ending,
                   installed, irregular>>

-----------------------------------------------------------------------------
(* The number of threads *)

\* vortex_thread_pool_add_internal: new threads.
AddThreads(n) ==
    \E new \in {S \in SUBSET {w \in Workers : pc[w] = "none"} : Cardinality(S) = n} :
        threads' = threads \cup new

\* Mutant: the last thread may be asked too.
AskToStopAll(n) ==
    /\ data' = [data EXCEPT !["pool"] = @ \o [i \in 1..n |-> "stop"]]
    /\ asleep' = [asleep EXCEPT !["pool"] = {}]
    /\ UNCHANGED waiters
    /\ Note("overlapped", StopsPending)

\* vortex_thread_pool_remove_internal: beacons, for all threads but one.
AskToStop(n) ==
    LET count == IF n < Cardinality(threads) THEN n ELSE Cardinality(threads) - 1
    IN  /\ data' = [data EXCEPT !["pool"] = @ \o [i \in 1..count |-> "stop"]]
        /\ \E S \in SUBSET asleep["pool"] :
              /\ Cardinality(S) = count \/ (S = asleep["pool"] /\ Cardinality(S) < count)
              /\ asleep' = [asleep EXCEPT !["pool"] = @ \ S]
        /\ UNCHANGED waiters
        /\ Note("overlapped", count > 0 /\ StopsPending)

\* __vortex_thread_pool_automatic_resize, if the period since the last change passed.
base_thread_num == Cardinality(Initial)

AddsNow ==
    /\ Cardinality(threads) < thread_max_limit
    /\ waiters["pool"] = 0 /\ data["pool"] # <<>>

RemovesNow ==
    /\ data["pool"] = <<>>
    /\ Cardinality(threads) > base_thread_num
    /\ waiters["pool"] + 2 > base_thread_num

\* After it a task that was popped is run, if it was not before.
AfterResize(w) == IF preemtive /\ item[w] # "timeout" THEN "run" ELSE "pop"

NewThreads(w) == [v \in Workers |->
    IF v \in threads' \ threads THEN "pop" ELSE IF v = w THEN AfterResize(w) ELSE pc[v]]

ResizeAdds(w) ==
    /\ pc[w] = "resize" /\ ~Exiting /\ AddsNow
    /\ AddThreads(thread_add_step) /\ pc' = NewThreads(w)
    /\ UNCHANGED <<queueVars, stopped, item, config, evs, ending,
                   installed, irregular>>

ResizeRemoves(w) ==
    /\ pc[w] = "resize" /\ ~Exiting /\ RemovesNow
    /\ AskToStop(thread_remove_step) /\ GoTo(w, AfterResize(w))
    /\ UNCHANGED <<lists, item, config, evs, ending, installed>>

Resized(w) ==
    /\ pc[w] = "resize" /\ GoTo(w, AfterResize(w))
    /\ UNCHANGED <<queueVars, lists, item, config, evs, ending, installed, irregular>>

\* The reader does the same once in each round of its loop.
ReaderAdds ==
    /\ ~Exiting /\ AddsNow
    /\ AddThreads(thread_add_step) /\ pc' = NewThreads(Nobody)
    /\ UNCHANGED <<queueVars, stopped, item, config, evs, ending, installed, irregular>>

ReaderRemoves ==
    /\ ~Exiting /\ RemovesNow
    /\ AskToStop(thread_remove_step)
    /\ UNCHANGED <<lists, workers, config, evs, ending, installed>>

Worker(w) ==
    \/ Pop(w) \/ Wake(w) \/ RunTask(w) \/ SkipTask(w)
    \/ Unlink(w) \/ AskCollect(w)
    \/ Join(w)
    \/ ProcessEvents(w) \/ (\E e \in Events : EventDue(w, e))
    \/ EventRemoved(w) \/ EventKept(w) \/ EventsEnd(w)
    \/ ResizeAdds(w) \/ ResizeRemoves(w) \/ Resized(w)

-----------------------------------------------------------------------------
(* The application, which makes no calls to the pool once it ends *)

NewTask(t) ==
    /\ ~BeingStopped /\ t \notin installed
    /\ Push("pool", t)
    /\ installed' = installed \cup {t}
    /\ UNCHANGED <<lists, workers, config, evs, ending, irregular>>

NewEvent(e) ==
    /\ ~BeingStopped /\ ref_count[e] = 0
    /\ events' = events \cup {e}
    /\ ref_count' = [ref_count EXCEPT ![e] = 1]
    /\ UNCHANGED <<queueVars, lists, workers, config, processing_events, to_see,
                   calling, ending, installed, irregular>>

RemoveEvent(e) ==
    /\ ~BeingStopped /\ e \in events
    /\ events' = events \ {e}
    /\ ref_count' = [ref_count EXCEPT ![e] = @ - 1]
    /\ UNCHANGED <<queueVars, lists, workers, config, processing_events, to_see, calling, ending,
                   installed, irregular>>

AddPool ==
    /\ ~Exiting /\ adds < MaxAdds
    /\ adds' = adds + 1
    /\ AddThreads(1) /\ pc' = NewThreads(Nobody)
    /\ UNCHANGED <<queueVars, stopped, item, removes, evs, ending, installed, irregular>>

RemovePool ==
    /\ ~Exiting /\ removes < MaxRemoves
    /\ removes' = removes + 1
    /\ AskToStop(1)
    /\ UNCHANGED <<lists, workers, adds, evs, ending, installed>>

-----------------------------------------------------------------------------
(* The end of the context *)

ExitGoesTo(place) == exit' = place /\ UNCHANGED exiter

\* vortex_exit_ctx flags the context, in the application or in a task,
StartExit ==
    /\ MayExit /\ exit = "no"
    /\ exit' = "flagged"
    /\ exiter' \in {Nobody} \cup {w \in Workers : pc[w] = "run"}
    /\ UNCHANGED <<queueVars, lists, workers, config, evs, iterator, installed, irregular>>

\* vortex_thread_pool_being_closed flags the pool, which takes no more tasks;
BeingClosed ==
    /\ exit = "flagged" /\ ExitGoesTo("beacons")
    /\ UNCHANGED <<queueVars, lists, workers, config, evs, iterator, installed, irregular>>

\* Mutant: one beacon less.
PushFinishButOne ==
    /\ exit = "beacons" /\ iterator < Cardinality(threads)
    /\ iterator' = iterator + 1
    /\ IF iterator = 0 THEN UNCHANGED queueVars ELSE Push("pool", "finish")
    /\ UNCHANGED <<lists, workers, config, evs, exit, exiter, installed, irregular>>

\* vortex_thread_pool_exit pushes a beacon for each thread there still is,
PushFinish ==
    /\ exit = "beacons" /\ iterator < Cardinality(threads)
    /\ iterator' = iterator + 1
    /\ Push("pool", "finish")
    /\ UNCHANGED <<lists, workers, config, evs, exit, exiter, installed, irregular>>

AllPushed ==
    /\ exit = "beacons" /\ iterator >= Cardinality(threads)
    /\ ExitGoesTo("join")
    /\ Note("removing", Removing)
    /\ UNCHANGED <<queueVars, lists, workers, config, evs, iterator, installed>>

\* Mutant: the threads of the list are not waited for.
JoinNobody ==
    /\ exit = "join" /\ threads' = {} /\ ExitGoesTo("stopped")
    /\ UNCHANGED <<queueVars, stopped, workers, config, evs, iterator, installed, irregular>>

\* joins the threads of the list, but for the one it runs in,
JoinThreads ==
    /\ exit = "join" /\ \A w \in threads \ {exiter} : pc[w] = "ended"
    /\ threads' = {} /\ ExitGoesTo("stopped")
    /\ UNCHANGED <<queueVars, stopped, workers, config, evs, iterator, installed,
                   irregular>>

\* and those nobody collected, and releases the pool.
JoinStopped ==
    /\ exit = "stopped" /\ \A w \in Range(stopped) : pc[w] = "ended"
    /\ stopped' = <<>> /\ events' = {}
    /\ ExitGoesTo("done")
    /\ UNCHANGED <<queueVars, threads, workers, config, ref_count,
                   processing_events, to_see, calling, iterator, installed, irregular>>

Exit == BeingClosed \/ PushFinish \/ AllPushed \/ JoinThreads \/ JoinStopped

Next ==
    \/ \E w \in Workers : Worker(w)
    \/ \E t \in Tasks : NewTask(t)
    \/ \E e \in Events : NewEvent(e) \/ RemoveEvent(e)
    \/ AddPool \/ RemovePool \/ ReaderAdds \/ ReaderRemoves
    \/ StartExit \/ Exit

\* Threads go on, and what a thread calls returns; the application owes nothing.
Spec == /\ Init /\ [][Next]_vars
        /\ \A w \in Workers : WF_vars(Worker(w))
        /\ WF_vars(Exit)

-----------------------------------------------------------------------------
(* Properties *)

Places == {"none", "pop", "wait", "run", "stop", "ask", "collect", "events", "next event",
           "call event", "resize", "ended"}

TypeOK ==
    /\ pc \in [Workers -> Places] /\ processing_events \in BOOLEAN
    /\ exit \in {"no", "flagged", "beacons", "join", "stopped", "done"}
    /\ exiter \in Workers \cup {Nobody} /\ iterator \in Nat
    /\ data \in [Queues -> Seq(Tasks \cup Beacons)]
    /\ waiters \in [Queues -> Nat]
    /\ asleep \in [Queues -> SUBSET Workers]
    /\ threads \subseteq Workers /\ stopped \in Seq(Workers)
    /\ item \in [Workers -> Tasks \cup {"timeout"}]
    /\ events \subseteq Events /\ ref_count \in [Events -> Nat]
    /\ calling \in [Workers -> Events \cup {Nobody}]
    /\ installed \subseteq Tasks
    /\ irregular \subseteq Irregularities

\* No thread sleeps in the queue while an item waits that no other thread was woken
\* for: each item left has a thread on its way to it.
NoLostWakeup ==
    \A q \in Queues : asleep[q] # {} => Len(data[q]) <= waiters[q] - Cardinality(asleep[q])

\* The thread pool must have at minimum one thread running
\* (vortex_thread_pool_remove), unless removals overlap or the context ends.
OneThreadLeft == threads = {} => "overlapped" \in irregular \/ Exiting

\* The handler of an event never runs in two threads at once, nor after the event
\* was released.
EventSafe ==
    \A w \in Workers : calling[w] # Nobody =>
        /\ ref_count[calling[w]] > 0 \/ Released
        /\ \A v \in Workers \ {w} : calling[v] # calling[w]

\* Nobody changes the lists of the pool while vortex_thread_pool_exit releases them
\* without a lock, and then no thread is left that uses it, if no thread was being
\* removed when the context ended.
ReleasedUnused ==
    "removing" \notin irregular =>
        /\ exit \in {"join", "stopped", "done"} => \A w \in Workers : pc[w] \notin {"stop", "collect"}
        /\ Released => \A w \in Workers \ {exiter} : pc[w] \in {"none", "ended"}

\* vortex_exit_ctx returns.
ExitReturns == Exiting ~> Released
=============================================================================
