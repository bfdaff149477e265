----------------------------- MODULE AsyncQueue -----------------------------
(***************************************************************************)
(* The queue threads wait on (vortex_async_queue in vortex_thread.c): a    *)
(* list of items, a mutex and one condition.  Every operation holds the    *)
(* mutex of its queue, so it is one step, and a wait is two: going to      *)
(* sleep and going on.                                                     *)
(*                                                                         *)
(* The operators are parts of the actions of the modules that have queues. *)
(* A thread that waits is in asleep until somebody signals it; it goes on  *)
(* when it gets the mutex again.  A condition may also let a thread go for *)
(* no reason, which for a timed wait is a timeout.                         *)
(***************************************************************************)
EXTENDS Naturals, Sequences, FiniteSets

CONSTANTS Queues

VARIABLES
    data,       \* items, the next one to pop first (axl_list_get_last)
    waiters,    \* threads inside pop or timedpop
    asleep      \* those of them nobody has signalled

queueVars == <<data, waiters, asleep>>

QueueInit ==
    /\ data = [q \in Queues |-> <<>>]
    /\ waiters = [q \in Queues |-> 0]
    /\ asleep = [q \in Queues |-> {}]

\* Mutant: only the first item wakes somebody.
SignalFirst(q) ==
    IF data[q] = <<>> /\ asleep[q] # {}
    THEN \E t \in asleep[q] : asleep' = [asleep EXCEPT ![q] = @ \ {t}]
    ELSE UNCHANGED asleep

\* One of the threads that sleep is woken, if the counter says there may be one.
Signal(q) ==
    IF waiters[q] > 0 /\ asleep[q] # {}
    THEN \E t \in asleep[q] : asleep' = [asleep EXCEPT ![q] = @ \ {t}]
    ELSE UNCHANGED asleep

Push(q, item) ==
    /\ data' = [data EXCEPT ![q] = Append(@, item)]
    /\ Signal(q)
    /\ UNCHANGED waiters

\* The next item is taken; a thread that waited for it is no longer a waiter.
TakeItem(q, item) ==
    /\ data[q] # <<>> /\ item = Head(data[q])
    /\ data' = [data EXCEPT ![q] = Tail(@)]

\* pop and timedpop find an item at once,
PopAtOnce(q, item) ==
    /\ TakeItem(q, item)
    /\ UNCHANGED <<waiters, asleep>>

\* or wait,
PopWait(q, t) ==
    /\ data[q] = <<>>
    /\ waiters' = [waiters EXCEPT ![q] = @ + 1]
    /\ asleep' = [asleep EXCEPT ![q] = @ \cup {t}]
    /\ UNCHANGED data

Leave(q, t) ==
    /\ waiters' = [waiters EXCEPT ![q] = @ - 1]
    /\ asleep' = [asleep EXCEPT ![q] = @ \ {t}]

\* and take an item when they go on: signalled, or in time by themselves.
PopWoken(q, t, item) ==
    /\ TakeItem(q, item)
    /\ Leave(q, t)

\* timedpop gives up when it goes on and finds nothing, whatever the clock says;
PopNothing(q, t) ==
    /\ data[q] = <<>>
    /\ Leave(q, t)
    /\ UNCHANGED data

=============================================================================
