---------------------------- MODULE ChannelStart ----------------------------
(***************************************************************************)
(* The start of channels on channel 0. Threads of one peer call            *)
(* vortex_channel_new with a number they choose; the other peer asks its   *)
(* start handler, which accepts, denies or defers the answer to another    *)
(* thread (vortex_channel_defer_start, vortex_channel_notify_start). The   *)
(* channels that were started may be closed by both peers, one at a time;  *)
(* the exchange of a close is that of ChannelClose, in short.              *)
(*                                                                         *)
(* A channel is named after the call that makes it, c = <<thread, k>>; each *)
(* peer has a structure of its own for it, with its reference count, in    *)
(* the table of its connection. The tables are indexed by channel number.  *)
(***************************************************************************)
EXTENDS Naturals, FiniteSets

CONSTANTS Starters,     \* threads that start channels
          MaxStarts,    \* bound on the calls of each
          Once,         \* threads that start no more than one
          Nums,         \* channel numbers
          MayDefer, MayTimeOut, MayBreak,
          MaxCloses     \* bound on the channels that are closed

Calls == {c \in Starters \X (1..MaxStarts) : c[1] \in Once => c[2] = 1}
None == <<>>

ASSUME StartAssumption ==
    /\ Once \subseteq Starters /\ MaxStarts \in Nat /\ Nums \subseteq Nat \ {0}
    /\ MaxCloses \in Nat
    /\ {MayDefer, MayTimeOut, MayBreak} \subseteq BOOLEAN

VARIABLES connected,    \* the session is up
          at, made, num,
          table, refs,          \* the peer that starts
          serverAt, handlerIn,  \* the peer that is asked, for each start
          serverTable, serverRefs,
          reply,        \* the answer: "none", "ok" or "error"
          closing,      \* for each number: the close exchange
          returned,     \* channels vortex_channel_new returned
          closed,       \* channels removed by a close
          irregular, crashed

startVars == <<at, made, num, table, refs>>
serverVars == <<serverAt, handlerIn, serverTable, serverRefs, reply>>
histories == <<returned, closed, irregular, crashed>>
vars == <<connected, startVars, serverVars, closing, histories>>

Current(t) == <<t, made[t]>>
Number(c) == num[c]
Note(event, condition) == irregular' = IF condition THEN irregular \cup {event} ELSE irregular
Use(who, count) == crashed' = IF count = 0 THEN crashed \cup {who} ELSE crashed

-----------------------------------------------------------------------------
(* vortex_channel_new *)

\* The number is that of the caller or the one vortex_connection_get_next_channel
\* finds; when it is taken NULL is returned.
Call(t, n) ==
    /\ at[t] = "idle" /\ <<t, made[t] + 1>> \in Calls
    /\ connected
    /\ made' = [made EXCEPT ![t] = @ + 1]
    /\ num' = [num EXCEPT ![<<t, made[t] + 1>>] = n]
    /\ at' = [at EXCEPT ![t] = IF table[n] = None THEN "add" ELSE "idle"]
    /\ UNCHANGED <<connected, table, refs, serverVars, closing, histories>>

\* Mutant: the number is not looked up again.
AddBlindly(t) ==
    LET c == Current(t) IN
    /\ at[t] = "add"
    /\ table' = [table EXCEPT ![Number(c)] = c]
    /\ refs' = [refs EXCEPT ![c] = 1]
    /\ at' = [at EXCEPT ![t] = "added"]
    /\ UNCHANGED <<connected, made, num, serverVars, closing, histories>>

\* vortex_connection_add_channel looks once more; the one reference is that of
\* the table, also while the handlers for added channels run.
Add(t) ==
    LET c == Current(t) IN
    /\ at[t] = "add"
    /\ IF table[Number(c)] = None
         THEN /\ table' = [table EXCEPT ![Number(c)] = c]
              /\ refs' = [refs EXCEPT ![c] = 1]
              /\ at' = [at EXCEPT ![t] = "added"]
         ELSE /\ at' = [at EXCEPT ![t] = "idle"]
              /\ UNCHANGED <<table, refs>>
    /\ UNCHANGED <<connected, made, num, serverVars, closing, histories>>

\* The thread takes a reference of its own.
TakeReference(t) ==
    LET c == Current(t) IN
    /\ at[t] = "added"
    /\ refs' = [refs EXCEPT ![c] = @ + 1]
    /\ Use("starter", refs[c])
    /\ at' = [at EXCEPT ![t] = "send"]
    /\ UNCHANGED <<connected, made, num, table, serverVars, closing, returned, closed, irregular>>

\* vortex_connection_remove_channel: what is under the number of c goes.
Removed(c, less) ==
    LET there == table[Number(c)] IN
    /\ table' = [table EXCEPT ![Number(c)] = None]
    /\ refs' = [d \in Calls |-> refs[d] - (IF d = there THEN 1 ELSE 0) - (IF d = c THEN less ELSE 0)]
    /\ Note("stolen", there \notin {None, c})
    /\ Use("starter", refs[c])

SendStart(t) ==
    LET c == Current(t) IN
    /\ at[t] = "send"
    /\ connected
    /\ serverAt' = [serverAt EXCEPT ![c] = "sent"]
    /\ at' = [at EXCEPT ![t] = "wait"]
    /\ UNCHANGED <<connected, made, num, table, refs, handlerIn, serverTable, serverRefs, reply,
                   closing, histories>>

\* vortex_channel_wait_reply, and __vortex_channel_validate_start_reply.
TakeReply(t) ==
    /\ at[t] = "wait"
    /\ reply[Current(t)] # "none"
    /\ at' = [at EXCEPT ![t] = IF reply[Current(t)] = "ok" THEN "accepted" ELSE "denied"]
    /\ Use("starter", refs[Current(t)])
    /\ UNCHANGED <<connected, made, num, table, refs, serverVars, closing, returned, closed,
                   irregular>>

\* The message could not be sent, or no reply came: the channel is removed,
\* the reference released, NULL returned.
Fails(t) == Removed(Current(t), 1) /\ at' = [at EXCEPT ![t] = "idle"]

\* Mutant: the break of the connection does not wake who waits.
NoConnectionToSend(t) ==
    /\ at[t] = "send"
    /\ ~connected
    /\ Fails(t)
    /\ UNCHANGED <<connected, made, num, serverVars, closing, returned, closed>>

NoConnection(t) ==
    /\ at[t] \in {"send", "wait"}
    /\ ~connected
    /\ Fails(t)
    /\ UNCHANGED <<connected, made, num, serverVars, closing, returned, closed>>

TimeOut(t) ==
    /\ MayTimeOut
    /\ at[t] = "wait" /\ connected
    /\ reply[Current(t)] = "none"
    /\ Removed(Current(t), 1)
    /\ at' = [at EXCEPT ![t] = "timedout"]
    /\ UNCHANGED <<connected, made, num, serverVars, closing, returned, closed>>

\* The call returns NULL although the peer may still accept.
GiveUp(t) ==
    /\ at[t] = "timedout"
    /\ at' = [at EXCEPT ![t] = "idle"]
    /\ Note("timedout", TRUE)
    /\ UNCHANGED <<connected, made, num, table, refs, serverVars, closing, returned, closed,
                   crashed>>

\* A denial removes the channel in the validation of the reply, and once more
\* in __vortex_channel_new.
Denied(t) ==
    /\ at[t] = "denied"
    /\ Removed(Current(t), 0)
    /\ at' = [at EXCEPT ![t] = "failed"]
    /\ UNCHANGED <<connected, made, num, serverVars, closing, returned, closed>>

DeniedAgain(t) ==
    /\ at[t] = "failed"
    /\ Fails(t)
    /\ UNCHANGED <<connected, made, num, serverVars, closing, returned, closed>>

\* The channel is returned without the reference of the thread.
Return(t) ==
    LET c == Current(t) IN
    /\ at[t] = "accepted"
    /\ refs' = [refs EXCEPT ![c] = @ - 1]
    /\ Use("starter", refs[c])
    /\ at' = [at EXCEPT ![t] = "idle"]
    /\ returned' = returned \cup {c}
    /\ UNCHANGED <<connected, made, num, table, serverVars, closing, closed, irregular>>

-----------------------------------------------------------------------------
(* The peer that is asked: __vortex_channel_0_frame_received_start_msg, for *)
(* each start message in a thread of the pool.                              *)

Answer(c, text) == reply' = [reply EXCEPT ![c] = IF connected THEN text ELSE @]
ServerGoes(c, place) == serverAt' = [serverAt EXCEPT ![c] = place]

Exists(c) == serverTable[Number(c)] # None

\* A channel of that number exists, or the profile is not offered (and no other
\* component answers in the place of the library).
Refuse(c) ==
    /\ serverAt[c] = "sent"
    /\ Answer(c, "error") /\ ServerGoes(c, "done")
    /\ UNCHANGED <<connected, startVars, handlerIn, serverTable, serverRefs, closing, histories>>

Receive(c) ==
    /\ serverAt[c] = "sent" /\ ~Exists(c)
    /\ ServerGoes(c, "add")
    /\ UNCHANGED <<connected, startVars, handlerIn, serverTable, serverRefs, reply, closing,
                   histories>>

ServerAdd(c) ==
    /\ serverAt[c] = "add"
    /\ IF Exists(c)
         THEN /\ Answer(c, "error") /\ ServerGoes(c, "done")
              /\ UNCHANGED <<serverTable, serverRefs, handlerIn>>
         ELSE /\ serverTable' = [serverTable EXCEPT ![Number(c)] = c]
              /\ serverRefs' = [serverRefs EXCEPT ![c] = 1]
              /\ handlerIn' = handlerIn \cup {c}
              /\ ServerGoes(c, "handler")
              /\ UNCHANGED reply
    /\ UNCHANGED <<connected, startVars, closing, histories>>

ServerRemoved(c) ==
    LET there == serverTable[Number(c)] IN
    /\ serverTable' = [serverTable EXCEPT ![Number(c)] = None]
    /\ serverRefs' = [d \in Calls |-> serverRefs[d] - (IF d = there THEN 1 ELSE 0)]

\* The handler denies: the channel is removed before the answer is sent.
HandlerDenies(c) ==
    /\ serverAt[c] = "handler"
    /\ ServerRemoved(c)
    /\ Answer(c, "error")
    /\ handlerIn' = handlerIn \ {c}
    /\ ServerGoes(c, "done")
    /\ Use("handler", serverRefs[c])
    /\ UNCHANGED <<connected, startVars, closing, returned, closed, irregular>>

\* Mutant: the answer is sent without a reference for the handlers to come.
AcceptsUnreferenced(c) ==
    /\ Answer(c, "ok")
    /\ IF connected
         THEN UNCHANGED <<serverTable, serverRefs>> /\ ServerGoes(c, "notify")
         ELSE ServerRemoved(c) /\ ServerGoes(c, "done")

\* vortex_channel_notify_start_internal: the channel is opened, referenced and
\* answered for; then its handlers are notified.
Accepts(c) ==
    /\ Answer(c, "ok")
    /\ IF connected
         THEN serverRefs' = [serverRefs EXCEPT ![c] = @ + 1] /\ UNCHANGED serverTable
                /\ ServerGoes(c, "notify")
         ELSE ServerRemoved(c) /\ ServerGoes(c, "done")

HandlerAccepts(c) ==
    /\ serverAt[c] = "handler"
    /\ Accepts(c)
    /\ handlerIn' = handlerIn \ {c}
    /\ Use("handler", serverRefs[c])
    /\ UNCHANGED <<connected, startVars, closing, returned, closed, irregular>>

Notified(c) ==
    /\ serverAt[c] = "notify"
    /\ serverRefs' = [serverRefs EXCEPT ![c] = @ - 1]
    /\ Use("notifier", serverRefs[c])
    /\ ServerGoes(c, "done")
    /\ UNCHANGED <<connected, startVars, handlerIn, serverTable, reply, closing, returned, closed,
                   irregular>>

HandlerDefers(c) ==
    /\ MayDefer
    /\ serverAt[c] = "handler"
    /\ ServerGoes(c, "deferred")
    /\ UNCHANGED <<connected, startVars, handlerIn, serverTable, serverRefs, reply, closing,
                   histories>>

\* The handler returns, and the channel is asked whether its start was
\* deferred.
HandlerReturns(c) ==
    /\ c \in handlerIn
    /\ serverAt[c] # "handler"
    /\ handlerIn' = handlerIn \ {c}
    /\ Use("handler", serverRefs[c])
    /\ UNCHANGED <<connected, startVars, serverAt, serverTable, serverRefs, reply, closing,
                   returned, closed, irregular>>

\* vortex_channel_notify_start, by another thread, which may be faster than
\* the handler.
Hasty(c) == Note("hasty", c \in handlerIn)

NotifyAccept(c) ==
    /\ serverAt[c] = "deferred"
    /\ connected
    /\ Accepts(c)
    /\ Hasty(c)
    /\ UNCHANGED <<connected, startVars, handlerIn, closing, returned, closed, crashed>>

\* The answer is sent before the channel is removed.
NotifyDeny(c) ==
    /\ serverAt[c] = "deferred"
    /\ connected
    /\ Answer(c, "error")
    /\ ServerGoes(c, "remove")
    /\ Hasty(c)
    /\ UNCHANGED <<connected, startVars, handlerIn, serverTable, serverRefs, closing, returned,
                   closed, crashed>>

\* Mutant: a channel that is denied late stays in the table.
DenyKeeps(c) ==
    /\ serverAt[c] = "remove"
    /\ ServerGoes(c, "done")
    /\ UNCHANGED <<connected, startVars, handlerIn, serverTable, serverRefs, reply, closing,
                   histories>>

DenyRemoves(c) ==
    /\ serverAt[c] = "remove"
    /\ ServerRemoved(c)
    /\ Use("notifier", serverRefs[c])
    /\ ServerGoes(c, "done")
    /\ UNCHANGED <<connected, startVars, handlerIn, reply, closing, returned, closed, irregular>>

-----------------------------------------------------------------------------
(* Closes. The peer that is asked looks the number up in its table.        *)

CloseByServer(n) ==
    /\ Cardinality(closed) < MaxCloses /\ connected
    /\ closing[n] = "no"
    /\ serverTable[n] # None /\ reply[serverTable[n]] = "ok"
    /\ closing' = [closing EXCEPT ![n] = "askedStarter"]
    /\ UNCHANGED <<connected, startVars, serverVars, histories>>

\* The channel of that number may be one whose thread has no reference yet,
\* when the peer kept the number from a start that was given up.
StarterCloses(n) ==
    /\ closing[n] = "askedStarter"
    /\ IF table[n] = None
         THEN closing' = [closing EXCEPT ![n] = "refused"] /\ UNCHANGED <<table, refs, closed>>
         ELSE /\ table' = [table EXCEPT ![n] = None]
              /\ refs' = [refs EXCEPT ![table[n]] = @ - 1]
              /\ closed' = closed \cup {table[n]}
              /\ closing' = [closing EXCEPT ![n] = "starterAgreed"]
    /\ Note("early", \E t \in Starters : at[t] = "added" /\ Current(t) = table[n])
    /\ UNCHANGED <<connected, at, made, num, serverVars, returned, crashed>>

ServerRemoves(n) ==
    /\ closing[n] = "starterAgreed"
    /\ serverTable[n] # None
    /\ ServerRemoved(serverTable[n])
    /\ closing' = [closing EXCEPT ![n] = "no"]
    /\ UNCHANGED <<connected, startVars, serverAt, handlerIn, reply, histories>>

CloseByStarter(n) ==
    /\ Cardinality(closed) < MaxCloses /\ connected
    /\ closing[n] = "no"
    /\ table[n] \in returned
    /\ closing' = [closing EXCEPT ![n] = "askedServer"]
    /\ UNCHANGED <<connected, startVars, serverVars, histories>>

ServerCloses(n) ==
    /\ closing[n] = "askedServer"
    /\ IF serverTable[n] = None
         THEN closing' = [closing EXCEPT ![n] = "refused"] /\ UNCHANGED <<serverTable, serverRefs>>
         ELSE /\ ServerRemoved(serverTable[n])
              /\ closing' = [closing EXCEPT ![n] = "serverAgreed"]
    /\ UNCHANGED <<connected, startVars, serverAt, handlerIn, reply, histories>>

StarterRemoves(n) ==
    /\ closing[n] = "serverAgreed"
    /\ table[n] # None
    /\ table' = [table EXCEPT ![n] = None]
    /\ refs' = [refs EXCEPT ![table[n]] = @ - 1]
    /\ closed' = closed \cup {table[n]}
    /\ closing' = [closing EXCEPT ![n] = "no"]
    /\ UNCHANGED <<connected, at, made, num, serverVars, returned, irregular, crashed>>

-----------------------------------------------------------------------------
Break ==
    /\ MayBreak /\ connected
    /\ connected' = FALSE
    /\ UNCHANGED <<startVars, serverVars, closing, histories>>

Init ==
    /\ connected = TRUE
    /\ at = [t \in Starters |-> "idle"]
    /\ made = [t \in Starters |-> 0]
    /\ num = [c \in Calls |-> 0]
    /\ table = [n \in Nums |-> None]
    /\ refs = [c \in Calls |-> 0]
    /\ serverAt = [c \in Calls |-> "none"]
    /\ handlerIn = {}
    /\ serverTable = [n \in Nums |-> None]
    /\ serverRefs = [c \in Calls |-> 0]
    /\ reply = [c \in Calls |-> "none"]
    /\ closing = [n \in Nums |-> "no"]
    /\ returned = {} /\ closed = {} /\ irregular = {} /\ crashed = {}

StartGoesOn(t) ==
    \/ Add(t) \/ TakeReference(t) \/ SendStart(t) \/ TakeReply(t)
    \/ NoConnection(t) \/ GiveUp(t) \/ Denied(t) \/ DeniedAgain(t) \/ Return(t)
ServerGoesOn(c) ==
    \/ Refuse(c) \/ Receive(c) \/ ServerAdd(c) \/ HandlerDenies(c) \/ HandlerAccepts(c) \/ HandlerDefers(c)
    \/ NotifyAccept(c) \/ NotifyDeny(c) \/ DenyRemoves(c) \/ Notified(c)
CloseGoesOn(n) == StarterCloses(n) \/ ServerRemoves(n) \/ ServerCloses(n) \/ StarterRemoves(n)

Next ==
    \/ \E t \in Starters : \/ \E n \in Nums : Call(t, n)
                           \/ StartGoesOn(t) \/ TimeOut(t)
    \/ \E c \in Calls : ServerGoesOn(c) \/ HandlerReturns(c)
    \/ \E n \in Nums : CloseByServer(n) \/ CloseByStarter(n) \/ CloseGoesOn(n)
    \/ Break

(* Threads inside the library go on, handlers decide, and a deferred start *)
(* is notified. Nobody has to start or to close a channel.                 *)
Fairness ==
    /\ \A t \in Starters : WF_vars(StartGoesOn(t))
    /\ \A c \in Calls : WF_vars(ServerGoesOn(c)) /\ WF_vars(HandlerReturns(c))
    /\ \A n \in Nums : WF_vars(CloseGoesOn(n))

Spec == Init /\ [][Next]_vars /\ Fairness

-----------------------------------------------------------------------------
(* A channel that vortex_channel_new returned is in the table of the       *)
(* connection and alive until a close removes it; a denied start removes   *)
(* its channel twice, which may take another one away ("stolen").          *)
ReturnedUsable ==
    "stolen" \notin irregular =>
      \A c \in returned \ closed : table[Number(c)] = c /\ refs[c] > 0

(* When no start and no close is in progress both peers have the same      *)
(* channels, unless a thread gave up waiting for an answer or took a       *)
(* channel of another away.                                                *)
Quiet ==
    /\ connected
    /\ \A t \in Starters : at[t] = "idle"
    /\ \A c \in Calls : serverAt[c] \in {"none", "done"}
    /\ \A n \in Nums : closing[n] = "no"
SameChannels == (Quiet /\ irregular \cap {"stolen", "timedout"} = {}) => table = serverTable

\* The peer may have accepted a start that was given up here.
GivenUp ==
    ~connected \/ "timedout" \in irregular \/ \E t \in Starters : at[t] = "timedout"

(* No thread uses a channel that was freed, but a start handler whose      *)
(* deferred answer was faster, the thread a channel was taken from, and    *)
(* the thread whose channel was closed before it had its reference, which  *)
(* takes a number the peer kept from a start that was given up.            *)
Referenced ==
    /\ irregular \cap {"hasty", "stolen", "early"} = {} => crashed = {}
    /\ "early" \in irregular => "stolen" \in irregular \/ GivenUp

(* vortex_channel_new returns: with the channel, or without it when the    *)
(* connection breaks or the peer denies. No timeout is needed.             *)
StartReturns == \A t \in Starters : at[t] = "add" ~> at[t] = "idle"
=============================================================================
