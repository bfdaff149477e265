------------------------- MODULE ChannelStartProofs -------------------------
(***************************************************************************)
(* Theorems about ChannelStart. The invariant is about calls rather than   *)
(* threads: a call has a place (Place), is in the table of the peer that   *)
(* starts or not (Tabled), in that of the peer that is asked or not        *)
(* (STabled), and the close exchange of its number is between the two. All *)
(* but the shapes are claimed while no thread took away a channel that is  *)
(* not its own ("stolen").                                                 *)
(***************************************************************************)
EXTENDS ChannelStart, Integers, TLAPS

Places == {"idle", "add", "added", "send", "wait", "accepted", "denied", "failed", "timedout"}
ServerPlaces == {"none", "sent", "add", "handler", "deferred", "remove", "notify", "done"}
Exchanges == {"no", "askedStarter", "starterAgreed", "askedServer", "serverAgreed", "refused"}

Shape ==
    /\ connected \in BOOLEAN
    /\ at \in [Starters -> Places] /\ made \in [Starters -> Nat]
    /\ num \in [Calls -> Nat]
    /\ table \in [Nums -> Calls \cup {None}] /\ refs \in [Calls -> Int]
    /\ serverAt \in [Calls -> ServerPlaces] /\ handlerIn \subseteq Calls
    /\ serverTable \in [Nums -> Calls \cup {None}] /\ serverRefs \in [Calls -> Int]
    /\ reply \in [Calls -> {"none", "ok", "error"}]
    /\ closing \in [Nums -> Exchanges]
    /\ returned \subseteq Calls /\ closed \subseteq Calls
    /\ irregular \subseteq {"stolen", "timedout", "hasty", "early"}
    /\ crashed \subseteq {"starter", "handler", "notifier"}
    /\ \A t \in Starters : at[t] # "idle" => Current(t) \in Calls

\* Where a call is, of the one its thread makes or another.
Place(c) ==
    IF c[2] = made[c[1]] THEN at[c[1]] ELSE IF c[2] < made[c[1]] THEN "idle" ELSE "unmade"
Tabled(c) == num[c] \in Nums /\ table[num[c]] = c
STabled(c) == num[c] \in Nums /\ serverTable[num[c]] = c

\* A thread in these places has a reference; in all but the last, and before it has one,
\* its channel is in the table, unless a close took it.
Held == {"send", "wait", "accepted", "denied", "failed"}
Inside == (Held \ {"failed"}) \cup {"added"}

\* The tables have channels under their numbers.
TableInv ==
    /\ \A n \in Nums : table[n] # None => num[table[n]] = n
    /\ \A n \in Nums : serverTable[n] # None => num[serverTable[n]] = n
    /\ \A c \in Calls : Place(c) \notin {"unmade", "idle"} \/ serverAt[c] # "none" => num[c] \in Nums

\* The references of a channel are those of the table and of the thread that starts it.
RefsInv ==
    \A c \in Calls :
        /\ refs[c] = (IF Tabled(c) THEN 1 ELSE 0) + (IF Place(c) \in Held THEN 1 ELSE 0)
        /\ Tabled(c) => c \notin closed /\ (Place(c) \in Inside \/ c \in returned)
        /\ Place(c) \in Inside \/ c \in returned => Tabled(c) \/ c \in closed

\* What was answered, as seen from the places of the thread and of the handler.
ReplyInv ==
    \A c \in Calls :
        /\ c \in returned => Place(c) = "idle" /\ reply[c] = "ok"
        /\ Place(c) = "accepted" => reply[c] = "ok"
        /\ Place(c) \in {"denied", "failed"} => reply[c] = "error"
        /\ Place(c) \in {"unmade", "add"} => c \notin closed
        /\ Place(c) \in {"unmade", "add", "added", "send"} => serverAt[c] = "none"
        /\ serverAt[c] \in {"none", "sent", "add", "handler", "deferred"} => reply[c] = "none"
        /\ serverAt[c] = "remove" => reply[c] = "error"
        /\ serverAt[c] = "notify" => reply[c] = "ok"

\* The same of the peer that is asked.
ServerInv ==
    \A c \in Calls :
        /\ serverRefs[c] = (IF STabled(c) THEN 1 ELSE 0) + (IF serverAt[c] = "notify" THEN 1 ELSE 0)
        /\ STabled(c) => serverAt[c] \notin {"none", "sent", "add"}
        /\ STabled(c) /\ serverAt[c] \in {"notify", "done"} => reply[c] = "ok"
        /\ serverAt[c] \in {"handler", "deferred", "remove"} => STabled(c)

\* A channel that was accepted is in the other table too, but between the two steps of
\* its close, and the exchange of a close is about such a channel.
CloseInv ==
    /\ \A c \in Calls : Tabled(c) /\ reply[c] = "ok" =>
          /\ closing[num[c]] # "serverAgreed" => STabled(c)
          /\ closing[num[c]] = "serverAgreed" => ~STabled(c)
          /\ closing[num[c]] # "starterAgreed"
    /\ \A n \in Nums :
          /\ closing[n] \in {"askedStarter", "starterAgreed", "refused"} =>
                serverTable[n] # None /\ reply[serverTable[n]] = "ok"
          /\ closing[n] \in {"askedServer", "serverAgreed"} => table[n] \in returned

\* While nobody gave up, the peer has no channel the caller does not have.
TimedOut == "timedout" \in irregular \/ \E c \in Calls : Place(c) = "timedout"
SameInv ==
    ~TimedOut /\ connected => \A c \in Calls :
        /\ STabled(c) /\ reply[c] = "ok" /\ closing[num[c]] # "starterAgreed" => Tabled(c)
        /\ serverAt[c] \in {"sent", "add", "handler", "deferred"} => Tabled(c)
        /\ c \in closed => reply[c] = "ok"

\* A start handler is inside its channel's start, and nobody was taken unawares.
UseInv ==
    /\ "hasty" \notin irregular => \A c \in handlerIn : serverAt[c] \in {"handler", "deferred"}
    /\ irregular \cap {"hasty", "early"} = {} => crashed = {}

\* A thread without its reference yet has the channel of the table, or it was closed
\* early, and that close is of a number the peer kept.
EarlyInv ==
    /\ \A c \in Calls : Place(c) = "added" /\ c \in closed => "early" \in irregular
    /\ "early" \in irregular => TimedOut \/ ~connected

Safe == RefsInv /\ ReplyInv /\ ServerInv /\ CloseInv /\ SameInv /\ UseInv
IInv == Shape /\ ("stolen" \notin irregular => TableInv /\ Safe /\ EarlyInv)

-----------------------------------------------------------------------------
(* Calls and their places *)

\* A call is a thread and a number, and no call is None.
LEMMA CallFacts ==
    ASSUME NEW c \in Calls
    PROVE  /\ c[1] \in Starters /\ c[2] \in Nat \ {0} /\ c = <<c[1], c[2]>> /\ c # None
           /\ \A t, k : c = <<t, k>> => c[1] = t /\ c[2] = k
<1>1. PICK t \in Starters, k \in 1 .. MaxStarts : c = <<t, k>>
  BY DEF Calls
<1> QED BY <1>1, StartAssumption DEF StartAssumption, None

\* A call goes from a place to another, no other call moves.
Moves(c, from, to) ==
    Place(c) = from /\ Place(c)' = to /\ \A d \in Calls : d # c => Place(d)' = Place(d)
Stay == \A d \in Calls : Place(d)' = Place(d)

\* The call a thread makes is where the thread is, and goes where it goes.
LEMMA CurrentMoves ==
    ASSUME Shape, NEW t \in Starters, at[t] # "idle", made' = made,
           NEW to, at' = [at EXCEPT ![t] = to], NEW c \in Calls, c = Current(t)
    PROVE  Moves(c, at[t], to)
<1>1. c[1] = t /\ c[2] = made[t]
  BY DEF Current
<1>2. Place(c) = at[t] /\ Place(c)' = to
  BY <1>1 DEF Place, Shape
<1>3. ASSUME NEW d \in Calls, d # c PROVE Place(d)' = Place(d)
  <2>1. d[1] \in Starters /\ d = <<d[1], d[2]>>
    BY CallFacts
  <2>2. d[1] # t \/ d[2] # made[t]
    BY <1>3, <2>1 DEF Current
  <2> QED BY <2>1, <2>2 DEF Place, Shape
<1> QED BY <1>1, <1>2, <1>3 DEF Moves

\* Nothing moves when the threads stay where they are.
LEMMA NobodyMoves == UNCHANGED <<at, made>> => Stay
BY DEF Stay, Place

\* A new call, of a thread that makes none.
LEMMA NewMoves ==
    ASSUME Shape, NEW t \in Starters, at[t] = "idle", NEW to, at' = [at EXCEPT ![t] = to],
           made' = [made EXCEPT ![t] = @ + 1], NEW c \in Calls, c = <<t, made[t] + 1>>
    PROVE  Moves(c, "unmade", to)
<1>1. c[1] = t /\ c[2] = made[t] + 1 /\ made[t] \in Nat /\ made'[t] = made[t] + 1 /\ at'[t] = to
  BY DEF Shape
<1>2. Place(c) = "unmade" /\ Place(c)' = to
  BY <1>1 DEF Place
<1>3. ASSUME NEW d \in Calls, d # c PROVE Place(d)' = Place(d)
  <2>1. d[1] \in Starters /\ d[2] \in Nat /\ d = <<d[1], d[2]>> /\ c = <<c[1], c[2]>>
    BY <1>1, CallFacts
  <2>2. d[1] # t \/ d[2] # made[t] + 1
    BY <1>1, <1>3, <2>1
  <2>3. CASE d[1] # t
    BY <2>1, <2>3 DEF Place, Shape
  <2>4. CASE d[1] = t
    <3>1. d[2] # made'[t]
      BY <1>1, <2>2, <2>4
    <3>2. d[2] = made[t] => Place(d) = "idle"
      BY <2>4 DEF Place
    <3>3. d[2] < made[t] => Place(d) = "idle" /\ Place(d)' = "idle"
      BY <1>1, <2>1, <2>4, <3>1 DEF Place
    <3>4. d[2] = made[t] => Place(d)' = "idle"
      BY <1>1, <2>1, <2>4, <3>1 DEF Place
    <3>5. d[2] > made[t] => Place(d) = "unmade" /\ Place(d)' = "unmade"
      BY <1>1, <2>1, <2>2, <2>4, <3>1 DEF Place
    <3> QED BY <1>1, <2>1, <3>2, <3>3, <3>4, <3>5
  <2> QED BY <2>3, <2>4
<1> QED BY <1>2, <1>3 DEF Moves

-----------------------------------------------------------------------------
(* What the thread that starts a channel does, told of the call *)

serverSide == <<serverAt, handlerIn, serverTable, serverRefs, reply, closing>>

New(c, to) ==
    /\ Moves(c, "unmade", to) /\ to \in {"add", "idle"}
    /\ \E n \in Nums : num' = [num EXCEPT ![c] = n]
    /\ UNCHANGED <<connected, table, refs, serverSide, histories>>
AddFails(c) ==
    /\ Moves(c, "add", "idle")
    /\ UNCHANGED <<connected, num, table, refs, serverSide, histories>>
Adds(c) ==
    /\ Moves(c, "add", "added")
    /\ table[num[c]] = None /\ table' = [table EXCEPT ![num[c]] = c]
    /\ refs' = [refs EXCEPT ![c] = 1]
    /\ UNCHANGED <<connected, num, serverSide, histories>>
Refers(c) ==
    /\ Moves(c, "added", "send")
    /\ refs' = [refs EXCEPT ![c] = @ + 1] /\ Use("starter", refs[c])
    /\ UNCHANGED <<connected, num, table, serverSide, returned, closed, irregular>>
Sends(c) ==
    /\ Moves(c, "send", "wait") /\ connected
    /\ serverAt' = [serverAt EXCEPT ![c] = "sent"]
    /\ UNCHANGED <<connected, num, table, refs, handlerIn, serverTable, serverRefs, reply, closing,
                   histories>>
Takes(c) ==
    /\ Moves(c, "wait", IF reply[c] = "ok" THEN "accepted" ELSE "denied") /\ reply[c] # "none"
    /\ Use("starter", refs[c])
    /\ UNCHANGED <<connected, num, table, refs, serverSide, returned, closed, irregular>>
GivesBack(c, from, to, less) ==
    /\ Moves(c, from, to) /\ Removed(c, less)
    /\ \/ from \in {"send", "wait"} /\ to = "idle" /\ less = 1 /\ ~connected
       \/ from = "wait" /\ to = "timedout" /\ less = 1
       \/ from = "denied" /\ to = "failed" /\ less = 0
       \/ from = "failed" /\ to = "idle" /\ less = 1
    /\ UNCHANGED <<connected, num, serverSide, returned, closed>>
GaveUp(c) ==
    /\ Moves(c, "timedout", "idle") /\ irregular' = irregular \cup {"timedout"}
    /\ UNCHANGED <<connected, num, table, refs, serverSide, returned, closed, crashed>>
Returns(c) ==
    /\ Moves(c, "accepted", "idle")
    /\ refs' = [refs EXCEPT ![c] = @ - 1] /\ Use("starter", refs[c])
    /\ returned' = returned \cup {c}
    /\ UNCHANGED <<connected, num, table, serverSide, closed, irregular>>
Starts(c) ==
    \/ (\E to \in {"add", "idle"} : New(c, to)) \/ AddFails(c) \/ Adds(c) \/ Refers(c) \/ Sends(c) \/ Takes(c)
    \/ (\E from, to \in Places, less \in {0, 1} : GivesBack(c, from, to, less))
    \/ GaveUp(c) \/ Returns(c)

\* A step of a thread is a step of the call it makes.
LEMMA StartStep ==
    ASSUME Shape, NEW t \in Starters,
           (\E n \in Nums : Call(t, n)) \/ StartGoesOn(t) \/ TimeOut(t)
    PROVE  \E c \in Calls : Starts(c)
<1>1. ASSUME NEW n \in Nums, Call(t, n) PROVE \E c \in Calls : Starts(c)
  <2>1. PICK c \in Calls : c = <<t, made[t] + 1>>
    BY <1>1 DEF Call
  <2> DEFINE to == IF table[n] = None THEN "add" ELSE "idle"
  <2>2. at[t] = "idle" /\ made' = [made EXCEPT ![t] = @ + 1] /\ at' = [at EXCEPT ![t] = to]
    BY <1>1 DEF Call
  <2>3. to \in {"add", "idle"}
    OBVIOUS
  <2> HIDE DEF to
  <2>4. Moves(c, "unmade", to)
    BY <2>1, <2>2, NewMoves
  <2>5. num' = [num EXCEPT ![c] = n]
    BY <1>1, <2>1 DEF Call
  <2>6. UNCHANGED <<connected, table, refs, serverSide, histories>>
    BY <1>1 DEF Call, serverSide, serverVars
  <2> QED BY <2>3, <2>4, <2>5, <2>6 DEF Starts, New
<1>2. ASSUME at[t] # "idle" PROVE \E c \in Calls : c = Current(t)
  BY <1>2 DEF Shape
<1>3. ASSUME Add(t) PROVE \E c \in Calls : Starts(c)
  <2>1. at[t] = "add" /\ made' = made
    BY <1>3 DEF Add
  <2>2. PICK c \in Calls : c = Current(t)
    BY <1>2, <2>1
  <2>3. CASE table[num[c]] = None
    <3>1. at' = [at EXCEPT ![t] = "added"]
      BY <1>3, <2>2, <2>3 DEF Add, Number
    <3>2. Moves(c, "add", "added")
      BY <2>1, <2>2, <3>1, CurrentMoves
    <3>3. table' = [table EXCEPT ![num[c]] = c] /\ refs' = [refs EXCEPT ![c] = 1]
      BY <1>3, <2>2, <2>3 DEF Add, Number
    <3>4. UNCHANGED <<connected, num, serverSide, histories>>
      BY <1>3 DEF Add, serverSide, serverVars
    <3> QED BY <2>3, <3>2, <3>3, <3>4 DEF Starts, Adds
  <2>4. CASE table[num[c]] # None
    <3>1. at' = [at EXCEPT ![t] = "idle"] /\ UNCHANGED <<table, refs>>
      BY <1>3, <2>2, <2>4 DEF Add, Number
    <3>2. Moves(c, "add", "idle")
      BY <2>1, <2>2, <3>1, CurrentMoves
    <3>3. UNCHANGED <<connected, num, serverSide, histories>>
      BY <1>3 DEF Add, serverSide, serverVars
    <3> QED BY <3>1, <3>2, <3>3 DEF Starts, AddFails
  <2> QED BY <2>3, <2>4
<1>4. ASSUME SendStart(t) PROVE \E c \in Calls : Starts(c)
  <2>1. at[t] = "send" /\ made' = made /\ at' = [at EXCEPT ![t] = "wait"] /\ connected
    BY <1>4 DEF SendStart
  <2>2. PICK c \in Calls : c = Current(t)
    BY <1>2, <2>1
  <2>3. Moves(c, "send", "wait")
    BY <2>1, <2>2, CurrentMoves
  <2>4. serverAt' = [serverAt EXCEPT ![c] = "sent"]
    BY <1>4, <2>2 DEF SendStart
  <2>5. UNCHANGED <<connected, num, table, refs, handlerIn, serverTable, serverRefs, reply, closing, histories>>
    BY <1>4 DEF SendStart
  <2> QED BY <2>1, <2>3, <2>4, <2>5 DEF Starts, Sends
<1>5. ASSUME TakeReply(t) PROVE \E c \in Calls : Starts(c)
  <2>1. at[t] = "wait" /\ made' = made
    BY <1>5 DEF TakeReply
  <2>2. PICK c \in Calls : c = Current(t)
    BY <1>2, <2>1
  <2> DEFINE to == IF reply[c] = "ok" THEN "accepted" ELSE "denied"
  <2>3. at' = [at EXCEPT ![t] = to] /\ reply[c] # "none" /\ Use("starter", refs[c])
    BY <1>5, <2>2 DEF TakeReply
  <2> HIDE DEF to
  <2>4. Moves(c, "wait", to)
    BY <2>1, <2>2, <2>3, CurrentMoves
  <2>5. UNCHANGED <<connected, num, table, refs, serverSide, returned, closed, irregular>>
    BY <1>5 DEF TakeReply, serverSide, serverVars
  <2> QED BY <2>3, <2>4, <2>5 DEF Starts, Takes, to
<1>6. ASSUME NEW from \in Places, NEW to \in Places, NEW less \in {0, 1}, at[t] = from, from # "idle",
             at' = [at EXCEPT ![t] = to], made' = made, Removed(Current(t), less),
             UNCHANGED <<connected, num, serverVars, closing, returned, closed>>,
             \/ from \in {"send", "wait"} /\ to = "idle" /\ less = 1 /\ ~connected
             \/ from = "wait" /\ to = "timedout" /\ less = 1
             \/ from = "denied" /\ to = "failed" /\ less = 0
             \/ from = "failed" /\ to = "idle" /\ less = 1
      PROVE  \E c \in Calls : Starts(c)
  <2>1. PICK c \in Calls : c = Current(t)
    BY <1>2, <1>6
  <2>2. Moves(c, from, to)
    BY <1>6, <2>1, CurrentMoves
  <2>3. Removed(c, less)
    BY <1>6, <2>1 DEF Removed, Number, Note, Use
  <2>4. UNCHANGED <<connected, num, serverSide, returned, closed>>
    BY <1>6 DEF serverSide, serverVars
  <2>5. GivesBack(c, from, to, less)
    BY <1>6, <2>2, <2>3, <2>4 DEF GivesBack
  <2> QED BY <2>5 DEF Starts
<1>7. ASSUME NoConnection(t) PROVE \E c \in Calls : Starts(c)
  <2>1. PICK from \in {"send", "wait"} : at[t] = from
    BY <1>7 DEF NoConnection
  <2>2. /\ at' = [at EXCEPT ![t] = "idle"] /\ made' = made /\ Removed(Current(t), 1) /\ ~connected
        /\ UNCHANGED <<connected, num, serverVars, closing, returned, closed>>
    BY <1>7 DEF NoConnection, Fails
  <2>3. from \in Places /\ "idle" \in Places /\ 1 \in {0, 1} /\ from # "idle"
    BY DEF Places
  <2> QED BY <1>6, <2>1, <2>2, <2>3
<1>8. ASSUME TimeOut(t) PROVE \E c \in Calls : Starts(c)
  <2>1. /\ at' = [at EXCEPT ![t] = "timedout"] /\ made' = made /\ Removed(Current(t), 1) /\ at[t] = "wait"
        /\ UNCHANGED <<connected, num, serverVars, closing, returned, closed>>
    BY <1>8 DEF TimeOut
  <2>2. "wait" \in Places /\ "timedout" \in Places /\ 1 \in {0, 1}
    BY DEF Places
  <2> QED BY <1>6, <2>1, <2>2
<1>9. ASSUME Denied(t) PROVE \E c \in Calls : Starts(c)
  <2>1. /\ at' = [at EXCEPT ![t] = "failed"] /\ made' = made /\ Removed(Current(t), 0) /\ at[t] = "denied"
        /\ UNCHANGED <<connected, num, serverVars, closing, returned, closed>>
    BY <1>9 DEF Denied
  <2>2. "denied" \in Places /\ "failed" \in Places /\ 0 \in {0, 1}
    BY DEF Places
  <2> QED BY <1>6, <2>1, <2>2
<1>10. ASSUME DeniedAgain(t) PROVE \E c \in Calls : Starts(c)
  <2>1. /\ at' = [at EXCEPT ![t] = "idle"] /\ made' = made /\ Removed(Current(t), 1) /\ at[t] = "failed"
        /\ UNCHANGED <<connected, num, serverVars, closing, returned, closed>>
    BY <1>10 DEF DeniedAgain, Fails
  <2>2. "failed" \in Places /\ "idle" \in Places /\ 1 \in {0, 1}
    BY DEF Places
  <2> QED BY <1>6, <2>1, <2>2
<1>11. ASSUME GiveUp(t) PROVE \E c \in Calls : Starts(c)
  <2>1. /\ at' = [at EXCEPT ![t] = "idle"] /\ made' = made /\ at[t] = "timedout"
        /\ irregular' = irregular \cup {"timedout"}
    BY <1>11 DEF GiveUp, Note
  <2>2. PICK c \in Calls : c = Current(t)
    BY <1>2, <2>1
  <2>3. Moves(c, "timedout", "idle")
    BY <2>1, <2>2, CurrentMoves
  <2>4. UNCHANGED <<connected, num, table, refs, serverSide, returned, closed, crashed>>
    BY <1>11 DEF GiveUp, serverSide, serverVars
  <2> QED BY <2>1, <2>3, <2>4 DEF Starts, GaveUp
<1>12. ASSUME Return(t) PROVE \E c \in Calls : Starts(c)
  <2>1. at' = [at EXCEPT ![t] = "idle"] /\ made' = made /\ at[t] = "accepted"
    BY <1>12 DEF Return
  <2>2. PICK c \in Calls : c = Current(t)
    BY <1>2, <2>1
  <2>3. Moves(c, "accepted", "idle")
    BY <2>1, <2>2, CurrentMoves
  <2>4. refs' = [refs EXCEPT ![c] = @ - 1] /\ Use("starter", refs[c]) /\ returned' = returned \cup {c}
    BY <1>12, <2>2 DEF Return
  <2>5. UNCHANGED <<connected, num, table, serverSide, closed, irregular>>
    BY <1>12 DEF Return, serverSide, serverVars
  <2> QED BY <2>3, <2>4, <2>5 DEF Starts, Returns
<1>13. ASSUME TakeReference(t) PROVE \E c \in Calls : Starts(c)
  <2>1. at' = [at EXCEPT ![t] = "send"] /\ made' = made /\ at[t] = "added"
    BY <1>13 DEF TakeReference
  <2>2. PICK c \in Calls : c = Current(t)
    BY <1>2, <2>1
  <2>3. Moves(c, "added", "send")
    BY <2>1, <2>2, CurrentMoves
  <2>4. refs' = [refs EXCEPT ![c] = @ + 1] /\ Use("starter", refs[c])
    BY <1>13, <2>2 DEF TakeReference
  <2>5. UNCHANGED <<connected, num, table, serverSide, returned, closed, irregular>>
    BY <1>13 DEF TakeReference, serverSide, serverVars
  <2> QED BY <2>3, <2>4, <2>5 DEF Starts, Refers
<1> QED BY <1>1, <1>3, <1>4, <1>5, <1>7, <1>8, <1>9, <1>10, <1>11, <1>12, <1>13 DEF StartGoesOn

-----------------------------------------------------------------------------
(* The shapes *)

\* The first state has the shapes.
LEMMA ShapeStart == Init => Shape
BY DEF Init, Shape, Places, ServerPlaces, Exchanges

\* The shapes of what threads that start channels change.
StartShape ==
    /\ at \in [Starters -> Places] /\ made \in [Starters -> Nat]
    /\ num \in [Calls -> Nat]
    /\ table \in [Nums -> Calls \cup {None}] /\ refs \in [Calls -> Int]
    /\ returned \subseteq Calls /\ closed \subseteq Calls
    /\ \A t \in Starters : at[t] # "idle" => Current(t) \in Calls
HistoryShape ==
    /\ irregular \subseteq {"stolen", "timedout", "hasty", "early"}
    /\ crashed \subseteq {"starter", "handler", "notifier"}
ServerShape ==
    /\ serverAt \in [Calls -> ServerPlaces] /\ handlerIn \subseteq Calls
    /\ serverTable \in [Nums -> Calls \cup {None}] /\ serverRefs \in [Calls -> Int]
    /\ reply \in [Calls -> {"none", "ok", "error"}]
RestShape == connected \in BOOLEAN /\ closing \in [Nums -> Exchanges]
\* The shapes fall into those of the two peers, of the histories and of the rest.
LEMMA ShapeParts ==
    /\ Shape <=> StartShape /\ HistoryShape /\ ServerShape /\ RestShape
    /\ Shape' <=> StartShape' /\ HistoryShape' /\ ServerShape' /\ RestShape'
BY DEF Shape, StartShape, HistoryShape, ServerShape, RestShape

\* A thread that goes on with its call.
LEMMA GoesOnShape ==
    ASSUME StartShape, NEW t \in Starters, at[t] # "idle", NEW to \in Places,
           at' = [at EXCEPT ![t] = to], made' = made, num' = num,
           table' \in [Nums -> Calls \cup {None}], refs' \in [Calls -> Int],
           returned' \subseteq Calls, closed' \subseteq Calls
    PROVE  StartShape'
<1>1. at' \in [Starters -> Places] /\ made' \in [Starters -> Nat] /\ num' \in [Calls -> Nat]
  BY DEF StartShape
<1>2. ASSUME NEW u \in Starters, at'[u] # "idle" PROVE Current(u)' \in Calls
  <2>1. at[u] # "idle"
    BY <1>2 DEF StartShape
  <2> QED BY <2>1 DEF StartShape, Current
<1> QED BY <1>1, <1>2 DEF StartShape

\* The table and the references after a removal.
LEMMA RemovedShape ==
    ASSUME Shape, NEW c, NEW less \in {0, 1}, Removed(c, less)
    PROVE  /\ table' \in [Nums -> Calls \cup {None}] /\ refs' \in [Calls -> Int]
           /\ HistoryShape'
<1>1. table' \in [Nums -> Calls \cup {None}]
  BY DEF Removed, Shape
<1>2. refs' \in [Calls -> Int]
  <2> DEFINE there == table[Number(c)]
  <2>1. refs' = [d \in Calls |-> refs[d] - (IF d = there THEN 1 ELSE 0) - (IF d = c THEN less ELSE 0)]
    BY DEF Removed
  <2> HIDE DEF there
  <2>2. \A d \in Calls : refs[d] \in Int
    BY DEF Shape
  <2> QED BY <2>1, <2>2
<1>3. HistoryShape'
  BY DEF Removed, Note, Use, HistoryShape, Shape
<1> QED BY <1>1, <1>2, <1>3

\* The other table and its references after a removal.
LEMMA ServerRemovedShape ==
    ASSUME Shape, NEW c, ServerRemoved(c)
    PROVE  serverTable' \in [Nums -> Calls \cup {None}] /\ serverRefs' \in [Calls -> Int]
<1> DEFINE there == serverTable[Number(c)]
<1>1. serverRefs' = [d \in Calls |-> serverRefs[d] - (IF d = there THEN 1 ELSE 0)]
  BY DEF ServerRemoved
<1>2. serverTable' \in [Nums -> Calls \cup {None}]
  BY DEF ServerRemoved, Shape
<1> HIDE DEF there
<1>3. \A d \in Calls : serverRefs[d] \in Int
  BY DEF Shape
<1> QED BY <1>1, <1>2, <1>3

\* Threads that start channels keep the shapes.
LEMMA StartShapeStep ==
    ASSUME Shape, NEW t \in Starters, (\E n \in Nums : Call(t, n)) \/ StartGoesOn(t) \/ TimeOut(t)
    PROVE  Shape'
<1>s. StartShape /\ HistoryShape /\ ServerShape /\ RestShape
  BY ShapeParts
<1>n. \A n \in Nums : n \in Nat /\ table[n] \in Calls \cup {None}
  BY StartAssumption DEF StartAssumption, Shape
<1>1. ASSUME NEW n \in Nums, Call(t, n) PROVE Shape'
  <2>1. PICK to \in {"add", "idle"} : at' = [at EXCEPT ![t] = to]
    BY <1>1 DEF Call
  <2>2. /\ at' \in [Starters -> Places] /\ made' \in [Starters -> Nat] /\ num' \in [Calls -> Nat]
        /\ UNCHANGED <<table, refs, returned, closed>>
    BY <1>1, <1>s, <1>n, <2>1 DEF Call, StartShape, Places, histories
  <2>3. ASSUME NEW u \in Starters, at'[u] # "idle" PROVE Current(u)' \in Calls
    <3>1. CASE u = t
      <4>1. made'[t] = made[t] + 1 /\ <<t, made[t] + 1>> \in Calls
        BY <1>1, <1>s DEF Call, StartShape
      <4> QED BY <3>1, <4>1 DEF Current
    <3>2. CASE u # t
      <4>1. at[u] # "idle" /\ made'[u] = made[u]
        BY <1>1, <1>s, <2>1, <2>3, <3>2 DEF Call, StartShape
      <4> QED BY <1>s, <4>1 DEF Current, StartShape
    <3> QED BY <3>1, <3>2
  <2>4. StartShape'
    BY <1>s, <2>2, <2>3 DEF StartShape
  <2>5. HistoryShape' /\ ServerShape' /\ RestShape'
    BY <1>1, <1>s DEF Call, HistoryShape, ServerShape, RestShape, serverVars, histories
  <2> QED BY <2>4, <2>5, ShapeParts
<1>2. ASSUME NEW to \in Places, at[t] # "idle", at' = [at EXCEPT ![t] = to], UNCHANGED <<made, num, returned, closed>>,
             table' \in [Nums -> Calls \cup {None}], refs' \in [Calls -> Int], HistoryShape',
             UNCHANGED <<serverVars, connected, closing>>
      PROVE  Shape'
  <2>1. returned' \subseteq Calls /\ closed' \subseteq Calls
    BY <1>2, <1>s DEF StartShape
  <2>2. StartShape'
    BY <1>2, <1>s, <2>1, GoesOnShape
  <2>3. ServerShape' /\ RestShape'
    BY <1>2, <1>s DEF ServerShape, RestShape, serverVars
  <2> QED BY <1>2, <2>2, <2>3, ShapeParts
<1>p. {"idle", "added", "send", "wait", "timedout", "failed", "accepted", "denied"} \subseteq Places
  BY DEF Places
<1>c. at[t] # "idle" => Current(t) \in Calls
  BY DEF Shape
<1>3. ASSUME Add(t) PROVE Shape'
  <2>1. PICK to \in {"added", "idle"} : at' = [at EXCEPT ![t] = to]
    BY <1>3 DEF Add
  <2>2. table' \in [Nums -> Calls \cup {None}] /\ refs' \in [Calls -> Int]
    BY <1>3, <1>s, <1>c DEF Add, StartShape
  <2>3. HistoryShape' /\ UNCHANGED <<made, num, returned, closed, serverVars, connected, closing>> /\ at[t] # "idle"
    BY <1>3, <1>s DEF Add, HistoryShape, histories
  <2> QED BY <1>2, <1>p, <2>1, <2>2, <2>3
<1>4. ASSUME SendStart(t) PROVE Shape'
  <2>1. at' = [at EXCEPT ![t] = "wait"] /\ UNCHANGED <<made, num, table, refs, histories>> /\ at[t] # "idle"
    BY <1>4 DEF SendStart
  <2>2. StartShape'
    <3>1. /\ table' \in [Nums -> Calls \cup {None}] /\ refs' \in [Calls -> Int]
          /\ returned' \subseteq Calls /\ closed' \subseteq Calls
      BY <1>s, <2>1 DEF StartShape, histories
    <3> QED BY <1>s, <1>p, <2>1, <3>1, GoesOnShape
  <2>3. HistoryShape' /\ ServerShape' /\ RestShape'
    BY <1>4, <1>s, <1>c DEF SendStart, HistoryShape, ServerShape, RestShape, histories, ServerPlaces
  <2> QED BY <2>2, <2>3, ShapeParts
<1>5. ASSUME TakeReply(t) PROVE Shape'
  <2>1. PICK to \in {"accepted", "denied"} : at' = [at EXCEPT ![t] = to]
    BY <1>5 DEF TakeReply
  <2>2. table' \in [Nums -> Calls \cup {None}] /\ refs' \in [Calls -> Int] /\ HistoryShape' /\ at[t] # "idle"
        /\ UNCHANGED <<made, num, returned, closed, serverVars, connected, closing>>
    BY <1>5, <1>s DEF TakeReply, StartShape, HistoryShape, Use
  <2> QED BY <1>2, <1>p, <2>1, <2>2
<1>6. ASSUME NoConnection(t) \/ TimeOut(t) \/ Denied(t) \/ DeniedAgain(t) PROVE Shape'
  <2>1. PICK to \in {"idle", "timedout", "failed"}, less \in {0, 1} :
          at' = [at EXCEPT ![t] = to] /\ Removed(Current(t), less)
    BY <1>6 DEF NoConnection, TimeOut, Denied, DeniedAgain, Fails
  <2>2. /\ UNCHANGED <<made, num, returned, closed, serverVars, connected, closing>> /\ at[t] # "idle"
    BY <1>6 DEF NoConnection, TimeOut, Denied, DeniedAgain
  <2>3. table' \in [Nums -> Calls \cup {None}] /\ refs' \in [Calls -> Int] /\ HistoryShape'
    BY <2>1, RemovedShape
  <2> QED BY <1>2, <1>p, <2>1, <2>2, <2>3
<1>7. ASSUME GiveUp(t) PROVE Shape'
  <2>1. /\ at' = [at EXCEPT ![t] = "idle"] /\ at[t] # "idle"
        /\ UNCHANGED <<made, num, returned, closed, serverVars, connected, closing>>
        /\ table' \in [Nums -> Calls \cup {None}] /\ refs' \in [Calls -> Int] /\ HistoryShape'
    BY <1>7, <1>s DEF GiveUp, Note, StartShape, HistoryShape
  <2> QED BY <1>2, <1>p, <2>1
<1>8. ASSUME Return(t) PROVE Shape'
  <2>1. /\ at' = [at EXCEPT ![t] = "idle"] /\ at[t] # "idle" /\ UNCHANGED <<made, num>>
        /\ table' \in [Nums -> Calls \cup {None}] /\ refs' \in [Calls -> Int]
    BY <1>8, <1>s DEF Return, StartShape
  <2>2. returned' \subseteq Calls /\ closed' \subseteq Calls
    BY <1>8, <1>s, <1>c DEF Return, StartShape
  <2>3. StartShape'
    BY <1>s, <1>p, <2>1, <2>2, GoesOnShape
  <2>4. HistoryShape' /\ ServerShape' /\ RestShape'
    BY <1>8, <1>s DEF Return, HistoryShape, ServerShape, RestShape, Use, serverVars
  <2> QED BY <2>3, <2>4, ShapeParts
<1>9. ASSUME TakeReference(t) PROVE Shape'
  <2>1. /\ at' = [at EXCEPT ![t] = "send"] /\ at[t] # "idle" /\ HistoryShape'
        /\ UNCHANGED <<made, num, returned, closed, serverVars, connected, closing>>
    BY <1>9, <1>s DEF TakeReference, HistoryShape, Use
  <2>2. table' \in [Nums -> Calls \cup {None}] /\ refs' \in [Calls -> Int]
    BY <1>9, <1>s, <1>c DEF TakeReference, StartShape
  <2> QED BY <1>2, <1>p, <2>1, <2>2
<1> QED BY <1>1, <1>3, <1>4, <1>5, <1>6, <1>7, <1>8, <1>9 DEF StartGoesOn

\* So do the threads of the peer that is asked.
LEMMA ServerShapeStep ==
    ASSUME Shape, NEW c \in Calls, ServerGoesOn(c) \/ HandlerReturns(c)
    PROVE  Shape'
<1>s. StartShape /\ HistoryShape /\ ServerShape /\ RestShape
  BY ShapeParts
<1>1. StartShape' /\ RestShape'
  <2>1. UNCHANGED <<startVars, connected, closing, returned, closed>>
    BY DEF ServerGoesOn, Refuse, Receive, ServerAdd, HandlerDenies, HandlerAccepts, HandlerDefers, NotifyAccept,
           NotifyDeny, DenyRemoves, Notified, HandlerReturns, histories
  <2> QED BY <1>s, <2>1 DEF StartShape, RestShape, startVars, Current
<1>2. HistoryShape'
  <2>1. /\ irregular' \in {irregular, irregular \cup {"hasty"}}
        /\ crashed' \in {crashed, crashed \cup {"handler"}, crashed \cup {"notifier"}}
    BY DEF ServerGoesOn, Refuse, Receive, ServerAdd, HandlerDenies, HandlerAccepts, HandlerDefers, NotifyAccept,
           NotifyDeny, DenyRemoves, Notified, HandlerReturns, histories, Use, Hasty, Note
  <2> QED BY <1>s, <2>1 DEF HistoryShape
<1>3. ASSUME NEW text \in {"none", "ok", "error"}, Answer(c, text)
      PROVE  reply' \in [Calls -> {"none", "ok", "error"}]
  BY <1>3, <1>s DEF Answer, ServerShape
<1>4. ASSUME NEW to \in ServerPlaces, ServerGoes(c, to) PROVE serverAt' \in [Calls -> ServerPlaces]
  BY <1>4, <1>s DEF ServerGoes, ServerShape
<1>p. {"add", "handler", "deferred", "remove", "notify", "done"} \subseteq ServerPlaces
  BY DEF ServerPlaces
<1>5. serverAt' \in [Calls -> ServerPlaces]
  <2>1. ASSUME HandlerReturns(c) PROVE serverAt' = serverAt
    BY <2>1 DEF HandlerReturns
  <2>2. ASSUME ServerGoesOn(c)
        PROVE  \E to \in {"add", "handler", "deferred", "remove", "notify", "done"} : ServerGoes(c, to)
    BY <2>2 DEF ServerGoesOn, Refuse, Receive, ServerAdd, HandlerDenies, HandlerAccepts, HandlerDefers, NotifyAccept,
           NotifyDeny, DenyRemoves, Notified, Accepts
  <2> QED BY <1>s, <1>4, <1>p, <2>1, <2>2 DEF ServerShape
<1>6. reply' \in [Calls -> {"none", "ok", "error"}]
  <2>1. reply' = reply \/ (\E text \in {"ok", "error"} : Answer(c, text))
    BY DEF ServerGoesOn, Refuse, Receive, ServerAdd, HandlerDenies, HandlerAccepts, HandlerDefers, NotifyAccept,
           NotifyDeny, DenyRemoves, Notified, HandlerReturns, Accepts
  <2> QED BY <1>s, <1>3, <2>1 DEF ServerShape
<1>7. handlerIn' \subseteq Calls
  <2>1. handlerIn' \in {handlerIn, handlerIn \cup {c}, handlerIn \ {c}}
    BY DEF ServerGoesOn, Refuse, Receive, ServerAdd, HandlerDenies, HandlerAccepts, HandlerDefers, NotifyAccept,
           NotifyDeny, DenyRemoves, Notified, HandlerReturns
  <2> QED BY <1>s, <2>1 DEF ServerShape
<1>8. serverTable' \in [Nums -> Calls \cup {None}] /\ serverRefs' \in [Calls -> Int]
  <2>1. CASE ServerRemoved(c)
    BY <2>1, ServerRemovedShape
  <2>2. CASE UNCHANGED <<serverTable, serverRefs>>
    BY <1>s, <2>2 DEF ServerShape
  <2>3. CASE Accepts(c) \/ Notified(c) \/ ServerAdd(c)
    <3>1. CASE Accepts(c) \/ Notified(c)
      BY <1>s, <2>1, <3>1 DEF Accepts, Notified, ServerShape
    <3>2. CASE ServerAdd(c)
      BY <1>s, <3>2 DEF ServerAdd, ServerShape
    <3> QED BY <2>3, <3>1, <3>2
  <2> QED BY <2>1, <2>2, <2>3 DEF ServerGoesOn, Refuse, Receive, HandlerDenies, HandlerAccepts, HandlerDefers,
              NotifyAccept, NotifyDeny, DenyRemoves, HandlerReturns
<1>9. ServerShape'
  BY <1>5, <1>6, <1>7, <1>8 DEF ServerShape
<1> QED BY <1>1, <1>2, <1>9, ShapeParts

\* And the steps of a close.
LEMMA CloseShapeStep ==
    ASSUME Shape, NEW n \in Nums, CloseByServer(n) \/ CloseByStarter(n) \/ CloseGoesOn(n)
    PROVE  Shape'
<1>s. StartShape /\ HistoryShape /\ ServerShape /\ RestShape
  BY ShapeParts
<1>1. RestShape'
  <2>1. connected' = connected /\ \E e \in Exchanges : closing' = [closing EXCEPT ![n] = e]
    BY DEF CloseByServer, CloseByStarter, CloseGoesOn, StarterCloses, ServerRemoves, ServerCloses, StarterRemoves,
           Exchanges
  <2> QED BY <1>s, <2>1 DEF RestShape
<1>2. ASSUME StarterCloses(n) \/ StarterRemoves(n) PROVE StartShape' /\ HistoryShape' /\ ServerShape'
  <2>1. /\ table' \in [Nums -> Calls \cup {None}] /\ refs' \in [Calls -> Int] /\ closed' \subseteq Calls
        /\ UNCHANGED <<at, made, num, returned>>
    <3>1. \/ UNCHANGED <<table, refs, closed>>
          \/ /\ table[n] # None /\ table' = [table EXCEPT ![n] = None]
             /\ refs' = [refs EXCEPT ![table[n]] = @ - 1] /\ closed' = closed \cup {table[n]}
      BY <1>2 DEF StarterCloses, StarterRemoves
    <3>2. table[n] # None => table[n] \in Calls
      BY <1>s DEF StartShape
    <3>3. table' \in [Nums -> Calls \cup {None}]
      BY <1>s, <3>1 DEF StartShape
    <3>4. refs' \in [Calls -> Int]
      BY <1>s, <3>1, <3>2 DEF StartShape
    <3>5. closed' \subseteq Calls
      BY <1>s, <3>1, <3>2 DEF StartShape
    <3> QED BY <1>2, <3>3, <3>4, <3>5 DEF StarterCloses, StarterRemoves
  <2>2. StartShape'
    BY <1>s, <2>1 DEF StartShape, Current
  <2>3. irregular' \in {irregular, irregular \cup {"early"}} /\ UNCHANGED <<crashed, serverVars>>
    BY <1>2 DEF StarterCloses, StarterRemoves, Note, serverVars
  <2> QED BY <1>s, <2>2, <2>3 DEF HistoryShape, ServerShape, serverVars
<1>3. ASSUME ServerRemoves(n) \/ ServerCloses(n) PROVE StartShape' /\ HistoryShape' /\ ServerShape'
  <2>1. UNCHANGED <<startVars, histories, serverAt, handlerIn, reply>>
    BY <1>3 DEF ServerRemoves, ServerCloses
  <2>2. serverTable' \in [Nums -> Calls \cup {None}] /\ serverRefs' \in [Calls -> Int]
    <3>1. (\E c : ServerRemoved(c)) \/ UNCHANGED <<serverTable, serverRefs>>
      BY <1>3 DEF ServerRemoves, ServerCloses
    <3> QED BY <1>s, <3>1, ServerRemovedShape DEF ServerShape
  <2>3. StartShape' /\ HistoryShape'
    BY <1>s, <2>1 DEF StartShape, HistoryShape, Current, startVars, histories
  <2> QED BY <1>s, <2>1, <2>2, <2>3 DEF ServerShape
<1>4. ASSUME CloseByServer(n) \/ CloseByStarter(n) PROVE StartShape' /\ HistoryShape' /\ ServerShape'
  <2>1. UNCHANGED <<startVars, histories, serverVars>>
    BY <1>4 DEF CloseByServer, CloseByStarter
  <2> QED BY <1>s, <2>1 DEF StartShape, HistoryShape, ServerShape, startVars, serverVars, histories, Current
<1> QED BY <1>1, <1>2, <1>3, <1>4, ShapeParts DEF CloseGoesOn

\* The shapes of the fields and locals of both peers are kept.
LEMMA ShapeStep == Shape /\ [Next]_vars => Shape'
<1> SUFFICES ASSUME Shape, [Next]_vars PROVE Shape'
  OBVIOUS
<1>1. CASE Break
  BY <1>1 DEF Break, Shape, startVars, serverVars, histories, Current
<1>2. CASE UNCHANGED vars
  BY <1>2 DEF vars, Shape, startVars, serverVars, histories, Current
<1> QED BY <1>1, <1>2, StartShapeStep, ServerShapeStep, CloseShapeStep DEF Next

-----------------------------------------------------------------------------
(* What the helpers change *)

Good == TableInv /\ Safe
Clean == "stolen" \notin irregular'

\* vortex_connection_remove_channel takes the channel from the table, and only it.
LEMMA RemovedFacts ==
    ASSUME Shape, NEW c \in Calls, num[c] \in Nums, NEW less \in {0, 1}, Removed(c, less), num' = num, Clean
    PROVE  /\ irregular' = irregular
           /\ \A d \in Calls : /\ Tabled(d)' <=> Tabled(d) /\ d # c
                               /\ Tabled(d) /\ num[d] = num[c] => d = c
                               /\ d # c => refs'[d] = refs[d]
           /\ refs'[c] = refs[c] - (IF Tabled(c) THEN 1 ELSE 0) - less
           /\ \A n \in Nums : table'[n] = IF n = num[c] THEN None ELSE table[n]
<1> DEFINE there == table[num[c]]
<1>1. there \in {None, c} /\ irregular' = irregular
  BY DEF Removed, Note, Number, Clean
<1>2. \A n \in Nums : table'[n] = IF n = num[c] THEN None ELSE table[n]
  BY DEF Removed, Number, Shape
<1>3. \A d \in Calls : refs'[d] = refs[d] - (IF d = there THEN 1 ELSE 0) - (IF d = c THEN less ELSE 0)
  BY DEF Removed, Number
<1>4. \A d \in Calls : refs[d] \in Int
  BY DEF Shape
<1>5. \A d \in Calls : Tabled(d) /\ num[d] = num[c] => d = c
  BY <1>1, CallFacts DEF Tabled
<1>6. \A d \in Calls : Tabled(d)' <=> Tabled(d) /\ d # c
  BY <1>2, <1>5, CallFacts DEF Tabled
<1>7. Tabled(c) <=> c = there
  BY DEF Tabled
<1>8. refs'[c] = refs[c] - (IF Tabled(c) THEN 1 ELSE 0) - less
  BY <1>3, <1>7
<1>9. ASSUME NEW d \in Calls, d # c PROVE refs'[d] = refs[d]
  <2>1. d # there
    BY <1>1, <1>9, CallFacts
  <2> QED BY <1>3, <1>4, <1>9, <2>1
<1> QED BY <1>1, <1>2, <1>5, <1>6, <1>8, <1>9

\* The same at the peer that is asked.
LEMMA ServerRemovedFacts ==
    ASSUME Shape, NEW c \in Calls, STabled(c), ServerRemoved(c), num' = num
    PROVE  /\ \A d \in Calls : /\ STabled(d)' <=> STabled(d) /\ d # c
                               /\ STabled(d) /\ num[d] = num[c] => d = c
                               /\ d # c => serverRefs'[d] = serverRefs[d]
           /\ serverRefs'[c] = serverRefs[c] - 1
           /\ \A n \in Nums : serverTable'[n] = IF n = num[c] THEN None ELSE serverTable[n]
<1>1. num[c] \in Nums /\ serverTable[num[c]] = c
  BY DEF STabled
<1>2. \A n \in Nums : serverTable'[n] = IF n = num[c] THEN None ELSE serverTable[n]
  BY DEF ServerRemoved, Number, Shape
<1>3. \A d \in Calls : serverRefs'[d] = serverRefs[d] - (IF d = c THEN 1 ELSE 0)
  BY <1>1 DEF ServerRemoved, Number
<1>4. \A d \in Calls : serverRefs[d] \in Int
  BY DEF Shape
<1>5. \A d \in Calls : STabled(d) /\ num[d] = num[c] => d = c
  BY <1>1 DEF STabled
<1>6. \A d \in Calls : STabled(d)' <=> STabled(d) /\ d # c
  BY <1>1, <1>2, <1>5, CallFacts DEF STabled
<1> QED BY <1>2, <1>3, <1>4, <1>5, <1>6

\* What is seen of a table that does not change.
LEMMA SameTable == UNCHANGED <<num, table>> => \A d \in Calls : Tabled(d)' <=> Tabled(d)
BY DEF Tabled

\* What is seen of the other table when it does not change.
LEMMA SameServerTable == UNCHANGED <<num, serverTable>> => \A d \in Calls : STabled(d)' <=> STabled(d)
BY DEF STabled

\* Who gave up did so for good.
LEMMA TimedOutStays ==
    /\ \A c \in Calls : \A from, to :
          Moves(c, from, to) /\ from # "timedout" /\ irregular \subseteq irregular' /\ TimedOut => TimedOut'
    /\ Stay /\ irregular \subseteq irregular' /\ TimedOut => TimedOut'
<1>1. ASSUME NEW c \in Calls, NEW from, NEW to, Moves(c, from, to), from # "timedout", irregular \subseteq irregular', TimedOut
      PROVE  TimedOut'
  BY <1>1 DEF TimedOut, Moves
<1>2. ASSUME Stay, irregular \subseteq irregular', TimedOut PROVE TimedOut'
  BY <1>2 DEF TimedOut, Stay
<1> QED BY <1>1, <1>2

-----------------------------------------------------------------------------
(* The steps of the thread that starts a channel *)

\* A new call is nowhere yet.
LEMMA NewStep ==
    ASSUME Shape, Good, Clean, NEW c \in Calls, NEW to, New(c, to)
    PROVE  Good'
<1>1. to \in {"add", "idle"} /\ Moves(c, "unmade", to)
  BY DEF New
<1>2. UNCHANGED <<connected, table, refs, serverAt, handlerIn, serverTable, serverRefs, reply, closing, histories>>
  BY DEF New, serverSide
<1>3. num'[c] \in Nums /\ \A d \in Calls : d # c => num'[d] = num[d]
  BY DEF New, Shape
<1>4. /\ ~Tabled(c) /\ serverAt[c] = "none" /\ ~STabled(c) /\ refs[c] = 0 /\ serverRefs[c] = 0
      /\ reply[c] = "none" /\ c \notin returned /\ c \notin closed
  BY <1>1 DEF Good, Safe, RefsInv, ReplyInv, ServerInv, Moves, Held, Inside
<1>5. \A n \in Nums : table[n] # c /\ serverTable[n] # c
  BY <1>4, CallFacts DEF Good, TableInv, Tabled, STabled
<1>6. \A d \in Calls : (Tabled(d)' <=> Tabled(d)) /\ (STabled(d)' <=> STabled(d))
  BY <1>2, <1>3, <1>4, <1>5 DEF Tabled, STabled
<1>7. Place(c)' = to /\ Place(c) = "unmade" /\ \A d \in Calls : d # c => Place(d)' = Place(d)
  BY <1>1 DEF Moves
<1>8. TableInv'
  <2>1. \A n \in Nums : table[n] # None => table[n] \in Calls \ {c}
    BY <1>5 DEF Shape
  <2>2. \A n \in Nums : serverTable[n] # None => serverTable[n] \in Calls \ {c}
    BY <1>5 DEF Shape
  <2> QED BY <1>2, <1>3, <1>7, <2>1, <2>2 DEF Good, TableInv
<1>9. RefsInv'
  BY <1>1, <1>2, <1>4, <1>6, <1>7 DEF Good, Safe, RefsInv, Held, Inside, histories
<1>10. ReplyInv'
  BY <1>1, <1>2, <1>4, <1>6, <1>7 DEF Good, Safe, ReplyInv, histories
<1>11. ServerInv'
  BY <1>2, <1>6 DEF Good, Safe, ServerInv
<1>12. CloseInv'
  BY <1>2, <1>3, <1>4, <1>6 DEF Good, Safe, CloseInv, histories
<1>13. SameInv'
  <2>1. ~TimedOut' => ~TimedOut
    BY <1>1, <1>2, TimedOutStays DEF histories
  <2> QED BY <1>2, <1>3, <1>4, <1>6, <2>1 DEF Good, Safe, SameInv, histories
<1>14. UseInv'
  BY <1>2 DEF Good, Safe, UseInv, histories
<1> QED BY <1>8, <1>9, <1>10, <1>11, <1>12, <1>13, <1>14 DEF Good, Safe

\* The number was taken meanwhile.
LEMMA AddFailsStep ==
    ASSUME Shape, Good, Clean, NEW c \in Calls, AddFails(c)
    PROVE  Good'
<1>1. Moves(c, "add", "idle")
  BY DEF AddFails
<1>2. UNCHANGED <<connected, num, table, refs, serverAt, handlerIn, serverTable, serverRefs, reply, closing, histories>>
  BY DEF AddFails, serverSide
<1>3. \A d \in Calls : (Tabled(d)' <=> Tabled(d)) /\ (STabled(d)' <=> STabled(d))
  BY <1>2, SameTable, SameServerTable
<1>4. Place(c)' = "idle" /\ Place(c) = "add" /\ \A d \in Calls : d # c => Place(d)' = Place(d)
  BY <1>1 DEF Moves
<1>5. TableInv'
  BY <1>2, <1>4 DEF Good, TableInv
<1>6. RefsInv'
  BY <1>2, <1>3, <1>4 DEF Good, Safe, RefsInv, Held, Inside, histories
<1>7. ReplyInv'
  BY <1>2, <1>4 DEF Good, Safe, ReplyInv, histories
<1>8. ServerInv'
  BY <1>2, <1>3 DEF Good, Safe, ServerInv
<1>9. CloseInv'
  BY <1>2, <1>3 DEF Good, Safe, CloseInv, histories
<1>10. SameInv'
  <2>1. ~TimedOut' => ~TimedOut
    BY <1>1, <1>2, TimedOutStays DEF histories
  <2> QED BY <1>2, <1>3, <2>1 DEF Good, Safe, SameInv, histories
<1>11. UseInv'
  BY <1>2 DEF Good, Safe, UseInv, histories
<1> QED BY <1>5, <1>6, <1>7, <1>8, <1>9, <1>10, <1>11 DEF Good, Safe

\* The channel is put in the table, whose reference is the only one.
LEMMA AddsStep ==
    ASSUME Shape, Good, Clean, NEW c \in Calls, Adds(c)
    PROVE  Good'
<1>1. Moves(c, "add", "added")
  BY DEF Adds
<1>2. UNCHANGED <<connected, num, serverAt, handlerIn, serverTable, serverRefs, reply, closing, histories>>
  BY DEF Adds, serverSide
<1>3. Place(c)' = "added" /\ Place(c) = "add" /\ \A d \in Calls : d # c => Place(d)' = Place(d)
  BY <1>1 DEF Moves
<1>4. /\ ~Tabled(c) /\ serverAt[c] = "none" /\ reply[c] = "none" /\ c \notin returned /\ c \notin closed
      /\ num[c] \in Nums
  BY <1>3 DEF Good, Safe, TableInv, RefsInv, ReplyInv, Inside, Held
<1>5. /\ table[num[c]] = None /\ \A n \in Nums : table'[n] = IF n = num[c] THEN c ELSE table[n]
      /\ refs'[c] = 1 /\ \A d \in Calls : d # c => refs'[d] = refs[d]
  BY <1>4 DEF Adds, Shape
<1>6. \A d \in Calls : Tabled(d)' <=> Tabled(d) \/ d = c
  BY <1>2, <1>4, <1>5, CallFacts DEF Tabled
<1>7. \A d \in Calls : STabled(d)' <=> STabled(d)
  BY <1>2, SameServerTable
<1>8. TableInv'
  BY <1>2, <1>3, <1>4, <1>5 DEF Good, TableInv
<1>9. RefsInv'
  BY <1>2, <1>3, <1>4, <1>5, <1>6 DEF Good, Safe, RefsInv, Held, Inside, histories
<1>10. ReplyInv'
  BY <1>2, <1>3 DEF Good, Safe, ReplyInv, histories
<1>11. ServerInv'
  BY <1>2, <1>7 DEF Good, Safe, ServerInv
<1>12. CloseInv'
  <2>1. \A n \in Nums : table[n] \in returned => table'[n] = table[n]
    BY <1>5, CallFacts DEF Shape
  <2> QED BY <1>2, <1>4, <1>6, <1>7, <2>1 DEF Good, Safe, CloseInv, histories
<1>13. SameInv'
  <2>1. ~TimedOut' => ~TimedOut
    BY <1>1, <1>2, TimedOutStays DEF histories
  <2> QED BY <1>2, <1>6, <1>7, <2>1 DEF Good, Safe, SameInv, histories
<1>14. UseInv'
  BY <1>2 DEF Good, Safe, UseInv, histories
<1> QED BY <1>8, <1>9, <1>10, <1>11, <1>12, <1>13, <1>14 DEF Good, Safe

\* The thread takes its reference: of a channel the table holds, or that was closed early.
LEMMA RefersStep ==
    ASSUME Shape, Good, EarlyInv, Clean, NEW c \in Calls, Refers(c)
    PROVE  Good'
<1>1. Moves(c, "added", "send")
  BY DEF Refers
<1>2. UNCHANGED <<connected, num, table, serverAt, handlerIn, serverTable, serverRefs, reply, closing, returned, closed,
                  irregular>>
  BY DEF Refers, serverSide
<1>3. Place(c)' = "send" /\ Place(c) = "added" /\ \A d \in Calls : d # c => Place(d)' = Place(d)
  BY <1>1 DEF Moves
<1>4. refs'[c] = refs[c] + 1 /\ \A d \in Calls : d # c => refs'[d] = refs[d]
  BY DEF Refers, Shape
<1>5. \A d \in Calls : (Tabled(d)' <=> Tabled(d)) /\ (STabled(d)' <=> STabled(d))
  BY <1>2, SameTable, SameServerTable
<1>6. refs[c] = (IF Tabled(c) THEN 1 ELSE 0) /\ (Tabled(c) \/ c \in closed)
  BY <1>3 DEF Good, Safe, RefsInv, Held, Inside
<1>7. TableInv'
  BY <1>2, <1>3 DEF Good, TableInv
<1>8. RefsInv'
  <2>1. refs'[c] = (IF Tabled(c)' THEN 1 ELSE 0) + 1
    BY <1>4, <1>5, <1>6
  <2> QED BY <1>2, <1>3, <1>4, <1>5, <2>1 DEF Good, Safe, RefsInv, Held, Inside
<1>9. ReplyInv'
  BY <1>2, <1>3 DEF Good, Safe, ReplyInv
<1>10. ServerInv'
  BY <1>2, <1>5 DEF Good, Safe, ServerInv
<1>11. CloseInv'
  BY <1>2, <1>5 DEF Good, Safe, CloseInv
<1>12. SameInv'
  <2>1. ~TimedOut' => ~TimedOut
    BY <1>1, <1>2, TimedOutStays
  <2> QED BY <1>2, <1>5, <2>1 DEF Good, Safe, SameInv
<1>13. UseInv'
  <2>1. ASSUME "early" \notin irregular PROVE crashed' = crashed
    <3>1. refs[c] # 0
      BY <1>3, <1>6, <2>1 DEF EarlyInv
    <3> QED BY <3>1 DEF Refers, Use
  <2> QED BY <1>2, <2>1 DEF Good, Safe, UseInv
<1> QED BY <1>7, <1>8, <1>9, <1>10, <1>11, <1>12, <1>13 DEF Good, Safe

\* The start message is sent.
LEMMA SendsStep ==
    ASSUME Shape, Good, Clean, NEW c \in Calls, Sends(c)
    PROVE  Good'
<1>1. Moves(c, "send", "wait") /\ connected
  BY DEF Sends
<1>2. UNCHANGED <<connected, num, table, refs, handlerIn, serverTable, serverRefs, reply, closing, histories>>
  BY DEF Sends
<1>3. Place(c)' = "wait" /\ Place(c) = "send" /\ \A d \in Calls : d # c => Place(d)' = Place(d)
  BY <1>1 DEF Moves
<1>4. serverAt'[c] = "sent" /\ \A d \in Calls : d # c => serverAt'[d] = serverAt[d]
  BY DEF Sends, Shape
<1>5. \A d \in Calls : (Tabled(d)' <=> Tabled(d)) /\ (STabled(d)' <=> STabled(d))
  BY <1>2, SameTable, SameServerTable
<1>6. serverAt[c] = "none" /\ ~STabled(c) /\ reply[c] = "none" /\ num[c] \in Nums
  BY <1>3 DEF Good, Safe, TableInv, ReplyInv, ServerInv
<1>7. TableInv'
  BY <1>2, <1>3, <1>4, <1>6 DEF Good, TableInv
<1>8. RefsInv'
  BY <1>2, <1>3, <1>5 DEF Good, Safe, RefsInv, Held, Inside, histories
<1>9. ReplyInv'
  BY <1>2, <1>3, <1>4, <1>6 DEF Good, Safe, ReplyInv, histories
<1>10. ServerInv'
  BY <1>2, <1>4, <1>5, <1>6 DEF Good, Safe, ServerInv
<1>11. CloseInv'
  BY <1>2, <1>5 DEF Good, Safe, CloseInv, histories
<1>12. SameInv'
  <2>1. ~TimedOut' => ~TimedOut
    BY <1>1, <1>2, TimedOutStays DEF histories
  <2>2. Tabled(c) \/ c \in closed
    BY <1>3 DEF Good, Safe, RefsInv, Inside, Held
  <2> QED BY <1>1, <1>2, <1>4, <1>5, <1>6, <2>1, <2>2 DEF Good, Safe, SameInv, histories
<1>13. UseInv'
  <2>1. \A d \in handlerIn : d \in Calls
    BY DEF Shape
  <2> QED BY <1>2, <1>4, <1>6, <2>1 DEF Good, Safe, UseInv, histories
<1> QED BY <1>7, <1>8, <1>9, <1>10, <1>11, <1>12, <1>13 DEF Good, Safe

\* The answer is taken by the thread, with its own reference.
LEMMA TakesStep ==
    ASSUME Shape, Good, Clean, NEW c \in Calls, Takes(c)
    PROVE  Good'
<1> DEFINE to == IF reply[c] = "ok" THEN "accepted" ELSE "denied"
<1>1. Moves(c, "wait", to) /\ reply[c] \in {"ok", "error"}
  BY DEF Takes, Shape
<1>2. UNCHANGED <<connected, num, table, refs, serverAt, handlerIn, serverTable, serverRefs, reply, closing,
                  returned, closed, irregular>>
  BY DEF Takes, serverSide
<1>3. Place(c)' = to /\ Place(c) = "wait" /\ \A d \in Calls : d # c => Place(d)' = Place(d)
  BY <1>1 DEF Moves
<1>4. \A d \in Calls : (Tabled(d)' <=> Tabled(d)) /\ (STabled(d)' <=> STabled(d))
  BY <1>2, SameTable, SameServerTable
<1>5. crashed' = crashed
  <2>1. refs[c] # 0
    BY <1>3 DEF Good, Safe, RefsInv, Held
  <2> QED BY <2>1 DEF Takes, Use
<1>6. TableInv'
  BY <1>2, <1>3 DEF Good, TableInv
<1>7. RefsInv'
  BY <1>2, <1>3, <1>4 DEF Good, Safe, RefsInv, Held, Inside
<1>8. ReplyInv'
  BY <1>1, <1>2, <1>3 DEF Good, Safe, ReplyInv
<1>9. ServerInv'
  BY <1>2, <1>4 DEF Good, Safe, ServerInv
<1>10. CloseInv'
  BY <1>2, <1>4 DEF Good, Safe, CloseInv
<1>11. SameInv'
  <2>1. ~TimedOut' => ~TimedOut
    BY <1>1, <1>2, TimedOutStays
  <2> QED BY <1>2, <1>4, <2>1 DEF Good, Safe, SameInv
<1>12. UseInv'
  BY <1>2, <1>5 DEF Good, Safe, UseInv
<1> QED BY <1>6, <1>7, <1>8, <1>9, <1>10, <1>11, <1>12 DEF Good, Safe

\* The channel is removed from the table, the reference of the thread released.
LEMMA GivesBackStep ==
    ASSUME Shape, Good, Clean, NEW c \in Calls, NEW from, NEW to, NEW less \in {0, 1}, GivesBack(c, from, to, less)
    PROVE  Good'
<1>1. /\ Moves(c, from, to) /\ Removed(c, less)
      /\ \/ from \in {"send", "wait"} /\ to = "idle" /\ less = 1 /\ ~connected
         \/ from = "wait" /\ to = "timedout" /\ less = 1
         \/ from = "denied" /\ to = "failed" /\ less = 0
         \/ from = "failed" /\ to = "idle" /\ less = 1
  BY DEF GivesBack
<1>2. UNCHANGED <<connected, num, serverAt, handlerIn, serverTable, serverRefs, reply, closing, returned, closed>>
  BY DEF GivesBack, serverSide
<1>3. Place(c)' = to /\ Place(c) = from /\ \A d \in Calls : d # c => Place(d)' = Place(d)
  BY <1>1 DEF Moves
<1>4. num[c] \in Nums /\ c \notin returned /\ refs[c] = (IF Tabled(c) THEN 1 ELSE 0) + 1
  BY <1>1, <1>3 DEF Good, Safe, TableInv, RefsInv, ReplyInv, Held
<1>5. /\ irregular' = irregular
      /\ \A d \in Calls : /\ Tabled(d)' <=> Tabled(d) /\ d # c
                          /\ Tabled(d) /\ num[d] = num[c] => d = c
                          /\ d # c => refs'[d] = refs[d]
      /\ refs'[c] = refs[c] - (IF Tabled(c) THEN 1 ELSE 0) - less
      /\ \A n \in Nums : table'[n] = IF n = num[c] THEN None ELSE table[n]
  BY <1>1, <1>2, <1>4, RemovedFacts
<1>6. \A d \in Calls : STabled(d)' <=> STabled(d)
  BY <1>2, SameServerTable
<1>7. TableInv'
  BY <1>1, <1>2, <1>3, <1>4, <1>5 DEF Good, TableInv
<1>8. RefsInv'
  <2>1. refs'[c] = (IF Tabled(c)' THEN 1 ELSE 0) + (IF to \in Held THEN 1 ELSE 0)
    BY <1>1, <1>4, <1>5 DEF Held
  <2>2. to \notin Inside
    BY <1>1 DEF Inside, Held
  <2> QED BY <1>2, <1>3, <1>4, <1>5, <2>1, <2>2 DEF Good, Safe, RefsInv
<1>9. ReplyInv'
  BY <1>1, <1>2, <1>3, <1>4 DEF Good, Safe, ReplyInv
<1>10. ServerInv'
  BY <1>2, <1>6 DEF Good, Safe, ServerInv
<1>11. CloseInv'
  <2>1. ASSUME NEW n \in Nums, table[n] \in returned PROVE table'[n] = table[n]
    <3>1. table[n] \in Calls /\ table[n] # None /\ table[n] # c
      BY <1>4, <2>1, CallFacts DEF Shape
    <3>2. num[table[n]] = n
      BY <3>1 DEF Good, TableInv
    <3>3. Tabled(table[n])
      BY <3>2 DEF Tabled
    <3>4. n # num[c]
      BY <1>5, <3>1, <3>2, <3>3
    <3> QED BY <1>5, <3>4
  <2> QED BY <1>2, <1>5, <1>6, <2>1 DEF Good, Safe, CloseInv
<1>12. SameInv'
  <2>1. CASE ~connected
    BY <1>2, <2>1 DEF SameInv
  <2>2. CASE to = "timedout"
    BY <1>3, <2>2 DEF SameInv, TimedOut
  <2>3. CASE from \in {"denied", "failed"}
    <3>1. ~TimedOut' => ~TimedOut
      BY <1>1, <1>5, <2>3, TimedOutStays
    <3>2. reply[c] = "error" /\ serverAt[c] \notin {"sent", "add", "handler", "deferred"}
      BY <1>3, <2>3 DEF Good, Safe, ReplyInv
    <3> QED BY <1>2, <1>5, <1>6, <3>1, <3>2 DEF Good, Safe, SameInv
  <2> QED BY <1>1, <2>1, <2>2, <2>3
<1>13. UseInv'
  <2>1. crashed' = crashed
    BY <1>1, <1>4 DEF Removed, Use
  <2> QED BY <1>2, <1>5, <2>1 DEF Good, Safe, UseInv
<1> QED BY <1>7, <1>8, <1>9, <1>10, <1>11, <1>12, <1>13 DEF Good, Safe

\* The call returns without an answer.
LEMMA GaveUpStep ==
    ASSUME Shape, Good, Clean, NEW c \in Calls, GaveUp(c)
    PROVE  Good'
<1>1. Moves(c, "timedout", "idle") /\ irregular' = irregular \cup {"timedout"}
  BY DEF GaveUp
<1>2. UNCHANGED <<connected, num, table, refs, serverAt, handlerIn, serverTable, serverRefs, reply, closing,
                  returned, closed, crashed>>
  BY DEF GaveUp, serverSide
<1>3. Place(c)' = "idle" /\ Place(c) = "timedout" /\ \A d \in Calls : d # c => Place(d)' = Place(d)
  BY <1>1 DEF Moves
<1>4. \A d \in Calls : (Tabled(d)' <=> Tabled(d)) /\ (STabled(d)' <=> STabled(d))
  BY <1>2, SameTable, SameServerTable
<1>5. TableInv'
  BY <1>2, <1>3 DEF Good, TableInv
<1>6. RefsInv'
  BY <1>2, <1>3, <1>4 DEF Good, Safe, RefsInv, Held, Inside
<1>7. ReplyInv'
  BY <1>2, <1>3 DEF Good, Safe, ReplyInv
<1>8. ServerInv'
  BY <1>2, <1>4 DEF Good, Safe, ServerInv
<1>9. CloseInv'
  BY <1>2, <1>4 DEF Good, Safe, CloseInv
<1>10. SameInv'
  BY <1>1 DEF SameInv, TimedOut
<1>11. UseInv'
  BY <1>1, <1>2 DEF Good, Safe, UseInv
<1> QED BY <1>5, <1>6, <1>7, <1>8, <1>9, <1>10, <1>11 DEF Good, Safe

\* The channel is returned.
LEMMA ReturnsStep ==
    ASSUME Shape, Good, Clean, NEW c \in Calls, Returns(c)
    PROVE  Good'
<1>1. Moves(c, "accepted", "idle") /\ returned' = returned \cup {c}
  BY DEF Returns
<1>2. UNCHANGED <<connected, num, table, serverAt, handlerIn, serverTable, serverRefs, reply, closing, closed, irregular>>
  BY DEF Returns, serverSide
<1>3. Place(c)' = "idle" /\ Place(c) = "accepted" /\ \A d \in Calls : d # c => Place(d)' = Place(d)
  BY <1>1 DEF Moves
<1>4. refs'[c] = refs[c] - 1 /\ \A d \in Calls : d # c => refs'[d] = refs[d]
  BY DEF Returns, Shape
<1>5. \A d \in Calls : (Tabled(d)' <=> Tabled(d)) /\ (STabled(d)' <=> STabled(d))
  BY <1>2, SameTable, SameServerTable
<1>6. refs[c] = (IF Tabled(c) THEN 1 ELSE 0) + 1 /\ reply[c] = "ok" /\ (Tabled(c) \/ c \in closed)
  BY <1>3 DEF Good, Safe, RefsInv, ReplyInv, Held, Inside
<1>7. crashed' = crashed
  BY <1>6 DEF Returns, Use
<1>8. TableInv'
  BY <1>2, <1>3 DEF Good, TableInv
<1>9. RefsInv'
  BY <1>1, <1>2, <1>3, <1>4, <1>5, <1>6 DEF Good, Safe, RefsInv, Held, Inside
<1>10. ReplyInv'
  BY <1>1, <1>2, <1>3, <1>6 DEF Good, Safe, ReplyInv
<1>11. ServerInv'
  BY <1>2, <1>5 DEF Good, Safe, ServerInv
<1>12. CloseInv'
  BY <1>1, <1>2, <1>5 DEF Good, Safe, CloseInv
<1>13. SameInv'
  <2>1. ~TimedOut' => ~TimedOut
    BY <1>1, <1>2, TimedOutStays
  <2> QED BY <1>2, <1>5, <2>1 DEF Good, Safe, SameInv
<1>14. UseInv'
  BY <1>2, <1>7 DEF Good, Safe, UseInv
<1> QED BY <1>8, <1>9, <1>10, <1>11, <1>12, <1>13, <1>14 DEF Good, Safe

-----------------------------------------------------------------------------
(* The steps of the peer that is asked *)

\* What the other peer does is not seen in the table of the one that starts.
LEMMA SameStart ==
    ASSUME UNCHANGED startVars
    PROVE  /\ Stay /\ UNCHANGED <<num, table, refs>>
           /\ \A d \in Calls : Tabled(d)' <=> Tabled(d)
BY NobodyMoves, SameTable DEF startVars

\* A start message is refused, taken, deferred or denied: nothing is entered or removed.
LEMMA ServerGoesStep ==
    ASSUME Shape, Good, Clean, NEW c \in Calls, NEW from, NEW to \in ServerPlaces, NEW answer \in {"none", "error"},
           serverAt[c] = from, serverAt' = [serverAt EXCEPT ![c] = to], reply' = [reply EXCEPT ![c] = answer],
           \/ from \in {"sent", "add"} /\ to = "done"
           \/ from = "sent" /\ to = "add" /\ answer = "none"
           \/ from = "handler" /\ to = "deferred" /\ answer = "none"
           \/ from = "deferred" /\ to = "remove" /\ answer = "error" /\ ("hasty" \notin irregular' => c \notin handlerIn),
           UNCHANGED <<connected, startVars, handlerIn, serverTable, serverRefs, closing, returned, closed, crashed>>,
           irregular \subseteq irregular'
    PROVE  Good'
<1>1. /\ Stay /\ UNCHANGED <<num, table, refs, returned, closed, handlerIn, serverTable, serverRefs, closing, connected, crashed>>
      /\ \A d \in Calls : (Tabled(d)' <=> Tabled(d)) /\ (STabled(d)' <=> STabled(d))
  BY SameStart, SameServerTable
<1>2. \A d \in Calls : Place(d)' = Place(d)
  BY <1>1 DEF Stay
<1>3. /\ serverAt'[c] = to /\ \A d \in Calls : d # c => serverAt'[d] = serverAt[d]
      /\ reply'[c] = answer /\ \A d \in Calls : d # c => reply'[d] = reply[d]
  BY DEF Shape
<1>4. reply[c] = "none" /\ from # "none" /\ (from \in {"sent", "add"} => ~STabled(c)) /\ (from \in {"handler", "deferred"} => STabled(c))
  BY DEF Good, Safe, ReplyInv, ServerInv
<1>5. TableInv'
  BY <1>1, <1>2, <1>3, <1>4 DEF Good, TableInv
<1>6. RefsInv'
  BY <1>1, <1>2 DEF Good, Safe, RefsInv
<1>7. ReplyInv'
  BY <1>1, <1>2, <1>3, <1>4 DEF Good, Safe, ReplyInv
<1>8. ServerInv'
  BY <1>1, <1>3, <1>4 DEF Good, Safe, ServerInv
<1>9. CloseInv'
  <2>1. \A n \in Nums : serverTable[n] # None /\ reply[serverTable[n]] = "ok" => reply'[serverTable[n]] = "ok"
    BY <1>3, <1>4 DEF Shape
  <2> QED BY <1>1, <1>3, <2>1 DEF Good, Safe, CloseInv
<1>10. SameInv'
  <2>1. ~TimedOut' => ~TimedOut
    BY <1>1, TimedOutStays
  <2>2. c \in closed => reply[c] = "ok" \/ TimedOut \/ ~connected
    BY DEF Good, Safe, SameInv
  <2>3. to \in {"sent", "add", "handler", "deferred"} => from \in {"sent", "add", "handler", "deferred"}
    OBVIOUS
  <2>6. ASSUME ~TimedOut, connected, NEW d \in Calls
        PROVE  /\ STabled(d) /\ reply'[d] = "ok" /\ closing[num[d]] # "starterAgreed" => Tabled(d)
               /\ serverAt'[d] \in {"sent", "add", "handler", "deferred"} => Tabled(d)
               /\ d \in closed => reply'[d] = "ok"
    <3>1. CASE d = c
      BY <2>6, <1>3, <1>4, <2>2, <2>3, <3>1 DEF Good, Safe, SameInv
    <3>2. CASE d # c
      BY <2>6, <1>3, <3>2 DEF Good, Safe, SameInv
    <3> QED BY <3>1, <3>2
  <2>7. UNCHANGED <<connected, closing, num, closed>> /\ \A d \in Calls : Tabled(d)' <=> Tabled(d)
    BY <1>1
  <2>8. ASSUME ~TimedOut', connected', NEW d \in Calls
        PROVE  /\ STabled(d)' /\ reply'[d] = "ok" /\ closing'[num'[d]] # "starterAgreed" => Tabled(d)'
               /\ serverAt'[d] \in {"sent", "add", "handler", "deferred"} => Tabled(d)'
               /\ d \in closed' => reply'[d] = "ok"
    <3>1. ~TimedOut /\ connected
      BY <2>1, <2>7, <2>8
    <3> QED BY <1>1, <2>6, <2>7, <3>1
  <2> QED BY <2>8 DEF SameInv
<1>11. UseInv'
  BY <1>1, <1>3 DEF Good, Safe, UseInv, Shape
<1> QED BY <1>5, <1>6, <1>7, <1>8, <1>9, <1>10, <1>11 DEF Good, Safe

\* The channel is put in the table, and its handler called.
LEMMA ServerAddsStep ==
    ASSUME Shape, Good, Clean, NEW c \in Calls, ServerAdd(c), ~Exists(c)
    PROVE  Good'
<1>1. /\ Stay /\ UNCHANGED <<num, table, refs, returned, closed, reply, closing, connected, crashed, irregular>>
      /\ \A d \in Calls : Tabled(d)' <=> Tabled(d)
  BY SameStart DEF ServerAdd, histories
<1>2. \A d \in Calls : Place(d)' = Place(d)
  BY <1>1 DEF Stay
<1>3. serverAt[c] = "add" /\ reply[c] = "none" /\ ~STabled(c) /\ num[c] \in Nums /\ serverTable[num[c]] = None
  BY DEF ServerAdd, Exists, Number, Good, Safe, TableInv, ReplyInv, ServerInv
<1>4. /\ serverAt'[c] = "handler" /\ \A d \in Calls : d # c => serverAt'[d] = serverAt[d]
      /\ serverRefs'[c] = 1 /\ \A d \in Calls : d # c => serverRefs'[d] = serverRefs[d]
      /\ \A n \in Nums : serverTable'[n] = IF n = num[c] THEN c ELSE serverTable[n]
      /\ handlerIn' = handlerIn \cup {c}
  BY <1>3 DEF ServerAdd, ServerGoes, Number, Shape
<1>5. \A d \in Calls : STabled(d)' <=> STabled(d) \/ d = c
  BY <1>1, <1>3, <1>4, CallFacts DEF STabled
<1>6. TableInv'
  BY <1>1, <1>2, <1>3, <1>4 DEF Good, TableInv
<1>7. RefsInv'
  BY <1>1, <1>2 DEF Good, Safe, RefsInv
<1>8. ReplyInv'
  BY <1>1, <1>2, <1>3, <1>4 DEF Good, Safe, ReplyInv
<1>9. ServerInv'
  BY <1>1, <1>3, <1>4, <1>5 DEF Good, Safe, ServerInv
<1>10. CloseInv'
  <2>1. \A n \in Nums : serverTable[n] # None => serverTable'[n] = serverTable[n]
    BY <1>3, <1>4
  <2> QED BY <1>1, <1>3, <1>5, <2>1 DEF Good, Safe, CloseInv
<1>11. SameInv'
  <2>1. ~TimedOut' => ~TimedOut
    BY <1>1, TimedOutStays
  <2> QED BY <1>1, <1>3, <1>4, <1>5, <2>1 DEF Good, Safe, SameInv
<1>12. UseInv'
  BY <1>1, <1>4 DEF Good, Safe, UseInv, Shape
<1> QED BY <1>6, <1>7, <1>8, <1>9, <1>10, <1>11, <1>12 DEF Good, Safe

\* The start is denied, or accepted when the connection is broken: the channel is removed.
LEMMA ServerGoneStep ==
    ASSUME Shape, Good, Clean, NEW c \in Calls, NEW answer \in {"none", "error"},
           serverAt[c] \in {"handler", "deferred", "remove"}, serverAt' = [serverAt EXCEPT ![c] = "done"],
           reply' = [reply EXCEPT ![c] = answer], serverAt[c] = "remove" => answer = "error",
           ServerRemoved(c), handlerIn' \subseteq handlerIn, "hasty" \notin irregular' => c \notin handlerIn',
           crashed' = crashed \/ (\E who : Use(who, serverRefs[c])),
           UNCHANGED <<connected, startVars, closing, returned, closed>>, irregular \subseteq irregular'
    PROVE  Good'
<1>1. STabled(c) /\ serverRefs[c] = 1 /\ reply[c] # "ok"
  BY DEF Good, Safe, ServerInv, ReplyInv
<1>2. /\ Stay /\ UNCHANGED <<num, table, refs, returned, closed, closing, connected>>
      /\ \A d \in Calls : Tabled(d)' <=> Tabled(d)
  BY SameStart
<1>3. \A d \in Calls : Place(d)' = Place(d)
  BY <1>2 DEF Stay
<1>4. /\ \A d \in Calls : /\ STabled(d)' <=> STabled(d) /\ d # c
                          /\ STabled(d) /\ num[d] = num[c] => d = c
                          /\ d # c => serverRefs'[d] = serverRefs[d]
      /\ serverRefs'[c] = 0
      /\ \A n \in Nums : serverTable'[n] = IF n = num[c] THEN None ELSE serverTable[n]
  BY <1>1, <1>2, ServerRemovedFacts
<1>5. /\ serverAt'[c] = "done" /\ \A d \in Calls : d # c => serverAt'[d] = serverAt[d]
      /\ reply'[c] = answer /\ \A d \in Calls : d # c => reply'[d] = reply[d]
  BY DEF Shape
<1>6. crashed' = crashed
  BY <1>1 DEF Use
<1>7. TableInv'
  <2>1. num[c] \in Nums
    BY <1>1 DEF STabled
  <2> QED BY <1>2, <1>3, <1>4, <1>5, <2>1 DEF Good, TableInv
<1>8. RefsInv'
  BY <1>2, <1>3 DEF Good, Safe, RefsInv
<1>9. ReplyInv'
  BY <1>2, <1>3, <1>5 DEF Good, Safe, ReplyInv
<1>10. ServerInv'
  BY <1>4, <1>5 DEF Good, Safe, ServerInv
<1>11. CloseInv'
  <2>1. ASSUME NEW n \in Nums, serverTable[n] # None, reply[serverTable[n]] = "ok"
        PROVE  serverTable'[n] = serverTable[n] /\ reply'[serverTable[n]] = "ok"
    <3>1. serverTable[n] \in Calls /\ serverTable[n] # c
      BY <1>1, <2>1 DEF Shape
    <3>2. n # num[c]
      BY <1>1, <3>1 DEF STabled
    <3> QED BY <1>4, <1>5, <2>1, <3>1, <3>2
  <2>2. \A d \in Calls : Tabled(d) /\ reply'[d] = "ok" =>
           d # c /\ reply[d] = "ok" /\ (STabled(d)' <=> STabled(d))
    BY <1>4, <1>5
  <2>3. \A d \in Calls : Tabled(d)' /\ reply'[d] = "ok" =>
           /\ closing'[num'[d]] # "serverAgreed" => STabled(d)'
           /\ closing'[num'[d]] = "serverAgreed" => ~STabled(d)'
           /\ closing'[num'[d]] # "starterAgreed"
    BY <1>2, <2>2 DEF Good, Safe, CloseInv
  <2>4. \A n \in Nums :
           /\ closing'[n] \in {"askedStarter", "starterAgreed", "refused"} =>
                 serverTable'[n] # None /\ reply'[serverTable'[n]] = "ok"
           /\ closing'[n] \in {"askedServer", "serverAgreed"} => table'[n] \in returned'
    BY <1>2, <2>1 DEF Good, Safe, CloseInv
  <2> QED BY <2>3, <2>4 DEF CloseInv
<1>12. SameInv'
  <2>1. ~TimedOut' => ~TimedOut
    BY <1>2, TimedOutStays
  <2>2. c \in closed => TimedOut \/ ~connected
    BY <1>1 DEF Good, Safe, SameInv
  <2>6. ASSUME ~TimedOut, connected, NEW d \in Calls
        PROVE  /\ STabled(d)' /\ reply'[d] = "ok" /\ closing[num[d]] # "starterAgreed" => Tabled(d)
               /\ serverAt'[d] \in {"sent", "add", "handler", "deferred"} => Tabled(d)
               /\ d \in closed => reply'[d] = "ok"
    <3>1. CASE d = c
      BY <2>6, <1>4, <1>5, <2>2, <3>1
    <3>2. CASE d # c
      BY <2>6, <1>4, <1>5, <3>2 DEF Good, Safe, SameInv
    <3> QED BY <3>1, <3>2
  <2>7. UNCHANGED <<connected, closing, num, closed>> /\ \A d \in Calls : Tabled(d)' <=> Tabled(d)
    BY <1>2
  <2>8. ASSUME ~TimedOut', connected', NEW d \in Calls
        PROVE  /\ STabled(d)' /\ reply'[d] = "ok" /\ closing'[num'[d]] # "starterAgreed" => Tabled(d)'
               /\ serverAt'[d] \in {"sent", "add", "handler", "deferred"} => Tabled(d)'
               /\ d \in closed' => reply'[d] = "ok"
    <3>1. ~TimedOut /\ connected
      BY <2>1, <2>7, <2>8
    <3> QED BY <2>6, <2>7, <3>1
  <2> QED BY <2>8 DEF SameInv
<1>13. UseInv'
  BY <1>5, <1>6 DEF Good, Safe, UseInv, Shape
<1> QED BY <1>7, <1>8, <1>9, <1>10, <1>11, <1>12, <1>13 DEF Good, Safe

\* The start is accepted: its answer is sent with a reference for the handlers to come.
LEMMA AcceptedStep ==
    ASSUME Shape, Good, Clean, NEW c \in Calls, connected, serverAt[c] \in {"handler", "deferred"}, Accepts(c),
           handlerIn' \subseteq handlerIn, "hasty" \notin irregular' => c \notin handlerIn',
           crashed' = crashed \/ (\E who : Use(who, serverRefs[c])),
           UNCHANGED <<connected, startVars, closing, returned, closed>>, irregular \subseteq irregular'
    PROVE  Good'
<1>1. STabled(c) /\ serverRefs[c] = 1 /\ reply[c] = "none"
  BY DEF Good, Safe, ServerInv, ReplyInv
<1>2. /\ Stay /\ UNCHANGED <<num, table, refs, returned, closed, closing, connected, serverTable>>
      /\ \A d \in Calls : (Tabled(d)' <=> Tabled(d)) /\ (STabled(d)' <=> STabled(d))
  BY SameStart, SameServerTable DEF Accepts
<1>3. \A d \in Calls : Place(d)' = Place(d)
  BY <1>2 DEF Stay
<1>4. /\ serverAt'[c] = "notify" /\ \A d \in Calls : d # c => serverAt'[d] = serverAt[d]
      /\ reply'[c] = "ok" /\ \A d \in Calls : d # c => reply'[d] = reply[d]
      /\ serverRefs'[c] = 2 /\ \A d \in Calls : d # c => serverRefs'[d] = serverRefs[d]
  BY <1>1 DEF Accepts, Answer, ServerGoes, Shape
<1>5. crashed' = crashed
  BY <1>1 DEF Use
<1>6. TableInv'
  <2>1. num[c] \in Nums
    BY <1>1 DEF STabled
  <2> QED BY <1>2, <1>3, <1>4, <2>1 DEF Good, TableInv
<1>7. RefsInv'
  BY <1>2, <1>3 DEF Good, Safe, RefsInv
<1>8. ReplyInv'
  BY <1>1, <1>2, <1>3, <1>4 DEF Good, Safe, ReplyInv
<1>9. ServerInv'
  BY <1>1, <1>2, <1>4 DEF Good, Safe, ServerInv
<1>10. CloseInv'
  <2>1. ASSUME Tabled(c) PROVE closing[num[c]] \notin {"serverAgreed", "starterAgreed"}
    <3>1. num[c] \in Nums /\ table[num[c]] = c /\ serverTable[num[c]] = c
      BY <1>1, <2>1 DEF Tabled, STabled
    <3>2. c \notin returned
      BY <1>1 DEF Good, Safe, ReplyInv
    <3> QED BY <1>1, <3>1, <3>2 DEF Good, Safe, CloseInv
  <2>2. \A n \in Nums : serverTable[n] # None /\ reply[serverTable[n]] = "ok" => reply'[serverTable[n]] = "ok"
    BY <1>4 DEF Shape
  <2> QED BY <1>1, <1>2, <1>4, <2>1, <2>2 DEF Good, Safe, CloseInv
<1>11. SameInv'
  <2>1. ~TimedOut' => ~TimedOut
    BY <1>2, TimedOutStays
  <2> QED BY <1>1, <1>2, <1>4, <2>1 DEF Good, Safe, SameInv
<1>12. UseInv'
  BY <1>4, <1>5 DEF Good, Safe, UseInv, Shape
<1> QED BY <1>6, <1>7, <1>8, <1>9, <1>10, <1>11, <1>12 DEF Good, Safe

\* The handlers were told, and the reference is released.
LEMMA NotifiedStep ==
    ASSUME Shape, Good, Clean, NEW c \in Calls, Notified(c)
    PROVE  Good'
<1>1. serverAt[c] = "notify" /\ reply[c] = "ok" /\ serverRefs[c] # 0
  BY DEF Good, Safe, ServerInv, ReplyInv, Notified
<1>2. /\ Stay /\ UNCHANGED <<num, table, refs, returned, closed, closing, connected, serverTable, reply, handlerIn, irregular>>
      /\ \A d \in Calls : (Tabled(d)' <=> Tabled(d)) /\ (STabled(d)' <=> STabled(d))
  BY SameStart, SameServerTable DEF Notified
<1>3. \A d \in Calls : Place(d)' = Place(d)
  BY <1>2 DEF Stay
<1>4. /\ serverAt'[c] = "done" /\ \A d \in Calls : d # c => serverAt'[d] = serverAt[d]
      /\ serverRefs'[c] = serverRefs[c] - 1 /\ \A d \in Calls : d # c => serverRefs'[d] = serverRefs[d]
  BY DEF Notified, ServerGoes, Shape
<1>5. crashed' = crashed
  BY <1>1 DEF Notified, Use
<1>6. TableInv'
  BY <1>1, <1>2, <1>3, <1>4 DEF Good, TableInv
<1>7. RefsInv'
  BY <1>2, <1>3 DEF Good, Safe, RefsInv
<1>8. ReplyInv'
  BY <1>1, <1>2, <1>3, <1>4 DEF Good, Safe, ReplyInv
<1>9. ServerInv'
  BY <1>1, <1>2, <1>4 DEF Good, Safe, ServerInv
<1>10. CloseInv'
  BY <1>2 DEF Good, Safe, CloseInv
<1>11. SameInv'
  <2>1. ~TimedOut' => ~TimedOut
    BY <1>2, TimedOutStays
  <2> QED BY <1>1, <1>2, <1>4, <2>1 DEF Good, Safe, SameInv
<1>12. UseInv'
  BY <1>1, <1>2, <1>4, <1>5 DEF Good, Safe, UseInv, Shape
<1> QED BY <1>6, <1>7, <1>8, <1>9, <1>10, <1>11, <1>12 DEF Good, Safe

\* The start handler returns.
LEMMA HandlerReturnsStep ==
    ASSUME Shape, Good, Clean, NEW c \in Calls, HandlerReturns(c)
    PROVE  Good'
<1>1. /\ Stay /\ UNCHANGED <<num, table, refs, returned, closed, closing, connected, serverAt, serverTable, serverRefs, reply,
                             irregular>>
      /\ \A d \in Calls : (Tabled(d)' <=> Tabled(d)) /\ (STabled(d)' <=> STabled(d))
  BY SameStart, SameServerTable DEF HandlerReturns
<1>2. \A d \in Calls : Place(d)' = Place(d)
  BY <1>1 DEF Stay
<1>3. TableInv' /\ RefsInv' /\ ServerInv'
  BY <1>1, <1>2 DEF Good, Safe, TableInv, RefsInv, ServerInv
<1>4. ReplyInv'
  BY <1>1, <1>2 DEF Good, Safe, ReplyInv
<1>5. CloseInv'
  BY <1>1 DEF Good, Safe, CloseInv
<1>6. SameInv'
  <2>1. ~TimedOut' => ~TimedOut
    BY <1>1, TimedOutStays
  <2> QED BY <1>1, <2>1 DEF Good, Safe, SameInv
<1>7. UseInv'
  <2> SUFFICES ASSUME "hasty" \notin irregular PROVE crashed' = crashed /\ handlerIn' \subseteq handlerIn
    BY <1>1 DEF Good, Safe, UseInv
  <2>1. serverRefs[c] # 0
    BY DEF HandlerReturns, Good, Safe, UseInv, ServerInv
  <2> QED BY <2>1 DEF HandlerReturns, Use
<1> QED BY <1>3, <1>4, <1>5, <1>6, <1>7 DEF Good, Safe

\* Every step of the peer that is asked.
LEMMA ServerStep ==
    ASSUME Shape, Good, Clean, NEW c \in Calls, ServerGoesOn(c) \/ HandlerReturns(c)
    PROVE  Good'
<1>a. ASSUME Answer(c, "error"), serverAt[c] \in {"sent", "add", "handler", "deferred"}
      PROVE  \E answer \in {"none", "error"} :
                reply' = [reply EXCEPT ![c] = answer] /\ (connected => answer = "error")
  <2>1. reply[c] = "none"
    BY <1>a DEF Good, Safe, ReplyInv
  <2> QED BY <1>a, <2>1 DEF Answer
<1>b. ASSUME reply[c] = "none" PROVE reply = [reply EXCEPT ![c] = "none"]
  BY <1>b DEF Shape
<1>p. {"add", "deferred", "remove", "done"} \subseteq ServerPlaces /\ {"none", "error"} = {"none", "error"}
  BY DEF ServerPlaces
<1>1. ASSUME Refuse(c) PROVE Good'
  <2>1. PICK answer \in {"none", "error"} : reply' = [reply EXCEPT ![c] = answer]
    BY <1>1, <1>a DEF Refuse
  <2>2. /\ serverAt[c] = "sent" /\ serverAt' = [serverAt EXCEPT ![c] = "done"] /\ irregular \subseteq irregular'
        /\ UNCHANGED <<connected, startVars, handlerIn, serverTable, serverRefs, closing, returned, closed, crashed>>
    BY <1>1 DEF Refuse, ServerGoes, histories
  <2> QED BY <1>p, <2>1, <2>2, ServerGoesStep
<1>2. ASSUME Receive(c) PROVE Good'
  <2>1. /\ serverAt[c] = "sent" /\ serverAt' = [serverAt EXCEPT ![c] = "add"] /\ irregular \subseteq irregular'
        /\ UNCHANGED <<connected, startVars, handlerIn, serverTable, serverRefs, closing, returned, closed, crashed>>
        /\ reply' = reply
    BY <1>2 DEF Receive, ServerGoes, histories
  <2>2. reply' = [reply EXCEPT ![c] = "none"]
    BY <1>b, <2>1 DEF Good, Safe, ReplyInv
  <2> QED BY <1>p, <2>1, <2>2, ServerGoesStep
<1>3. ASSUME ServerAdd(c) PROVE Good'
  <2>1. CASE Exists(c)
    <3>1. PICK answer \in {"none", "error"} : reply' = [reply EXCEPT ![c] = answer]
      BY <1>3, <1>a, <2>1 DEF ServerAdd
    <3>2. /\ serverAt[c] = "add" /\ serverAt' = [serverAt EXCEPT ![c] = "done"] /\ irregular \subseteq irregular'
          /\ UNCHANGED <<connected, startVars, handlerIn, serverTable, serverRefs, closing, returned, closed, crashed>>
      BY <1>3, <2>1 DEF ServerAdd, ServerGoes, histories
    <3> QED BY <1>p, <3>1, <3>2, ServerGoesStep
  <2> QED BY <1>3, <2>1, ServerAddsStep
<1>4. ASSUME HandlerDefers(c) PROVE Good'
  <2>1. /\ serverAt[c] = "handler" /\ serverAt' = [serverAt EXCEPT ![c] = "deferred"] /\ irregular \subseteq irregular'
        /\ UNCHANGED <<connected, startVars, handlerIn, serverTable, serverRefs, closing, returned, closed, crashed>>
        /\ reply' = reply
    BY <1>4 DEF HandlerDefers, ServerGoes, histories
  <2>2. reply' = [reply EXCEPT ![c] = "none"]
    BY <1>b, <2>1 DEF Good, Safe, ReplyInv
  <2> QED BY <1>p, <2>1, <2>2, ServerGoesStep
<1>h. ASSUME Hasty(c) PROVE irregular \subseteq irregular' /\ ("hasty" \notin irregular' => c \notin handlerIn)
  BY <1>h DEF Hasty, Note
<1>5. ASSUME NotifyDeny(c) PROVE Good'
  <2>1. /\ serverAt[c] = "deferred" /\ serverAt' = [serverAt EXCEPT ![c] = "remove"] /\ Hasty(c)
        /\ UNCHANGED <<connected, startVars, handlerIn, serverTable, serverRefs, closing, returned, closed, crashed>>
        /\ reply' = [reply EXCEPT ![c] = "error"]
    BY <1>5 DEF NotifyDeny, ServerGoes, Answer
  <2> QED BY <1>p, <1>h, <2>1, ServerGoesStep
<1>6. ASSUME HandlerDenies(c) PROVE Good'
  <2>1. PICK answer \in {"none", "error"} : reply' = [reply EXCEPT ![c] = answer]
    BY <1>6, <1>a DEF HandlerDenies
  <2>2. /\ serverAt[c] = "handler" /\ serverAt' = [serverAt EXCEPT ![c] = "done"] /\ ServerRemoved(c)
        /\ handlerIn' \subseteq handlerIn /\ c \notin handlerIn' /\ Use("handler", serverRefs[c])
        /\ UNCHANGED <<connected, startVars, closing, returned, closed>> /\ irregular \subseteq irregular'
    BY <1>6 DEF HandlerDenies, ServerGoes
  <2> QED BY <2>1, <2>2, ServerGoneStep
<1>7. ASSUME HandlerAccepts(c) PROVE Good'
  <2>1. /\ serverAt[c] = "handler" /\ Accepts(c)
        /\ handlerIn' \subseteq handlerIn /\ c \notin handlerIn' /\ Use("handler", serverRefs[c])
        /\ UNCHANGED <<connected, startVars, closing, returned, closed>> /\ irregular \subseteq irregular'
    BY <1>7 DEF HandlerAccepts
  <2>2. CASE connected
    BY <2>1, <2>2, AcceptedStep
  <2>3. CASE ~connected
    <3>1. reply' = [reply EXCEPT ![c] = "none"]
      BY <2>1, <2>3 DEF Accepts, Answer, Good, Safe, ReplyInv
    <3>2. ServerRemoved(c) /\ serverAt' = [serverAt EXCEPT ![c] = "done"]
      BY <2>1, <2>3 DEF Accepts, ServerGoes
    <3> QED BY <2>1, <3>1, <3>2, ServerGoneStep
  <2> QED BY <2>2, <2>3
<1>8. ASSUME NotifyAccept(c) PROVE Good'
  <2>1. /\ serverAt[c] = "deferred" /\ Accepts(c) /\ Hasty(c) /\ connected
        /\ UNCHANGED <<connected, startVars, handlerIn, closing, returned, closed, crashed>>
    BY <1>8 DEF NotifyAccept
  <2> QED BY <1>h, <2>1, AcceptedStep
<1>9. ASSUME DenyRemoves(c) PROVE Good'
  <2>1. /\ serverAt[c] = "remove" /\ serverAt' = [serverAt EXCEPT ![c] = "done"] /\ ServerRemoved(c)
        /\ UNCHANGED <<connected, startVars, handlerIn, reply, closing, returned, closed, irregular>>
        /\ Use("notifier", serverRefs[c])
    BY <1>9 DEF DenyRemoves, ServerGoes
  <2>2. reply' = [reply EXCEPT ![c] = "error"]
    BY <2>1 DEF Good, Safe, ReplyInv, Shape
  <2>3. "hasty" \notin irregular' => c \notin handlerIn'
    BY <2>1 DEF Good, Safe, UseInv
  <2> QED BY <2>1, <2>2, <2>3, ServerGoneStep
<1> QED BY <1>1, <1>2, <1>3, <1>4, <1>5, <1>6, <1>7, <1>8, <1>9, NotifiedStep, HandlerReturnsStep DEF ServerGoesOn

-----------------------------------------------------------------------------
(* The steps of a close *)

\* A close takes the channel of the peer that started it.
LEMMA StarterClosesStep ==
    ASSUME Shape, Good, Clean, NEW n \in Nums, StarterCloses(n) \/ StarterRemoves(n)
    PROVE  Good'
<1>1. /\ UNCHANGED <<connected, at, made, num, serverAt, handlerIn, serverTable, serverRefs, reply, returned, crashed>>
      /\ irregular' \in {irregular, irregular \cup {"early"}}
      /\ \A d \in Calls : STabled(d)' <=> STabled(d)
  BY SameServerTable DEF StarterCloses, StarterRemoves, serverVars, Note
<1>2. Stay
  BY <1>1, NobodyMoves
<1>3. \A d \in Calls : Place(d)' = Place(d)
  BY <1>2 DEF Stay
<1>4. ~TimedOut' => ~TimedOut
  BY <1>1, <1>2, TimedOutStays
<1>5. CASE table[n] = None
  <2>1. closing[n] = "askedStarter" /\ closing' = [closing EXCEPT ![n] = "refused"] /\ UNCHANGED <<table, refs, closed>>
    BY <1>5 DEF StarterCloses, StarterRemoves
  <2>2. \A d \in Calls : Tabled(d)' <=> Tabled(d)
    BY <1>1, <2>1, SameTable
  <2>3. \A m \in Nums : closing'[m] = IF m = n THEN "refused" ELSE closing[m]
    BY <2>1 DEF Shape
  <2>4. TableInv' /\ ServerInv'
    BY <1>1, <1>3, <2>1 DEF Good, Safe, TableInv, ServerInv
  <2>5. RefsInv'
    BY <1>1, <1>3, <2>1, <2>2 DEF Good, Safe, RefsInv
  <2>6. ReplyInv'
    BY <1>1, <1>3, <2>1 DEF Good, Safe, ReplyInv
  <2>7. CloseInv'
    <3>1. \A d \in Calls : Tabled(d) => num[d] \in Nums /\ num[d] # n
      BY <1>5, CallFacts DEF Tabled
    <3>2. \A d \in Calls : Tabled(d)' => Tabled(d) /\ closing'[num'[d]] = closing[num[d]]
      BY <1>1, <2>2, <2>3, <3>1
    <3>3. \A d \in Calls : Tabled(d)' /\ reply'[d] = "ok" =>
             /\ closing'[num'[d]] # "serverAgreed" => STabled(d)'
             /\ closing'[num'[d]] = "serverAgreed" => ~STabled(d)'
             /\ closing'[num'[d]] # "starterAgreed"
      BY <1>1, <3>2 DEF Good, Safe, CloseInv
    <3>4. \A m \in Nums :
             /\ closing'[m] \in {"askedStarter", "starterAgreed", "refused"} =>
                   serverTable'[m] # None /\ reply'[serverTable'[m]] = "ok"
             /\ closing'[m] \in {"askedServer", "serverAgreed"} => table'[m] \in returned'
      <4>1. \A m \in Nums :
               /\ closing[m] \in {"askedStarter", "starterAgreed", "refused"} =>
                     serverTable[m] # None /\ reply[serverTable[m]] = "ok"
               /\ closing[m] \in {"askedServer", "serverAgreed"} => table[m] \in returned
        BY DEF Good, Safe, CloseInv
      <4>2. UNCHANGED <<serverTable, reply, table, returned>>
        BY <1>1, <2>1
      <4>3. \A m \in Nums : closing'[m] = closing[m] \/ (closing'[m] = "refused" /\ closing[m] = "askedStarter")
        BY <2>1, <2>3
      <4> QED BY <4>1, <4>2, <4>3
    <3> QED BY <3>3, <3>4 DEF CloseInv
  <2>8. SameInv'
    <3>1. \A d \in Calls : STabled(d) => num[d] \in Nums
      BY DEF STabled
    <3> QED BY <1>1, <1>4, <2>1, <2>2, <2>3, <3>1 DEF Good, Safe, SameInv
  <2>9. UseInv'
    BY <1>1 DEF Good, Safe, UseInv
  <2> QED BY <2>4, <2>5, <2>6, <2>7, <2>8, <2>9 DEF Good, Safe
<1>6. CASE table[n] # None
  <2>1. PICK c \in Calls : c = table[n]
    BY <1>6 DEF Shape
  <2>2. PICK now \in {"starterAgreed", "no"} :
          /\ closing' = [closing EXCEPT ![n] = now]
          /\ closing[n] = IF now = "no" THEN "serverAgreed" ELSE "askedStarter"
    BY <1>6 DEF StarterCloses, StarterRemoves
  <2>3. /\ table' = [table EXCEPT ![n] = None] /\ refs' = [refs EXCEPT ![c] = @ - 1] /\ closed' = closed \cup {c}
    BY <1>6, <2>1 DEF StarterCloses, StarterRemoves
  <2>4. num[c] = n /\ Tabled(c)
    BY <1>6, <2>1 DEF Good, TableInv, Tabled
  <2>5. \A d \in Calls : (Tabled(d) /\ num[d] = n => d = c) /\ (Tabled(d)' <=> Tabled(d) /\ d # c)
    <3>1. \A d \in Calls : Tabled(d) /\ num[d] = n => d = c
      BY <2>1 DEF Tabled
    <3>2. \A m \in Nums : table'[m] = IF m = n THEN None ELSE table[m]
      BY <2>3 DEF Shape
    <3>3. num' = num
      BY <1>1
    <3>4. \A d \in Calls : Tabled(d)' <=> Tabled(d) /\ d # c
      BY <2>4, <3>1, <3>2, <3>3, CallFacts DEF Tabled
    <3> QED BY <3>1, <3>4
  <2>6. \A m \in Nums : closing'[m] = IF m = n THEN now ELSE closing[m]
    BY <2>2 DEF Shape
  <2>7. refs'[c] = refs[c] - 1 /\ \A d \in Calls : d # c => refs'[d] = refs[d]
    BY <2>3 DEF Shape
  <2>8. TableInv'
    <3>1. \A m \in Nums : table'[m] # None => table'[m] = table[m]
      BY <2>3 DEF Shape
    <3>2. UNCHANGED <<num, serverTable, serverAt>>
      BY <1>1
    <3>3. \A d \in Calls : Place(d)' \notin {"unmade", "idle"} \/ serverAt'[d] # "none" => num'[d] \in Nums
      BY <1>3, <3>2 DEF Good, TableInv
    <3>4. \A m \in Nums : table'[m] # None => num'[table'[m]] = m
      BY <3>1, <3>2 DEF Good, TableInv
    <3>5. \A m \in Nums : serverTable'[m] # None => num'[serverTable'[m]] = m
      BY <3>2 DEF Good, TableInv
    <3> QED BY <3>3, <3>4, <3>5 DEF TableInv
  <2>9. RefsInv'
    <3>1. (Place(c) \in Held => refs[c] = 2) /\ (Place(c) \notin Held => refs[c] = 1)
      BY <2>4 DEF Good, Safe, RefsInv
    <3>2. (Place(c) \in Held => refs'[c] = 1) /\ (Place(c) \notin Held => refs'[c] = 0)
      BY <2>7, <3>1
    <3>3. ~Tabled(c)' /\ c \in closed'
      BY <2>3, <2>5
    <3>4. ASSUME NEW d \in Calls, d # c
          PROVE  refs'[d] = refs[d] /\ (Tabled(d)' <=> Tabled(d)) /\ (d \in closed' <=> d \in closed)
      BY <2>3, <2>5, <2>7, <3>4
    <3>5. ASSUME NEW d \in Calls
          PROVE  /\ refs'[d] = (IF Tabled(d)' THEN 1 ELSE 0) + (IF Place(d) \in Held THEN 1 ELSE 0)
                 /\ Tabled(d)' => d \notin closed' /\ (Place(d) \in Inside \/ d \in returned)
                 /\ Place(d) \in Inside \/ d \in returned => Tabled(d)' \/ d \in closed'
      <4>1. CASE d = c
        <5>1. refs'[d] = (IF Tabled(d)' THEN 1 ELSE 0) + (IF Place(d) \in Held THEN 1 ELSE 0)
          <6>1. CASE Place(c) \in Held
            BY <3>2, <3>3, <4>1, <6>1
          <6>2. CASE Place(c) \notin Held
            BY <3>2, <3>3, <4>1, <6>2
          <6> QED BY <6>1, <6>2
        <5> QED BY <3>3, <4>1, <5>1
      <4>2. CASE d # c
        BY <3>4, <4>2 DEF Good, Safe, RefsInv
      <4> QED BY <4>1, <4>2
    <3> QED BY <1>1, <1>3, <3>5 DEF RefsInv
  <2>10. ReplyInv'
    <3>1. Place(c) \notin {"unmade", "add"}
      BY <2>4 DEF Good, Safe, RefsInv, ReplyInv, Inside, Held
    <3> QED BY <1>1, <1>3, <2>3, <3>1 DEF Good, Safe, ReplyInv
  <2>11. ServerInv'
    BY <1>1 DEF Good, Safe, ServerInv
  <2>12. CloseInv'
    <3>1. \A d \in Calls : Tabled(d)' => Tabled(d) /\ num[d] \in Nums /\ num[d] # n
      BY <2>5 DEF Tabled
    <3>2. \A d \in Calls : Tabled(d)' /\ reply'[d] = "ok" =>
             /\ closing'[num'[d]] # "serverAgreed" => STabled(d)'
             /\ closing'[num'[d]] = "serverAgreed" => ~STabled(d)'
             /\ closing'[num'[d]] # "starterAgreed"
      BY <1>1, <2>6, <3>1 DEF Good, Safe, CloseInv
    <3>3. \A m \in Nums : m # n => table'[m] = table[m]
      BY <2>3 DEF Shape
    <3>4. \A m \in Nums :
             /\ closing'[m] \in {"askedStarter", "starterAgreed", "refused"} =>
                   serverTable'[m] # None /\ reply'[serverTable'[m]] = "ok"
             /\ closing'[m] \in {"askedServer", "serverAgreed"} => table'[m] \in returned'
      BY <1>1, <2>2, <2>6, <3>3 DEF Good, Safe, CloseInv
    <3> QED BY <3>2, <3>4 DEF CloseInv
  <2>13. SameInv'
    <3> SUFFICES ASSUME ~TimedOut', connected', NEW d \in Calls
                 PROVE  /\ STabled(d)' /\ reply'[d] = "ok" /\ closing'[num'[d]] # "starterAgreed" => Tabled(d)'
                        /\ serverAt'[d] \in {"sent", "add", "handler", "deferred"} => Tabled(d)'
                        /\ d \in closed' => reply'[d] = "ok"
      BY DEF SameInv
    <3>0. ~TimedOut /\ connected
      BY <1>1, <1>4
    <3>1. reply[c] = "ok"
      <4>1. CASE now = "no"
        <5>1. c \in returned
          BY <2>1, <2>2, <4>1 DEF Good, Safe, CloseInv
        <5> QED BY <5>1 DEF Good, Safe, ReplyInv
      <4>2. CASE now = "starterAgreed"
        <5>1. serverTable[n] # None /\ reply[serverTable[n]] = "ok"
          BY <2>2, <4>2 DEF Good, Safe, CloseInv
        <5>2. PICK e \in Calls : e = serverTable[n]
          BY <5>1 DEF Shape
        <5>3. STabled(e) /\ num[e] = n
          BY <5>1, <5>2 DEF Good, TableInv, STabled
        <5>4. Tabled(e)
          BY <3>0, <2>2, <4>2, <5>1, <5>2, <5>3 DEF Good, Safe, SameInv
        <5> QED BY <2>5, <5>1, <5>2, <5>3, <5>4
      <4> QED BY <4>1, <4>2
    <3>2. serverAt[c] \notin {"sent", "add", "handler", "deferred"}
      BY <3>1 DEF Good, Safe, ReplyInv
    <3>3. ASSUME STabled(d), reply[d] = "ok", closing'[num[d]] # "starterAgreed" PROVE Tabled(d) /\ d # c
      <4>1. CASE num[d] # n
        <5>1. num[d] \in Nums
          BY <3>3 DEF STabled
        <5> QED BY <3>0, <2>4, <2>6, <3>3, <4>1, <5>1 DEF Good, Safe, SameInv
      <4>2. CASE num[d] = n
        <5>1. now = "no" /\ closing[n] = "serverAgreed"
          BY <2>2, <2>6, <3>3, <4>2
        <5>2. Tabled(d)
          BY <3>0, <3>3, <4>2, <5>1 DEF Good, Safe, SameInv
        <5> QED BY <3>3, <4>2, <5>1, <5>2 DEF Good, Safe, CloseInv
      <4> QED BY <4>1, <4>2
    <3>4. /\ serverAt[d] \in {"sent", "add", "handler", "deferred"} => Tabled(d) /\ d # c
          /\ d \in closed \cup {c} => reply[d] = "ok"
      BY <3>0, <3>1, <3>2 DEF Good, Safe, SameInv
    <3> QED BY <1>1, <2>3, <2>5, <3>3, <3>4
  <2>14. UseInv'
    BY <1>1 DEF Good, Safe, UseInv
  <2> QED BY <2>8, <2>9, <2>10, <2>11, <2>12, <2>13, <2>14 DEF Good, Safe
<1> QED BY <1>5, <1>6

\* A close takes the channel of the peer that was asked: there is one, and it was
\* accepted.
LEMMA ServerClosesStep ==
    ASSUME Shape, Good, Clean, NEW n \in Nums, ServerRemoves(n) \/ ServerCloses(n)
    PROVE  Good'
<1>1. /\ Stay /\ UNCHANGED <<num, table, refs, connected, serverAt, handlerIn, reply, returned, closed, irregular, crashed>>
      /\ \A d \in Calls : Tabled(d)' <=> Tabled(d)
  BY SameStart DEF ServerRemoves, ServerCloses, histories
<1>2. \A d \in Calls : Place(d)' = Place(d)
  BY <1>1 DEF Stay
<1>3. ~TimedOut' => ~TimedOut
  BY <1>1, TimedOutStays
<1>4. PICK e \in Calls :
        /\ serverTable[n] = e /\ reply[e] = "ok"
        /\ closing[n] = "askedServer" => table[n] = e
  <2>1. CASE ServerRemoves(n)
    <3>1. closing[n] = "starterAgreed" /\ serverTable[n] # None
      BY <2>1 DEF ServerRemoves
    <3> QED BY <3>1 DEF Shape, Good, Safe, CloseInv
  <2>2. CASE ServerCloses(n)
    <3>1. closing[n] = "askedServer"
      BY <2>2 DEF ServerCloses
    <3>2. table[n] \in returned
      BY <3>1 DEF Good, Safe, CloseInv
    <3>3. PICK e \in Calls : e = table[n] /\ e \in returned
      BY <3>2 DEF Shape
    <3>4. num[e] = n /\ Tabled(e)
      BY <3>3, CallFacts DEF Good, TableInv, Tabled
    <3>5. reply[e] = "ok"
      BY <3>3 DEF Good, Safe, ReplyInv
    <3>6. STabled(e)
      BY <3>1, <3>4, <3>5 DEF Good, Safe, CloseInv
    <3> QED BY <3>1, <3>3, <3>4, <3>5, <3>6 DEF STabled
  <2> QED BY <2>1, <2>2
<1>5. num[e] = n /\ STabled(e)
  BY <1>4, CallFacts DEF Good, TableInv, STabled
<1>6. PICK now \in {"no", "serverAgreed"} :
        /\ closing' = [closing EXCEPT ![n] = now]
        /\ closing[n] = IF now = "no" THEN "starterAgreed" ELSE "askedServer"
  BY <1>4, CallFacts DEF ServerRemoves, ServerCloses
<1>7. ServerRemoved(e)
  BY <1>4, CallFacts DEF ServerRemoves, ServerCloses
<1>8. /\ \A d \in Calls : /\ STabled(d)' <=> STabled(d) /\ d # e
                          /\ STabled(d) /\ num[d] = n => d = e
                          /\ d # e => serverRefs'[d] = serverRefs[d]
      /\ serverRefs'[e] = serverRefs[e] - 1
      /\ \A m \in Nums : serverTable'[m] = IF m = n THEN None ELSE serverTable[m]
  BY <1>1, <1>5, <1>7, ServerRemovedFacts
<1>9. \A m \in Nums : closing'[m] = IF m = n THEN now ELSE closing[m]
  BY <1>6 DEF Shape
<1>10. TableInv'
  BY <1>1, <1>2, <1>8 DEF Good, TableInv
<1>11. RefsInv'
  BY <1>1, <1>2 DEF Good, Safe, RefsInv
<1>12. ReplyInv'
  BY <1>1, <1>2 DEF Good, Safe, ReplyInv
<1>13. ServerInv'
  <2>1. serverAt[e] \in {"notify", "done"}
    BY <1>4, <1>5 DEF Good, Safe, ServerInv, ReplyInv, Shape, ServerPlaces
  <2>2. ASSUME NEW d \in Calls
        PROVE  /\ serverRefs'[d] = (IF STabled(d)' THEN 1 ELSE 0) + (IF serverAt[d] = "notify" THEN 1 ELSE 0)
               /\ STabled(d)' => serverAt[d] \notin {"none", "sent", "add"}
               /\ STabled(d)' /\ serverAt[d] \in {"notify", "done"} => reply[d] = "ok"
               /\ serverAt[d] \in {"handler", "deferred", "remove"} => STabled(d)'
    <3>1. CASE d = e
      BY <1>5, <1>8, <2>1, <3>1 DEF Good, Safe, ServerInv
    <3>2. CASE d # e
      BY <1>8, <3>2 DEF Good, Safe, ServerInv
    <3> QED BY <3>1, <3>2
  <2> QED BY <1>1, <2>2 DEF ServerInv
<1>14. CloseInv'
  <2>1. ASSUME NEW d \in Calls, Tabled(d), reply[d] = "ok"
        PROVE  /\ closing'[num[d]] # "serverAgreed" => STabled(d)'
               /\ closing'[num[d]] = "serverAgreed" => ~STabled(d)'
               /\ closing'[num[d]] # "starterAgreed"
    <3>1. num[d] \in Nums /\ table[num[d]] = d
      BY <2>1 DEF Tabled
    <3>2. /\ closing[num[d]] # "serverAgreed" => STabled(d)
          /\ closing[num[d]] = "serverAgreed" => ~STabled(d)
          /\ closing[num[d]] # "starterAgreed"
      BY <2>1 DEF Good, Safe, CloseInv
    <3>3. CASE num[d] # n
      BY <1>5, <1>8, <1>9, <3>1, <3>2, <3>3
    <3>4. CASE num[d] = n
      BY <1>4, <1>6, <1>8, <1>9, <3>1, <3>2, <3>4
    <3> QED BY <3>3, <3>4
  <2>2. ASSUME NEW m \in Nums
        PROVE  /\ closing'[m] \in {"askedStarter", "starterAgreed", "refused"} =>
                     serverTable'[m] # None /\ reply[serverTable'[m]] = "ok"
               /\ closing'[m] \in {"askedServer", "serverAgreed"} => table[m] \in returned
    BY <1>6, <1>8, <1>9 DEF Good, Safe, CloseInv
  <2> QED BY <1>1, <2>1, <2>2 DEF CloseInv
<1>15. SameInv'
  <2> SUFFICES ASSUME ~TimedOut', connected', NEW d \in Calls
               PROVE  /\ STabled(d)' /\ reply'[d] = "ok" /\ closing'[num'[d]] # "starterAgreed" => Tabled(d)'
                      /\ serverAt'[d] \in {"sent", "add", "handler", "deferred"} => Tabled(d)'
                      /\ d \in closed' => reply'[d] = "ok"
    BY DEF SameInv
  <2>0. ~TimedOut /\ connected
    BY <1>1, <1>3
  <2>1. STabled(d)' => STabled(d) /\ num[d] \in Nums /\ num[d] # n
    BY <1>8 DEF STabled
  <2> QED BY <1>1, <1>9, <2>0, <2>1 DEF Good, Safe, SameInv
<1>16. UseInv'
  BY <1>1 DEF Good, Safe, UseInv
<1> QED BY <1>10, <1>11, <1>12, <1>13, <1>14, <1>15, <1>16 DEF Good, Safe

\* A close is asked for, of a channel that both peers have.
LEMMA CloseAskedStep ==
    ASSUME Shape, Good, Clean, NEW n \in Nums, CloseByServer(n) \/ CloseByStarter(n)
    PROVE  Good'
<1>1. /\ Stay /\ UNCHANGED <<num, table, refs>> /\ \A d \in Calls : Tabled(d)' <=> Tabled(d)
  BY SameStart DEF CloseByServer, CloseByStarter
<1>2. /\ UNCHANGED <<connected, serverAt, handlerIn, serverTable, serverRefs, reply, returned, closed, irregular, crashed>>
      /\ \A d \in Calls : STabled(d)' <=> STabled(d)
  BY <1>1, SameServerTable DEF CloseByServer, CloseByStarter, serverVars, histories
<1>3. \A d \in Calls : Place(d)' = Place(d)
  BY <1>1 DEF Stay
<1>4. ~TimedOut' => ~TimedOut
  BY <1>1, <1>2, TimedOutStays
<1>5. PICK now \in {"askedStarter", "askedServer"} :
        /\ closing[n] = "no" /\ closing' = [closing EXCEPT ![n] = now]
        /\ now = "askedStarter" => serverTable[n] # None /\ reply[serverTable[n]] = "ok"
        /\ now = "askedServer" => table[n] \in returned
  BY DEF CloseByServer, CloseByStarter
<1>6. \A m \in Nums : closing'[m] = IF m = n THEN now ELSE closing[m]
  BY <1>5 DEF Shape
<1>7. TableInv' /\ ServerInv'
  BY <1>1, <1>2, <1>3 DEF Good, Safe, TableInv, ServerInv
<1>8. RefsInv'
  BY <1>1, <1>2, <1>3 DEF Good, Safe, RefsInv
<1>9. ReplyInv'
  BY <1>1, <1>2, <1>3 DEF Good, Safe, ReplyInv
<1>10. CloseInv'
  <2>1. \A d \in Calls : Tabled(d) => num[d] \in Nums
    BY DEF Tabled
  <2>2. \A d \in Calls : Tabled(d)' /\ reply'[d] = "ok" =>
           /\ closing'[num'[d]] # "serverAgreed" => STabled(d)'
           /\ closing'[num'[d]] = "serverAgreed" => ~STabled(d)'
           /\ closing'[num'[d]] # "starterAgreed"
    BY <1>1, <1>2, <1>5, <1>6, <2>1 DEF Good, Safe, CloseInv
  <2>3. \A m \in Nums :
           /\ closing'[m] \in {"askedStarter", "starterAgreed", "refused"} =>
                 serverTable'[m] # None /\ reply'[serverTable'[m]] = "ok"
           /\ closing'[m] \in {"askedServer", "serverAgreed"} => table'[m] \in returned'
    BY <1>1, <1>2, <1>5, <1>6 DEF Good, Safe, CloseInv
  <2> QED BY <2>2, <2>3 DEF CloseInv
<1>11. SameInv'
  <2>1. \A d \in Calls : STabled(d) => num[d] \in Nums
    BY DEF STabled
  <2>2. \A d \in Calls : STabled(d) /\ closing'[num[d]] # "starterAgreed" => closing[num[d]] # "starterAgreed"
    BY <1>5, <1>6, <2>1
  <2> QED BY <1>1, <1>2, <1>4, <2>2 DEF Good, Safe, SameInv
<1>12. UseInv'
  BY <1>2 DEF Good, Safe, UseInv
<1> QED BY <1>7, <1>8, <1>9, <1>10, <1>11, <1>12 DEF Good, Safe

\* The connection breaks, or nothing happens: less is claimed, of the same state.
LEMMA BreakStep ==
    ASSUME Shape, Good, Clean, Break \/ UNCHANGED vars
    PROVE  Good'
<1>1. /\ UNCHANGED <<startVars, serverVars, closing, histories>>
      /\ connected' => connected
  BY DEF Break, vars
<1>2. /\ Stay /\ UNCHANGED <<num, table, refs>> /\ \A d \in Calls : Tabled(d)' <=> Tabled(d)
  BY <1>1, SameStart
<1>3. /\ UNCHANGED <<serverAt, handlerIn, serverTable, serverRefs, reply, closing, returned, closed, irregular, crashed>>
      /\ \A d \in Calls : STabled(d)' <=> STabled(d)
  BY <1>1, <1>2, SameServerTable DEF serverVars, histories
<1>4. \A d \in Calls : Place(d)' = Place(d)
  BY <1>2 DEF Stay
<1>5. TableInv' /\ ServerInv'
  BY <1>2, <1>3, <1>4 DEF Good, Safe, TableInv, ServerInv
<1>6. RefsInv'
  BY <1>2, <1>3, <1>4 DEF Good, Safe, RefsInv
<1>7. ReplyInv'
  BY <1>2, <1>3, <1>4 DEF Good, Safe, ReplyInv
<1>8. CloseInv'
  BY <1>2, <1>3 DEF Good, Safe, CloseInv
<1>9. SameInv'
  <2>1. ~TimedOut' => ~TimedOut
    BY <1>2, <1>3, TimedOutStays
  <2> QED BY <1>1, <1>2, <1>3, <2>1 DEF Good, Safe, SameInv
<1>10. UseInv'
  BY <1>3 DEF Good, Safe, UseInv
<1> QED BY <1>5, <1>6, <1>7, <1>8, <1>9, <1>10 DEF Good, Safe

-----------------------------------------------------------------------------
(* The invariant *)

\* Every step of a thread that starts a channel.
LEMMA StartsStep ==
    ASSUME Shape, Good, EarlyInv, Clean, NEW c \in Calls, Starts(c)
    PROVE  Good'
<1>1. ASSUME NEW to \in {"add", "idle"}, New(c, to) PROVE Good'
  BY <1>1, NewStep
<1>2. ASSUME NEW from \in Places, NEW to \in Places, NEW less \in {0, 1}, GivesBack(c, from, to, less) PROVE Good'
  BY <1>2, GivesBackStep
<1> QED BY <1>1, <1>2, AddFailsStep, AddsStep, RefersStep, SendsStep, TakesStep, GaveUpStep, ReturnsStep DEF Starts

\* What a thread took from another is not forgotten.
LEMMA IrregularStays == [Next]_vars => irregular \subseteq irregular'
<1> SUFFICES ASSUME [Next]_vars PROVE irregular \subseteq irregular'
  OBVIOUS
<1>1. ASSUME NEW t \in Starters, NEW n \in Nums, Call(t, n) PROVE irregular \subseteq irregular'
  BY <1>1 DEF Call, histories
<1>2. ASSUME NEW t \in Starters, StartGoesOn(t) \/ TimeOut(t) PROVE irregular \subseteq irregular'
  BY <1>2 DEF StartGoesOn, TimeOut, Add, TakeReference, SendStart, TakeReply, NoConnection, Fails, GiveUp, Denied, DeniedAgain, Return,
              Removed, Note, histories
<1>3. ASSUME NEW c \in Calls, ServerGoesOn(c) \/ HandlerReturns(c) PROVE irregular \subseteq irregular'
  BY <1>3 DEF ServerGoesOn, Refuse, Receive, ServerAdd, HandlerDenies, HandlerAccepts, HandlerDefers, NotifyAccept,
              NotifyDeny, DenyRemoves, Notified, HandlerReturns, Hasty, Note, histories
<1>4. ASSUME NEW n \in Nums, CloseByServer(n) \/ CloseByStarter(n) \/ CloseGoesOn(n) PROVE irregular \subseteq irregular'
  BY <1>4 DEF CloseByServer, CloseByStarter, CloseGoesOn, StarterCloses, ServerRemoves, ServerCloses, StarterRemoves,
              Note, histories
<1>5. ASSUME Break \/ UNCHANGED vars PROVE irregular \subseteq irregular'
  BY <1>5 DEF Break, vars, histories
<1> QED BY <1>1, <1>2, <1>3, <1>4, <1>5 DEF Next

\* A step of the thread that starts a channel closes nothing, and enters what was not closed.
LEMMA StartsEarly ==
    ASSUME Shape, Good, EarlyInv, NEW c \in Calls, Starts(c)
    PROVE  EarlyInv'
<1>1. ASSUME NEW from, NEW to, Moves(c, from, to), from = "timedout" => "timedout" \in irregular', to = "added" => from = "add",
             UNCHANGED <<closed, connected>>, irregular \subseteq irregular', "early" \in irregular' => "early" \in irregular
      PROVE  EarlyInv'
  <2>1. TimedOut => TimedOut'
    BY <1>1, TimedOutStays DEF TimedOut
  <2>2. ASSUME NEW d \in Calls, Place(d)' = "added", d \in closed PROVE "early" \in irregular
    <3>1. d # c
      BY <1>1, <2>2 DEF Moves, Good, Safe, ReplyInv
    <3> QED BY <1>1, <2>2, <3>1 DEF Moves, EarlyInv
  <2> QED BY <1>1, <2>1, <2>2 DEF EarlyInv
<1>2. ASSUME NEW to \in {"add", "idle"}, New(c, to) PROVE EarlyInv'
  BY <1>1, <1>2 DEF New, histories
<1>3. ASSUME AddFails(c) \/ Adds(c) \/ Sends(c) PROVE EarlyInv'
  BY <1>1, <1>3 DEF AddFails, Adds, Sends, histories
<1>4. ASSUME Refers(c) \/ Returns(c) PROVE EarlyInv'
  BY <1>1, <1>4 DEF Refers, Returns
<1>5. ASSUME Takes(c) PROVE EarlyInv'
  <2>1. PICK to \in {"accepted", "denied"} : Moves(c, "wait", to)
    BY <1>5 DEF Takes
  <2> QED BY <1>1, <1>5, <2>1 DEF Takes
<1>6. ASSUME GaveUp(c) PROVE EarlyInv'
  BY <1>1, <1>6 DEF GaveUp
<1>7. ASSUME NEW from \in Places, NEW to \in Places, NEW less \in {0, 1}, GivesBack(c, from, to, less) PROVE EarlyInv'
  <2>1. irregular' \in {irregular, irregular \cup {"stolen"}}
    BY <1>7 DEF GivesBack, Removed, Note
  <2> QED BY <1>1, <1>7, <2>1 DEF GivesBack
<1> QED BY <1>2, <1>3, <1>4, <1>5, <1>6, <1>7 DEF Starts

\* A channel whose thread has no reference is closed only after a start was given up: the
\* peer asks to close what it answered for, and has nothing else while nobody gave up.
LEMMA ClosesEarly ==
    ASSUME Shape, Good, EarlyInv, NEW n \in Nums, StarterCloses(n) \/ StarterRemoves(n)
    PROVE  EarlyInv'
<1>1. Stay /\ UNCHANGED connected /\ irregular \subseteq irregular'
  BY NobodyMoves DEF StarterCloses, StarterRemoves, Note
<1>2. (\A d \in Calls : Place(d)' = Place(d)) /\ (TimedOut => TimedOut')
  BY <1>1, TimedOutStays DEF Stay
<1>3. closed' = closed \/ (table[n] # None /\ closed' = closed \cup {table[n]})
  BY DEF StarterCloses, StarterRemoves
<1>4. CASE StarterRemoves(n)
  <2>1. irregular' = irregular /\ table[n] \in returned
    BY <1>4 DEF StarterRemoves, Good, Safe, CloseInv
  <2>2. table[n] \in Calls /\ Place(table[n]) = "idle"
    BY <2>1 DEF Shape, Good, Safe, ReplyInv
  <2> QED BY <1>1, <1>2, <1>3, <2>1, <2>2 DEF EarlyInv
<1>5. CASE StarterCloses(n)
  <2>1. ASSUME NEW d \in Calls, Place(d) = "added", d = table[n] PROVE "early" \in irregular'
    <3>1. d[1] \in Starters /\ at[d[1]] = "added" /\ d = Current(d[1])
      BY <2>1, CallFacts DEF Place, Current
    <3> QED BY <1>5, <2>1, <3>1 DEF StarterCloses, Note
  <2>2. ASSUME "early" \in irregular', ~TimedOut, connected PROVE FALSE
    <3>1. PICK t \in Starters : at[t] = "added" /\ Current(t) = table[n]
      BY <1>5, <2>2 DEF StarterCloses, Note, EarlyInv
    <3>2. PICK c \in Calls : c = Current(t)
      BY <3>1 DEF Shape
    <3>3. Place(c) = "added"
      BY <3>1, <3>2 DEF Place, Current
    <3>4. reply[c] = "none"
      BY <3>3 DEF Good, Safe, ReplyInv
    <3>5. closing[n] = "askedStarter" /\ serverTable[n] # None /\ reply[serverTable[n]] = "ok"
      BY <1>5 DEF StarterCloses, Good, Safe, CloseInv
    <3>6. PICK e \in Calls : e = serverTable[n]
      BY <3>5 DEF Shape
    <3>7. STabled(e) /\ num[e] = n
      BY <3>5, <3>6 DEF Good, TableInv, STabled
    <3>8. Tabled(e)
      BY <2>2, <3>5, <3>6, <3>7 DEF Good, Safe, SameInv
    <3> QED BY <3>1, <3>2, <3>4, <3>5, <3>6, <3>7, <3>8 DEF Tabled
  <2> QED BY <1>1, <1>2, <1>3, <2>1, <2>2 DEF EarlyInv
<1> QED BY <1>4, <1>5

\* Nobody else closes a channel of the peer that started it.
LEMMA EarlyStep ==
    ASSUME Shape, Good, EarlyInv, [Next]_vars
    PROVE  EarlyInv'
<1>1. ASSUME Stay, UNCHANGED closed, irregular \subseteq irregular', "early" \in irregular' => "early" \in irregular,
             connected' => connected
      PROVE  EarlyInv'
  BY <1>1, TimedOutStays DEF EarlyInv, Stay
<1>2. ASSUME NEW t \in Starters, (\E n \in Nums : Call(t, n)) \/ StartGoesOn(t) \/ TimeOut(t) PROVE EarlyInv'
  BY <1>2, StartStep, StartsEarly
<1>3. ASSUME NEW c \in Calls, ServerGoesOn(c) \/ HandlerReturns(c) PROVE EarlyInv'
  <2>1. UNCHANGED <<startVars, closed, connected>> /\ irregular' \in {irregular, irregular \cup {"hasty"}}
    BY <1>3 DEF ServerGoesOn, Refuse, Receive, ServerAdd, HandlerDenies, HandlerAccepts, HandlerDefers, NotifyAccept,
                NotifyDeny, DenyRemoves, Notified, HandlerReturns, Hasty, Note, histories
  <2> QED BY <1>1, <2>1, SameStart
<1>4. ASSUME NEW n \in Nums, ServerRemoves(n) \/ ServerCloses(n) \/ CloseByServer(n) \/ CloseByStarter(n) PROVE EarlyInv'
  <2>1. UNCHANGED <<startVars, closed, connected, irregular>>
    BY <1>4 DEF ServerRemoves, ServerCloses, CloseByServer, CloseByStarter, histories
  <2> QED BY <1>1, <2>1, SameStart
<1>5. ASSUME Break \/ UNCHANGED vars PROVE EarlyInv'
  <2>1. UNCHANGED <<startVars, closed, irregular>> /\ (connected' => connected)
    BY <1>5 DEF Break, vars, histories
  <2> QED BY <1>1, <2>1, SameStart
<1> QED BY <1>2, <1>3, <1>4, <1>5, ClosesEarly DEF Next, CloseGoesOn

\* At first there is nothing.
LEMMA InvariantStart == Init => IInv
<1> SUFFICES ASSUME Init PROVE IInv
  OBVIOUS
<1>1. Shape
  BY ShapeStart
<1>2. /\ at = [t \in Starters |-> "idle"] /\ made = [t \in Starters |-> 0]
      /\ table = [n \in Nums |-> None] /\ refs = [c \in Calls |-> 0]
      /\ serverAt = [c \in Calls |-> "none"] /\ serverTable = [n \in Nums |-> None]
      /\ serverRefs = [c \in Calls |-> 0] /\ reply = [c \in Calls |-> "none"]
      /\ closing = [n \in Nums |-> "no"]
      /\ handlerIn = {} /\ returned = {} /\ closed = {} /\ irregular = {} /\ crashed = {}
  BY DEF Init
<1>3. ASSUME NEW c \in Calls PROVE Place(c) = "unmade" /\ ~Tabled(c) /\ ~STabled(c)
  <2>1. made[c[1]] = 0 /\ c[2] \in Nat \ {0} /\ c # None
    BY <1>2, CallFacts
  <2>2. Place(c) = "unmade"
    BY <2>1 DEF Place
  <2> QED BY <1>2, <2>1, <2>2 DEF Tabled, STabled
<1>4. TableInv
  BY <1>2, <1>3 DEF TableInv
<1>5. RefsInv
  BY <1>2, <1>3 DEF RefsInv, Held, Inside
<1>6. ReplyInv
  BY <1>2, <1>3 DEF ReplyInv
<1>7. ServerInv
  BY <1>2, <1>3 DEF ServerInv
<1>8. CloseInv
  BY <1>2, <1>3 DEF CloseInv
<1>9. SameInv
  BY <1>2, <1>3 DEF SameInv
<1>10. UseInv
  BY <1>2 DEF UseInv
<1>11. EarlyInv
  BY <1>2, <1>3 DEF EarlyInv
<1> QED BY <1>1, <1>4, <1>5, <1>6, <1>7, <1>8, <1>9, <1>10, <1>11 DEF IInv, Safe

\* Every step keeps it.
LEMMA InvariantStep == IInv /\ [Next]_vars => IInv'
<1> SUFFICES ASSUME IInv, [Next]_vars PROVE IInv'
  OBVIOUS
<1>1. Shape /\ Shape'
  BY ShapeStep DEF IInv
<1>2. ASSUME "stolen" \notin irregular' PROVE Good' /\ EarlyInv'
  <2>1. Good /\ EarlyInv /\ Clean
    BY <1>2, IrregularStays DEF IInv, Good, Clean
  <2>2. ASSUME NEW t \in Starters, (\E n \in Nums : Call(t, n)) \/ StartGoesOn(t) \/ TimeOut(t) PROVE Good'
    <3>1. PICK c \in Calls : Starts(c)
      BY <1>1, <2>2, StartStep
    <3> QED BY <1>1, <2>1, <3>1, StartsStep
  <2>3. ASSUME NEW c \in Calls, ServerGoesOn(c) \/ HandlerReturns(c) PROVE Good'
    BY <1>1, <2>1, <2>3, ServerStep
  <2>4. ASSUME NEW n \in Nums, CloseByServer(n) \/ CloseByStarter(n) \/ CloseGoesOn(n) PROVE Good'
    BY <1>1, <2>1, <2>4, CloseAskedStep, StarterClosesStep, ServerClosesStep DEF CloseGoesOn
  <2>5. ASSUME Break \/ UNCHANGED vars PROVE Good'
    BY <1>1, <2>1, <2>5, BreakStep
  <2>6. EarlyInv'
    BY <1>1, <2>1, EarlyStep
  <2> QED BY <2>2, <2>3, <2>4, <2>5, <2>6 DEF Next
<1> QED BY <1>1, <1>2 DEF IInv, Good

\* So it holds in every state.
LEMMA Invariant == Spec => []IInv
BY InvariantStart, InvariantStep, PTL DEF Spec

-----------------------------------------------------------------------------
(* The theorems *)

\* Every variable keeps its shape, and a thread that is not idle makes one of its calls.
THEOREM ShapesHold == Spec => []Shape
<1>1. IInv => Shape
  BY DEF IInv
<1> QED BY <1>1, Invariant, PTL

\* What vortex_channel_new returned is in the table of the connection and alive until a
\* close removes it, however the threads that start channels, the peer that answers, the
\* closes and a broken connection take turns, while no thread took another's channel away.
THEOREM ReturnedIsUsable == Spec => []ReturnedUsable
<1>1. IInv => ReturnedUsable
  <2> SUFFICES ASSUME IInv, "stolen" \notin irregular, NEW c \in returned \ closed
               PROVE  table[Number(c)] = c /\ refs[c] > 0
    BY DEF ReturnedUsable
  <2>1. c \in Calls
    BY DEF IInv, Shape
  <2>2. Tabled(c)
    BY <2>1 DEF IInv, Safe, RefsInv
  <2>3. Place(c) = "idle"
    BY <2>1 DEF IInv, Safe, ReplyInv
  <2>4. refs[c] = 1
    BY <2>1, <2>2, <2>3 DEF IInv, Safe, RefsInv, Held
  <2> QED BY <2>2, <2>4 DEF Tabled, Number
<1> QED BY <1>1, Invariant, PTL

\* When nothing is in progress the two peers have the same channels under the same
\* numbers, unless a thread gave up waiting or took another's channel away.
THEOREM SameOnBothSides == Spec => []SameChannels
<1>1. IInv => SameChannels
  <2> SUFFICES ASSUME IInv, Quiet, irregular \cap {"stolen", "timedout"} = {} PROVE table = serverTable
    BY DEF SameChannels
  <2>1. Shape /\ TableInv /\ RefsInv /\ ReplyInv /\ ServerInv /\ CloseInv /\ SameInv
    BY DEF IInv, Safe
  <2>2. /\ connected /\ \A t \in Starters : at[t] = "idle"
        /\ \A c \in Calls : serverAt[c] \in {"none", "done"}
        /\ \A n \in Nums : closing[n] = "no"
    BY DEF Quiet
  <2>3. \A c \in Calls : Place(c) \in {"idle", "unmade"}
    BY <2>2, CallFacts DEF Place
  <2>4. ~TimedOut
    BY <2>3 DEF TimedOut
  <2>5. ASSUME NEW c \in Calls, Tabled(c) PROVE STabled(c)
    <3>1. reply[c] = "ok"
      BY <2>1, <2>3, <2>5 DEF RefsInv, ReplyInv, Inside, Held
    <3>2. closing[num[c]] = "no"
      BY <2>2, <2>5 DEF Tabled
    <3> QED BY <2>1, <2>5, <3>1, <3>2 DEF CloseInv
  <2>6. ASSUME NEW c \in Calls, STabled(c) PROVE Tabled(c)
    <3>1. reply[c] = "ok"
      BY <2>1, <2>2, <2>6 DEF ServerInv
    <3>2. closing[num[c]] = "no"
      BY <2>2, <2>6 DEF STabled
    <3> QED BY <2>1, <2>2, <2>4, <2>6, <3>1, <3>2 DEF SameInv
  <2>7. ASSUME NEW n \in Nums PROVE table[n] = serverTable[n]
    <3>1. CASE table[n] # None
      <4>1. PICK c \in Calls : c = table[n]
        BY <2>1, <3>1 DEF Shape
      <4>2. num[c] = n /\ Tabled(c)
        BY <2>1, <3>1, <4>1 DEF TableInv, Tabled
      <4> QED BY <2>5, <4>1, <4>2 DEF STabled
    <3>2. CASE serverTable[n] # None
      <4>1. PICK c \in Calls : c = serverTable[n]
        BY <2>1, <3>2 DEF Shape
      <4>2. num[c] = n /\ STabled(c)
        BY <2>1, <3>2, <4>1 DEF TableInv, STabled
      <4> QED BY <2>6, <4>1, <4>2 DEF Tabled
    <3> QED BY <3>1, <3>2
  <2> QED BY <2>1, <2>7 DEF Shape
<1> QED BY <1>1, Invariant, PTL

\* No thread of either peer touches a channel that was freed: the thread that waits for an
\* answer, the start handler and who notifies each have a reference or a channel the table
\* holds, unless a deferred answer was faster than the handler that deferred it, a thread
\* took another's channel away, or a channel was closed before its thread had a reference;
\* and that takes a start given up before, in which the peer kept the number.
THEOREM NobodyUsesAFreedChannel == Spec => []Referenced
<1>1. IInv => Referenced
  <2> SUFFICES ASSUME IInv PROVE Referenced
    OBVIOUS
  <2>1. ASSUME irregular \cap {"hasty", "stolen", "early"} = {} PROVE crashed = {}
    BY <2>1 DEF IInv, Safe, UseInv
  <2>2. ASSUME "early" \in irregular, "stolen" \notin irregular PROVE GivenUp
    <3>1. CASE ~connected \/ "timedout" \in irregular
      BY <3>1 DEF GivenUp
    <3>2. CASE \E c \in Calls : Place(c) = "timedout"
      <4>1. PICK c \in Calls : Place(c) = "timedout"
        BY <3>2
      <4>2. c[1] \in Starters /\ at[c[1]] = "timedout"
        BY <4>1, CallFacts DEF Place
      <4> QED BY <4>2 DEF GivenUp
    <3> QED BY <2>2, <3>1, <3>2 DEF IInv, EarlyInv, TimedOut
  <2> QED BY <2>1, <2>2 DEF Referenced
<1> QED BY <1>1, Invariant, PTL

=============================================================================
