-------------------------- MODULE ChannelCloseProofs --------------------------
(***************************************************************************)
(* Proofs about ChannelClose for any number of messages and calls, any     *)
(* close handlers, with timeouts and connections that break.               *)
(***************************************************************************)
EXTENDS ChannelClose, Functions, FiniteSetTheorems, SequenceTheorems, TLAPS

-----------------------------------------------------------------------------
(* The inductive invariant, in parts *)

ChannelFrames == [type : {"MSG", "RPY", "ERR"}, no : Nat]

\* The shapes the argument needs.
Shape ==
    /\ exists \in [Peers -> BOOLEAN] /\ being_closed \in [Peers -> BOOLEAN]
    /\ wait_reply \in [Peers -> BOOLEAN] /\ wait_queue \in [Peers -> Seq({"ok", "error"})]
    /\ closer \in [Peers -> {"idle", "following", "register", "replies", "check", "send",
                             "sent", "await", "remove"}]
    /\ handler \in [Peers -> {"idle", "find", "get", "lock", "transit", "notified",
                              "replies", "reply", "remove", "crashed"}]
    /\ sent \in [Peers -> Nat] /\ answered \in [Peers -> Nat]
    /\ pending0 \in [Peers -> Seq(Frames0)] /\ pending \in [Peers -> Seq(ChannelFrames)]
    /\ tcp \in [Peers -> Seq(Frames0 \cup ChannelFrames)]

\* A peer that closes, or lets the other close, has said so on its side of the channel.
Closing(p) == closer[p] # "idle" \/ handler[p] \in {"transit", "replies", "reply", "remove"}
ClosingInv == \A p \in Peers : Closing(p) => being_closed[p]

\* A close and an ok on the way are from a peer that is closing.
Consents(f) == f.type \in {"close", "ok"}
FrameInv ==
    \A p \in Peers : \A f \in Range(pending0[p]) \cup Range(tcp[p]) : Consents(f) => being_closed[p]

\* A peer that takes a close, or has an ok, knows the other is closing.
ConsentInv ==
    \A p \in Peers :
        /\ handler[p] \notin {"idle", "crashed"} => being_closed[Other(p)]
        /\ "ok" \in Range(wait_queue[p]) => being_closed[Other(p)]
        /\ closer[p] = "remove" /\ conn_ok => being_closed[Other(p)] \/ "late" \in irregular

-----------------------------------------------------------------------------
(* The two peers, and the elements of a queue *)

\* The peers are two, each the other of the other.
LEMMA OtherFacts ==
    ASSUME NEW p \in Peers
    PROVE  /\ Other(p) \in Peers /\ Other(p) # p /\ Other(Other(p)) = p
           /\ \A q \in Peers : q = p \/ q = Other(p)
<1>1. IsFiniteSet(Peers) /\ Cardinality(Peers) = 2
  BY CloseAssumption DEF CloseAssumption
<1>2. IsFiniteSet(Peers \ {p}) /\ Cardinality(Peers \ {p}) = 1
  BY <1>1, FS_RemoveElement
<1>3. PICK q : Peers \ {p} = {q}
  BY <1>2, FS_Singleton
<1>4. Other(p) = q
  BY <1>3 DEF Other
<1>5. Other(q) = p
  BY <1>3 DEF Other
<1> QED BY <1>3, <1>4, <1>5

\* The elements of a queue one frame or answer longer ...
LEMMA AppendRange ==
    ASSUME NEW S, NEW q \in Seq(S), NEW x \in S
    PROVE  Append(q, x) \in Seq(S) /\ Range(Append(q, x)) = Range(q) \cup {x}
<1>1. /\ Append(q, x) \in Seq(S) /\ Len(Append(q, x)) = Len(q) + 1 /\ Len(q) \in Nat
      /\ \A i \in 1 .. Len(q) : Append(q, x)[i] = q[i]
      /\ Append(q, x)[Len(q) + 1] = x
  BY AppendProperties, LenProperties
<1>2. DOMAIN q = 1 .. Len(q) /\ DOMAIN Append(q, x) = 1 .. Len(q) + 1
  BY <1>1, LenProperties
<1>3. ASSUME NEW y \in Range(Append(q, x)) PROVE y \in Range(q) \cup {x}
  <2>1. PICK i \in 1 .. Len(q) + 1 : y = Append(q, x)[i]
    BY <1>2 DEF Range
  <2>2. i \in 1 .. Len(q) \/ i = Len(q) + 1
    BY <1>1
  <2> QED BY <1>1, <1>2, <2>1, <2>2 DEF Range
<1>4. ASSUME NEW y \in Range(q) \cup {x} PROVE y \in Range(Append(q, x))
  <2>1. CASE y = x
    <3>1. Len(q) + 1 \in 1 .. Len(q) + 1
      BY <1>1
    <3> QED BY <1>1, <1>2, <2>1, <3>1 DEF Range
  <2>2. CASE y \in Range(q)
    <3>1. PICK i \in 1 .. Len(q) : y = q[i]
      BY <1>2, <2>2 DEF Range
    <3>2. i \in 1 .. Len(q) + 1
      BY <1>1
    <3> QED BY <1>1, <1>2, <3>1, <3>2 DEF Range
  <2> QED BY <2>1, <2>2
<1> QED BY <1>1, <1>3, <1>4

\* ... of a queue whose first was taken ...
LEMMA TailRange ==
    ASSUME NEW S, NEW q \in Seq(S), q # <<>>
    PROVE  /\ Tail(q) \in Seq(S) /\ Head(q) \in S
           /\ Head(q) \in Range(q) /\ Range(Tail(q)) \subseteq Range(q)
<1>1. /\ Head(q) \in S /\ Tail(q) \in Seq(S) /\ Len(Tail(q)) = Len(q) - 1
      /\ \A i \in 1 .. Len(Tail(q)) : Tail(q)[i] = q[i + 1]
  BY HeadTailProperties
<1>2. Len(q) \in Nat \ {0} /\ DOMAIN q = 1 .. Len(q) /\ DOMAIN Tail(q) = 1 .. Len(Tail(q))
  BY <1>1, EmptySeq, LenProperties
<1>3. Head(q) = q[1] /\ 1 \in DOMAIN q
  BY <1>2
<1>4. \A i \in DOMAIN Tail(q) : i + 1 \in DOMAIN q
  BY <1>1, <1>2
<1> QED BY <1>1, <1>2, <1>3, <1>4 DEF Range

\* ... and of one with nothing in it.
LEMMA EmptyRange == Range(<<>>) = {}
BY DEF Range

-----------------------------------------------------------------------------
(* Numbers in a queue.  The messages and the replies on their way are counted *)
(* by their numbers, which follow one another in each queue.                  *)

\* The places of q that hold a frame of the types in T.
Placed(q, T) == {i \in DOMAIN q : q[i].type \in T}

\* The frames of the types in T are numbered lo + 1, ..., hi, in that order.
Numbered(q, T, lo, hi) ==
    /\ lo <= hi
    /\ \A i \in Placed(q, T) : q[i].no \in lo + 1 .. hi
    /\ \A n \in lo + 1 .. hi : \E i \in Placed(q, T) : q[i].no = n
    /\ \A i, j \in Placed(q, T) : i < j => q[i].no < q[j].no

\* Nothing is numbered in an empty queue.
LEMMA NumberedEmpty ==
    ASSUME NEW T, NEW lo \in Nat
    PROVE  Numbered(<<>>, T, lo, lo)
<1>1. Placed(<<>>, T) = {}
  BY DEF Placed
<1> QED BY <1>1 DEF Numbered

\* What Append does to the places of a queue.
LEMMA AppendPlaces ==
    ASSUME NEW S, NEW q \in Seq(S), NEW x \in S, NEW T
    PROVE  LET r == Append(q, x) IN
           /\ Len(q) \in Nat
           /\ \A i \in Placed(q, T) : i \in 1 .. Len(q) /\ i \in Placed(r, T) /\ r[i] = q[i]
           /\ \A i \in Placed(r, T) : \/ i \in Placed(q, T)
                                      \/ i = Len(q) + 1 /\ x.type \in T
           /\ x.type \in T => Len(q) + 1 \in Placed(r, T)
           /\ r[Len(q) + 1] = x
<1> DEFINE r == Append(q, x)
<1>1. /\ Len(r) = Len(q) + 1 /\ Len(q) \in Nat
      /\ \A i \in 1 .. Len(q) : r[i] = q[i]
      /\ r[Len(q) + 1] = x /\ r \in Seq(S)
  BY AppendProperties, LenProperties
<1>2. DOMAIN q = 1 .. Len(q) /\ DOMAIN r = 1 .. Len(q) + 1
  BY <1>1, LenProperties
<1> HIDE DEF r
<1>3. ASSUME NEW i \in Placed(q, T) PROVE i \in 1 .. Len(q) /\ i \in Placed(r, T) /\ r[i] = q[i]
  BY <1>1, <1>2 DEF Placed
<1>4. ASSUME NEW i \in Placed(r, T) PROVE i \in Placed(q, T) \/ (i = Len(q) + 1 /\ x.type \in T)
  <2>1. i \in 1 .. Len(q) \/ i = Len(q) + 1
    BY <1>1, <1>2 DEF Placed
  <2> QED BY <1>1, <1>2, <2>1 DEF Placed
<1>5. x.type \in T => Len(q) + 1 \in Placed(r, T)
  <2>1. Len(q) + 1 \in 1 .. Len(q) + 1
    BY <1>1
  <2> QED BY <1>1, <1>2, <2>1 DEF Placed
<1> QED BY <1>1, <1>3, <1>4, <1>5 DEF r

\* A frame with the next number is put at the end ...
LEMMA NumberedNext ==
    ASSUME NEW S, NEW q \in Seq(S), NEW x \in S, NEW T, NEW lo \in Nat, NEW hi \in Nat,
           Numbered(q, T, lo, hi), x.type \in T, x.no = hi + 1
    PROVE  Numbered(Append(q, x), T, lo, hi + 1)
<1> DEFINE r == Append(q, x)
<1>1. /\ Len(q) \in Nat
      /\ \A i \in Placed(q, T) : i \in 1 .. Len(q) /\ i \in Placed(r, T) /\ r[i] = q[i]
      /\ \A i \in Placed(r, T) : i \in Placed(q, T) \/ i = Len(q) + 1
      /\ Len(q) + 1 \in Placed(r, T) /\ r[Len(q) + 1] = x
  BY AppendPlaces
<1> HIDE DEF r
<1>2. /\ lo <= hi
      /\ \A i \in Placed(q, T) : q[i].no \in lo + 1 .. hi
      /\ \A n \in lo + 1 .. hi : \E i \in Placed(q, T) : q[i].no = n
      /\ \A i, j \in Placed(q, T) : i < j => q[i].no < q[j].no
  BY DEF Numbered
<1>3. \A i \in Placed(r, T) : r[i].no \in lo + 1 .. hi + 1
  BY <1>1, <1>2
<1>4. ASSUME NEW n \in lo + 1 .. hi + 1 PROVE \E i \in Placed(r, T) : r[i].no = n
  <2>1. n \in lo + 1 .. hi \/ n = hi + 1
    OBVIOUS
  <2> QED BY <1>1, <1>2, <2>1
<1>5. ASSUME NEW i \in Placed(r, T), NEW j \in Placed(r, T), i < j PROVE r[i].no < r[j].no
  <2>1. CASE j \in Placed(q, T)
    <3>1. i \in Placed(q, T)
      BY <1>1, <1>5, <2>1
    <3> QED BY <1>1, <1>2, <1>5, <2>1, <3>1
  <2>2. CASE j = Len(q) + 1
    <3>0. i # Len(q) + 1
      BY <1>1, <1>5, <2>2
    <3>1. i \in Placed(q, T)
      BY <1>1, <3>0
    <3>2. r[j].no = hi + 1 /\ r[i].no \in lo + 1 .. hi
      BY <1>1, <1>2, <2>2, <3>1
    <3> QED BY <3>2
  <2> QED BY <1>1, <2>1, <2>2
<1>6. lo <= hi + 1
  BY <1>2
<1> QED BY <1>3, <1>4, <1>5, <1>6 DEF Numbered, r

\* ... and a frame of another type changes nothing.
LEMMA NumberedOther ==
    ASSUME NEW S, NEW q \in Seq(S), NEW x \in S, NEW T, NEW lo \in Nat, NEW hi \in Nat,
           Numbered(q, T, lo, hi), x.type \notin T
    PROVE  Numbered(Append(q, x), T, lo, hi)
<1> DEFINE r == Append(q, x)
<1>1. /\ \A i \in Placed(q, T) : i \in Placed(r, T) /\ r[i] = q[i]
      /\ \A i \in Placed(r, T) : i \in Placed(q, T)
  BY AppendPlaces
<1> HIDE DEF r
<1>2. Placed(r, T) = Placed(q, T)
  BY <1>1
<1> QED BY <1>1, <1>2 DEF Numbered, r

\* What Tail does to the places of a queue.
LEMMA TailPlaces ==
    ASSUME NEW S, NEW q \in Seq(S), q # <<>>, NEW T
    PROVE  LET r == Tail(q) IN
           /\ \A i \in Placed(q, T) : i \in Nat \ {0}
           /\ 1 \in Placed(q, T) <=> Head(q).type \in T
           /\ Head(q) = q[1]
           /\ \A i \in Placed(q, T) : i # 1 => i - 1 \in Placed(r, T)
           /\ \A i \in Placed(r, T) : i \in Nat \ {0} /\ i + 1 \in Placed(q, T) /\ r[i] = q[i + 1]
<1> DEFINE r == Tail(q)
<1>1. /\ r \in Seq(S) /\ Len(r) = Len(q) - 1
      /\ \A i \in 1 .. Len(r) : r[i] = q[i + 1]
  BY HeadTailProperties
<1>2. Len(q) \in Nat \ {0} /\ DOMAIN q = 1 .. Len(q)
  BY EmptySeq, LenProperties
<1>3. DOMAIN r = 1 .. Len(q) - 1
  BY <1>1, LenProperties
<1> HIDE DEF r
<1>4. Head(q) = q[1] /\ 1 \in DOMAIN q
  BY <1>2
<1>5. 1 \in Placed(q, T) <=> Head(q).type \in T
  BY <1>4 DEF Placed
<1>6. ASSUME NEW i \in Placed(q, T), i # 1 PROVE i - 1 \in Placed(r, T)
  <2>1. i \in 1 .. Len(q) /\ i - 1 \in 1 .. Len(q) - 1
    BY <1>2, <1>6 DEF Placed
  <2>2. r[i - 1] = q[i]
    BY <1>1, <1>2, <2>1
  <2> QED BY <1>3, <2>1, <2>2 DEF Placed
<1>7. ASSUME NEW i \in Placed(r, T) PROVE i \in Nat \ {0} /\ i + 1 \in Placed(q, T) /\ r[i] = q[i + 1]
  <2>1. i \in 1 .. Len(q) - 1
    BY <1>3 DEF Placed
  <2>2. r[i] = q[i + 1] /\ i + 1 \in 1 .. Len(q)
    BY <1>1, <1>2, <2>1
  <2> QED BY <1>2, <2>1, <2>2 DEF Placed
<1>8. \A i \in Placed(q, T) : i \in Nat \ {0}
  BY <1>2 DEF Placed
<1> QED BY <1>4, <1>5, <1>6, <1>7, <1>8 DEF r

\* The frame taken first has the first number ...
LEMMA NumberedHead ==
    ASSUME NEW S, NEW q \in Seq(S), q # <<>>, NEW T, NEW lo \in Nat, NEW hi \in Nat,
           Numbered(q, T, lo, hi), Head(q).type \in T
    PROVE  /\ lo < hi /\ Head(q).no = lo + 1
           /\ Numbered(Tail(q), T, lo + 1, hi)
<1> DEFINE r == Tail(q)
<1>1. /\ \A i \in Placed(q, T) : i \in Nat \ {0}
      /\ 1 \in Placed(q, T) /\ Head(q) = q[1]
      /\ \A i \in Placed(q, T) : i # 1 => i - 1 \in Placed(r, T)
      /\ \A i \in Placed(r, T) : i \in Nat \ {0} /\ i + 1 \in Placed(q, T) /\ r[i] = q[i + 1]
  BY TailPlaces
<1> HIDE DEF r
<1>2. /\ lo <= hi
      /\ \A i \in Placed(q, T) : q[i].no \in lo + 1 .. hi
      /\ \A n \in lo + 1 .. hi : \E i \in Placed(q, T) : q[i].no = n
      /\ \A i, j \in Placed(q, T) : i < j => q[i].no < q[j].no
  BY DEF Numbered
<1>3. q[1].no \in lo + 1 .. hi /\ lo < hi
  BY <1>1, <1>2
<1>4. q[1].no = lo + 1
  <2>1. PICK i \in Placed(q, T) : q[i].no = lo + 1
    <3>1. lo + 1 \in lo + 1 .. hi
      BY <1>3
    <3> QED BY <1>2, <3>1
  <2>2. i = 1 \/ 1 < i
    BY <1>1
  <2>3. 1 < i => q[1].no < lo + 1
    BY <1>1, <1>2, <2>1
  <2> QED BY <1>3, <2>1, <2>2, <2>3
<1>5. ASSUME NEW i \in Placed(r, T) PROVE r[i].no \in lo + 1 + 1 .. hi
  <2>1. i + 1 \in Placed(q, T) /\ r[i] = q[i + 1] /\ 1 < i + 1
    BY <1>1
  <2>2. q[1].no < q[i + 1].no /\ q[i + 1].no \in lo + 1 .. hi
    BY <1>1, <1>2, <2>1
  <2> QED BY <1>4, <2>1, <2>2
<1>6. ASSUME NEW n \in lo + 1 + 1 .. hi PROVE \E i \in Placed(r, T) : r[i].no = n
  <2>1. PICK i \in Placed(q, T) : q[i].no = n
    BY <1>2
  <2>2. i # 1
    BY <1>4, <2>1
  <2>3. i - 1 \in Placed(r, T) /\ i \in Nat
    BY <1>1, <2>2
  <2>4. r[i - 1] = q[i - 1 + 1] /\ i - 1 + 1 = i
    BY <1>1, <2>3
  <2> QED BY <2>1, <2>3, <2>4
<1>7. ASSUME NEW i \in Placed(r, T), NEW j \in Placed(r, T), i < j PROVE r[i].no < r[j].no
  <2>1. i + 1 \in Placed(q, T) /\ j + 1 \in Placed(q, T) /\ i + 1 < j + 1 /\ r[i] = q[i + 1] /\ r[j] = q[j + 1]
    BY <1>1, <1>7
  <2> QED BY <1>2, <2>1
<1>8. lo + 1 <= hi
  BY <1>3
<1>9. Numbered(r, T, lo + 1, hi)
  BY <1>5, <1>6, <1>7, <1>8 DEF Numbered
<1> QED BY <1>1, <1>3, <1>4, <1>9 DEF r

\* ... and a frame of another type that is taken changes nothing.
LEMMA NumberedTail ==
    ASSUME NEW S, NEW q \in Seq(S), q # <<>>, NEW T, NEW lo \in Nat, NEW hi \in Nat,
           Numbered(q, T, lo, hi), Head(q).type \notin T
    PROVE  Numbered(Tail(q), T, lo, hi)
<1> DEFINE r == Tail(q)
<1>1. /\ \A i \in Placed(q, T) : i \in Nat \ {0}
      /\ 1 \notin Placed(q, T)
      /\ \A i \in Placed(q, T) : i # 1 => i - 1 \in Placed(r, T)
      /\ \A i \in Placed(r, T) : i \in Nat \ {0} /\ i + 1 \in Placed(q, T) /\ r[i] = q[i + 1]
  BY TailPlaces
<1> HIDE DEF r
<1>2. /\ lo <= hi
      /\ \A i \in Placed(q, T) : q[i].no \in lo + 1 .. hi
      /\ \A n \in lo + 1 .. hi : \E i \in Placed(q, T) : q[i].no = n
      /\ \A i, j \in Placed(q, T) : i < j => q[i].no < q[j].no
  BY DEF Numbered
<1>3. \A i \in Placed(r, T) : r[i].no \in lo + 1 .. hi
  BY <1>1, <1>2
<1>4. ASSUME NEW n \in lo + 1 .. hi PROVE \E i \in Placed(r, T) : r[i].no = n
  <2>1. PICK i \in Placed(q, T) : q[i].no = n
    BY <1>2
  <2>2. i - 1 \in Placed(r, T) /\ i \in Nat
    BY <1>1, <2>1
  <2>3. r[i - 1] = q[i - 1 + 1] /\ i - 1 + 1 = i
    BY <1>1, <2>2
  <2> QED BY <2>1, <2>2, <2>3
<1>5. ASSUME NEW i \in Placed(r, T), NEW j \in Placed(r, T), i < j PROVE r[i].no < r[j].no
  <2>1. i + 1 \in Placed(q, T) /\ j + 1 \in Placed(q, T) /\ i + 1 < j + 1 /\ r[i] = q[i + 1] /\ r[j] = q[j + 1]
    BY <1>1, <1>5
  <2> QED BY <1>2, <2>1
<1> QED BY <1>2, <1>3, <1>4, <1>5 DEF Numbered, r

\* With no number left there is no such frame.
LEMMA NumberedNone ==
    ASSUME NEW S, NEW q \in Seq(S), NEW T, NEW lo \in Nat, Numbered(q, T, lo, lo)
    PROVE  Placed(q, T) = {}
BY DEF Numbered

-----------------------------------------------------------------------------
(* What every step keeps *)

\* Nobody reopens a channel, mends a connection or forgets what happened.
LEMMA Monotone ==
    ASSUME Shape, [Next]_vars
    PROVE  /\ \A p \in Peers : being_closed[p] => being_closed'[p]
           /\ conn_ok' => conn_ok
           /\ irregular \subseteq irregular'
<1> DEFINE Kept == /\ \A p \in Peers : being_closed[p] => being_closed'[p]
                   /\ conn_ok' => conn_ok
                   /\ irregular \subseteq irregular'
<1>1. ASSUME NEW q \in Peers,
             CheckOpen(q) \/ QueueMsg(q) \/ Answer(q) \/ Write0(q) \/ Write(q) \/ Recv(q) \/ TimeOut(q)
      PROVE  Kept
  BY <1>1 DEF CheckOpen, QueueMsg, Answer, Write0, Write, Recv, RecvOnChannel, RecvClose, RecvVerdict,
              TimeOut, Happened, net, ends
<1>2. ASSUME NEW q \in Peers, Close(q) \/ Closer(q) PROVE Kept
  <2>1. UNCHANGED <<conn_ok, irregular>>
    BY <1>2 DEF Close, Closer, Follow, Register, RepliesReceived, CheckTransit, SendClose, RepliesSent,
                TakeVerdict, NoConnection, CloserRemoves, net
  <2>2. \/ being_closed' = being_closed
        \/ being_closed' = [being_closed EXCEPT ![q] = TRUE]
    BY <1>2 DEF Close, Closer, Follow, Register, RepliesReceived, CheckTransit, SendClose, RepliesSent,
                TakeVerdict, NoConnection, CloserRemoves, ends
  <2> QED BY <2>1, <2>2 DEF Shape
<1>3. ASSUME NEW q \in Peers, Handler(q) PROVE Kept
  <2>1. CASE FindChannel(q) \/ AcceptInTransit(q) \/ TellCloser(q) \/ HandlerReplies(q) \/ SendOk(q)
             \/ HandlerRemoves(q)
    BY <2>1 DEF FindChannel, AcceptInTransit, TellCloser, HandlerReplies, SendOk, HandlerRemoves,
                Happened, net, ends
  <2>2. CASE GetChannel(q)
    BY <2>2 DEF GetChannel, Found, ends
  <2>3. CASE AskHandlers(q)
    <3>1. PICK verdict \in Verdicts : being_closed' = [being_closed EXCEPT ![q] = verdict = "accept"]
      BY <2>3 DEF AskHandlers
    <3>2. \A p \in Peers : p # q => being_closed'[p] = being_closed[p]
      BY <3>1 DEF Shape
    <3>3. ~being_closed[q] /\ conn_ok' = conn_ok /\ irregular \subseteq irregular'
      BY <2>3 DEF AskHandlers, Happened, net
    <3> QED BY <3>2, <3>3
  <2>4. ASSUME NEW close \in BOOLEAN, NotifyClose(q, close) PROVE Kept
    <3>1. being_closed' = [being_closed EXCEPT ![q] = @ \/ close]
      BY <2>4 DEF NotifyClose
    <3>2. \A p \in Peers : being_closed[p] => being_closed'[p]
      BY <3>1 DEF Shape
    <3>3. conn_ok' = conn_ok /\ irregular \subseteq irregular'
      BY <2>4 DEF NotifyClose, Happened, net
    <3> QED BY <3>2, <3>3
  <2> QED BY <1>3, <2>1, <2>2, <2>3, <2>4 DEF Handler
<1>4. CASE BreakConnection \/ Quiet \/ UNCHANGED vars
  BY <1>4 DEF BreakConnection, Quiet, vars, ends, net
<1> QED BY <1>1, <1>2, <1>3, <1>4 DEF Next

\* A frame queued for channel 0 or for the channel, and one taken from the connection.
LEMMA QueueShape ==
    ASSUME Shape, NEW p \in Peers
    PROVE  /\ \A type \in {"close", "ok", "error"} : Queue0(p, type) => pending0' \in [Peers -> Seq(Frames0)]
           /\ \A type \in {"MSG", "RPY", "ERR"}, no \in Nat :
                 Queue(p, type, no) => pending' \in [Peers -> Seq(ChannelFrames)]
           /\ \A type : Takes(p, type) => tcp' \in [Peers -> Seq(Frames0 \cup ChannelFrames)]
<1>1. ASSUME NEW type \in {"close", "ok", "error"}, Queue0(p, type)
      PROVE  pending0' \in [Peers -> Seq(Frames0)]
  <2>1. [type |-> type, no |-> 0] \in Frames0
    BY DEF Frames0
  <2>2. Append(pending0[p], [type |-> type, no |-> 0]) \in Seq(Frames0)
    BY <2>1, AppendRange DEF Shape
  <2> QED BY <1>1, <2>2 DEF Queue0, Shape
<1>2. ASSUME NEW type \in {"MSG", "RPY", "ERR"}, NEW no \in Nat, Queue(p, type, no)
      PROVE  pending' \in [Peers -> Seq(ChannelFrames)]
  <2>1. [type |-> type, no |-> no] \in ChannelFrames
    BY DEF ChannelFrames
  <2>2. Append(pending[p], [type |-> type, no |-> no]) \in Seq(ChannelFrames)
    BY <2>1, AppendRange DEF Shape
  <2> QED BY <1>2, <2>2 DEF Queue, Shape
<1>3. ASSUME NEW type, Takes(p, type) PROVE tcp' \in [Peers -> Seq(Frames0 \cup ChannelFrames)]
  <2>1. Other(p) \in Peers
    BY OtherFacts
  <2>2. Tail(tcp[Other(p)]) \in Seq(Frames0 \cup ChannelFrames)
    BY <1>3, <2>1, TailRange DEF Takes, Shape
  <2> QED BY <1>3, <2>2 DEF Takes, Shape
<1> QED BY <1>1, <1>2, <1>3

\* The shapes are kept.
LEMMA ShapeStep == Shape /\ [Next]_vars => Shape'
<1> SUFFICES ASSUME Shape, [Next]_vars PROVE Shape'
  OBVIOUS
<1>1. ASSUME NEW p \in Peers, CheckOpen(p) PROVE Shape'
  BY <1>1 DEF CheckOpen, Shape, ends, waits, counters, queues, net
<1>2. ASSUME NEW p \in Peers, QueueMsg(p) PROVE Shape'
  <2>1. sent[p] + 1 \in Nat /\ Queue(p, "MSG", sent[p] + 1)
    BY <1>2 DEF QueueMsg, Shape
  <2>2. pending' \in [Peers -> Seq(ChannelFrames)]
    BY <2>1, QueueShape
  <2> QED BY <1>2, <2>1, <2>2 DEF QueueMsg, Shape, ends, waits, counters, queues, net
<1>3. ASSUME NEW p \in Peers, Answer(p) PROVE Shape'
  <2>1. PICK type \in {"RPY", "ERR"} : Queue(p, type, answered[p] + 1)
    BY <1>3 DEF Answer
  <2>2. answered[p] + 1 \in Nat
    BY DEF Shape
  <2>3. pending' \in [Peers -> Seq(ChannelFrames)]
    BY <2>1, <2>2, QueueShape
  <2> QED BY <1>3, <2>2, <2>3 DEF Answer, Shape, ends, waits, counters, queues, net
<1>4. ASSUME NEW p \in Peers, Write0(p) PROVE Shape'
  <2>1. Head(pending0[p]) \in Frames0 /\ Tail(pending0[p]) \in Seq(Frames0)
    BY <1>4, TailRange DEF Write0, Shape
  <2>2. Append(tcp[p], Head(pending0[p])) \in Seq(Frames0 \cup ChannelFrames)
    BY <2>1, AppendRange DEF Shape
  <2>3. pending0' \in [Peers -> Seq(Frames0)] /\ tcp' \in [Peers -> Seq(Frames0 \cup ChannelFrames)]
    BY <1>4, <2>1, <2>2 DEF Write0, Shape
  <2> QED BY <1>4, <2>3 DEF Write0, Shape, ends, waits, counters, queues, net
<1>5. ASSUME NEW p \in Peers, Write(p) PROVE Shape'
  <2>1. Head(pending[p]) \in ChannelFrames /\ Tail(pending[p]) \in Seq(ChannelFrames)
    BY <1>5, TailRange DEF Write, Shape
  <2>2. Append(tcp[p], Head(pending[p])) \in Seq(Frames0 \cup ChannelFrames)
    BY <2>1, AppendRange DEF Shape
  <2>3. pending' \in [Peers -> Seq(ChannelFrames)] /\ tcp' \in [Peers -> Seq(Frames0 \cup ChannelFrames)]
    BY <1>5, <2>1, <2>2 DEF Write, Shape
  <2> QED BY <1>5, <2>3 DEF Write, Shape, ends, waits, counters, queues, net
<1>6. ASSUME NEW p \in Peers, Recv(p) PROVE Shape'
  <2>1. CASE RecvClose(p)
    <3>1. Takes(p, "close") /\ handler' = [handler EXCEPT ![p] = "find"]
          /\ UNCHANGED <<ends, waits, closer, counters, queues>>
      BY <2>1 DEF RecvClose
    <3> QED BY <3>1, QueueShape DEF Shape, ends, waits, counters, queues
  <2>2. ASSUME NEW type \in {"MSG", "RPY", "ERR"}, RecvOnChannel(p, type) PROVE Shape'
    <3>1. Takes(p, type) /\ UNCHANGED <<sent, answered>> /\ UNCHANGED <<ends, waits, closer, handler, queues>>
      BY <2>2 DEF RecvOnChannel, counters
    <3> QED BY <3>1, QueueShape DEF Shape, ends, waits, queues
  <2>3. ASSUME NEW type \in {"ok", "error"}, RecvVerdict(p, type) PROVE Shape'
    <3>1. Append(wait_queue[p], type) \in Seq({"ok", "error"})
      BY AppendRange DEF Shape
    <3>2. wait_queue' \in [Peers -> Seq({"ok", "error"})]
      BY <2>3, <3>1 DEF RecvVerdict, Shape
    <3>3. Takes(p, type) /\ UNCHANGED <<ends, wait_reply, closer, handler, counters, queues>>
      BY <2>3 DEF RecvVerdict
    <3> QED BY <3>2, <3>3, QueueShape DEF Shape, ends, counters, queues
  <2> QED BY <1>6, <2>1, <2>2, <2>3 DEF Recv
<1>7. ASSUME NEW p \in Peers, Close(p) PROVE Shape'
  BY <1>7 DEF Close, Goes, Shape, waits, counters, queues, net
<1>8. ASSUME NEW p \in Peers, Follow(p) \/ Register(p) \/ RepliesReceived(p) \/ CheckTransit(p) \/ RepliesSent(p)
                              \/ NoConnection(p) \/ CloserRemoves(p) \/ TimeOut(p)
      PROVE  Shape'
  <2>1. UNCHANGED <<wait_queue, handler, sent, answered, pending0, pending, tcp>>
    BY <1>8 DEF Follow, Register, RepliesReceived, CheckTransit, RepliesSent, NoConnection, CloserRemoves, TimeOut,
                waits, counters, queues, net
  <2>2. closer' \in [Peers -> {"idle", "following", "register", "replies", "check", "send",
                               "sent", "await", "remove"}]
    BY <1>8 DEF Follow, Register, RepliesReceived, CheckTransit, RepliesSent, NoConnection, CloserRemoves, TimeOut,
                Goes, Shape
  <2>3. wait_reply' \in [Peers -> BOOLEAN] /\ exists' \in [Peers -> BOOLEAN] /\ being_closed' \in [Peers -> BOOLEAN]
    BY <1>8 DEF Follow, Register, RepliesReceived, CheckTransit, RepliesSent, NoConnection, CloserRemoves, TimeOut,
                RemoveChannel, waits, ends, Shape
  <2> QED BY <2>1, <2>2, <2>3 DEF Shape
<1>9. ASSUME NEW p \in Peers, SendClose(p) PROVE Shape'
  <2>1. pending0' \in [Peers -> Seq(Frames0)]
    BY <1>9, QueueShape DEF SendClose, Shape
  <2> QED BY <1>9, <2>1 DEF SendClose, Goes, Shape, ends, waits, counters, net
<1>10. ASSUME NEW p \in Peers, TakeVerdict(p) PROVE Shape'
  <2>1. <<>> \in Seq({"ok", "error"})
    BY EmptySeq
  <2>2. wait_queue' \in [Peers -> Seq({"ok", "error"})] /\ wait_reply' \in [Peers -> BOOLEAN]
    BY <1>10, <2>1 DEF TakeVerdict, Shape
  <2>3. closer' \in [Peers -> {"idle", "following", "register", "replies", "check", "send",
                               "sent", "await", "remove"}]
    BY <1>10 DEF TakeVerdict, Goes, Shape
  <2> QED BY <1>10, <2>2, <2>3 DEF TakeVerdict, Shape, ends, counters, queues, net
<1>11. ASSUME NEW p \in Peers, FindChannel(p) PROVE Shape'
  <2>1. pending0' \in [Peers -> Seq(Frames0)]
    BY <1>11, QueueShape DEF FindChannel, Shape
  <2> QED BY <1>11, <2>1 DEF FindChannel, Turns, Shape, ends, waits, counters, net
<1>12. ASSUME NEW p \in Peers, GetChannel(p) \/ HandlerReplies(p) \/ HandlerRemoves(p) PROVE Shape'
  BY <1>12 DEF GetChannel, HandlerReplies, HandlerRemoves, RemoveChannel, Turns, Shape, ends, waits, counters, queues, net
<1>13. ASSUME NEW p \in Peers, AcceptInTransit(p) PROVE Shape'
  <2>1. pending0' \in [Peers -> Seq(Frames0)]
    BY <1>13, QueueShape DEF AcceptInTransit
  <2> QED BY <1>13, <2>1 DEF AcceptInTransit, Turns, Shape, ends, waits, counters, net
<1>14. ASSUME NEW p \in Peers, TellCloser(p) PROVE Shape'
  <2>1. Append(wait_queue[p], "ok") \in Seq({"ok", "error"})
    BY AppendRange DEF Shape
  <2>2. wait_queue' \in [Peers -> Seq({"ok", "error"})]
    BY <1>14, <2>1 DEF TellCloser, PushOk, Shape
  <2> QED BY <1>14, <2>2 DEF TellCloser, Turns, Shape, ends, counters, queues, net
<1>15. ASSUME NEW p \in Peers, AskHandlers(p) PROVE Shape'
  <2>1. PICK verdict \in Verdicts :
           /\ Turns(p, "lock", CASE verdict = "accept" -> "replies"
                              [] verdict = "decline" -> "idle"
                              [] verdict = "notify" -> "notified")
           /\ being_closed' = [being_closed EXCEPT ![p] = verdict = "accept"]
           /\ IF verdict = "decline" THEN Queue0(p, "error") ELSE UNCHANGED pending0
    BY <1>15 DEF AskHandlers
  <2>2. verdict \in {"accept", "decline", "notify"}
    BY CloseAssumption DEF CloseAssumption
  <2>3. pending0' \in [Peers -> Seq(Frames0)]
    BY <2>1, QueueShape DEF Shape
  <2>4. being_closed' \in [Peers -> BOOLEAN]
    BY <2>1 DEF Shape
  <2>5. handler' \in [Peers -> {"idle", "find", "get", "lock", "transit", "notified",
                                "replies", "reply", "remove", "crashed"}]
    BY <2>1, <2>2 DEF Turns, Shape
  <2>6. UNCHANGED <<exists, waits, closer, counters, pending, net>>
    BY <1>15 DEF AskHandlers
  <2> QED BY <2>3, <2>4, <2>5, <2>6 DEF Shape, waits, counters, net
<1>16. ASSUME NEW p \in Peers, NEW close \in BOOLEAN, NotifyClose(p, close) PROVE Shape'
  <2>1. pending0' \in [Peers -> Seq(Frames0)]
    BY <1>16, QueueShape DEF NotifyClose, Shape
  <2>2. being_closed' \in [Peers -> BOOLEAN]
    BY <1>16 DEF NotifyClose, Shape
  <2>3. handler' \in [Peers -> {"idle", "find", "get", "lock", "transit", "notified",
                                "replies", "reply", "remove", "crashed"}]
    BY <1>16 DEF NotifyClose, Turns, Shape
  <2> QED BY <1>16, <2>1, <2>2, <2>3 DEF NotifyClose, Shape, waits, counters, net
<1>17. ASSUME NEW p \in Peers, SendOk(p) PROVE Shape'
  <2>1. pending0' \in [Peers -> Seq(Frames0)]
    BY <1>17, QueueShape DEF SendOk, Shape
  <2> QED BY <1>17, <2>1 DEF SendOk, Turns, Shape, ends, waits, counters, net
<1>18. CASE BreakConnection \/ Quiet \/ UNCHANGED vars
  BY <1>18 DEF BreakConnection, Quiet, vars, ends, waits, counters, queues, net, Shape
<1> QED BY <1>1, <1>2, <1>3, <1>4, <1>5, <1>6, <1>7, <1>8, <1>9, <1>10, <1>11, <1>12, <1>13, <1>14, <1>15,
           <1>16, <1>17, <1>18 DEF Next, Closer, Handler

-----------------------------------------------------------------------------
(* Consent *)

\* Whoever begins to close marks the channel.
LEMMA ClosingStep == Shape /\ ClosingInv /\ [Next]_vars => ClosingInv'
<1> SUFFICES ASSUME Shape, ClosingInv, [Next]_vars PROVE ClosingInv'
  OBVIOUS
<1>1. ASSUME \A p \in Peers : Closing(p)' => Closing(p) \/ being_closed'[p] PROVE ClosingInv'
  BY <1>1, Monotone DEF ClosingInv
<1>2. ASSUME UNCHANGED <<closer, handler>> PROVE ClosingInv'
  BY <1>1, <1>2 DEF Closing
<1>3. ASSUME NEW q \in Peers, CheckOpen(q) \/ QueueMsg(q) \/ Answer(q) \/ Write0(q) \/ Write(q) PROVE ClosingInv'
  BY <1>2, <1>3 DEF CheckOpen, QueueMsg, Answer, Write0, Write
<1>4. ASSUME NEW q \in Peers, Recv(q) PROVE ClosingInv'
  <2>1. closer' = closer /\ (handler' = handler \/ handler' = [handler EXCEPT ![q] = "find"])
    BY <1>4 DEF Recv, RecvOnChannel, RecvClose, RecvVerdict
  <2> QED BY <1>1, <2>1 DEF Closing, Shape
<1>5. ASSUME NEW q \in Peers, Close(q) PROVE ClosingInv'
  <2>1. \A p \in Peers : closer'[p] = closer[p] \/ being_closed'[p]
    BY <1>5 DEF Close, Goes, Shape
  <2>2. handler' = handler
    BY <1>5 DEF Close
  <2> QED BY <1>1, <2>1, <2>2 DEF Closing
<1>6. ASSUME NEW q \in Peers, Closer(q) \/ TimeOut(q) PROVE ClosingInv'
  <2>1. \E from, to : from # "idle" /\ Goes(q, from, to)
    BY <1>6 DEF Closer, Follow, Register, RepliesReceived, CheckTransit, SendClose, RepliesSent,
                TakeVerdict, NoConnection, CloserRemoves, TimeOut
  <2>2. handler' = handler
    BY <1>6 DEF Closer, Follow, Register, RepliesReceived, CheckTransit, SendClose, RepliesSent,
                TakeVerdict, NoConnection, CloserRemoves, TimeOut
  <2>3. \A p \in Peers : closer'[p] = closer[p] \/ closer[p] # "idle"
    BY <2>1 DEF Goes, Shape
  <2> QED BY <1>1, <2>2, <2>3 DEF Closing
<1>7. ASSUME NEW q \in Peers, Handler(q) PROVE ClosingInv'
  <2>0. closer' = closer
    BY <1>7 DEF Handler, FindChannel, GetChannel, AcceptInTransit, TellCloser, AskHandlers, NotifyClose,
                HandlerReplies, SendOk, HandlerRemoves
  <2>1. ASSUME NEW from, NEW to, Turns(q, from, to),
               to \in {"transit", "replies", "reply", "remove"} =>
                   from \in {"transit", "replies", "reply", "remove"} \/ being_closed'[q]
        PROVE  ClosingInv'
    <3>1. handler[q] = from /\ handler'[q] = to /\ \A p \in Peers : p # q => handler'[p] = handler[p]
      BY <2>1 DEF Turns, Shape
    <3>2. \A p \in Peers : Closing(p)' => Closing(p) \/ being_closed'[p]
      <4> SUFFICES ASSUME NEW p \in Peers, Closing(p)', ~Closing(p) PROVE being_closed'[p]
        OBVIOUS
      <4>1. handler'[p] \in {"transit", "replies", "reply", "remove"}
        BY <2>0 DEF Closing
      <4>2. handler[p] \notin {"transit", "replies", "reply", "remove"}
        BY DEF Closing
      <4>3. p = q
        BY <3>1, <4>1, <4>2
      <4> QED BY <2>1, <3>1, <4>1, <4>2, <4>3
    <3> QED BY <1>1, <3>2
  <2>2. CASE FindChannel(q) \/ GetChannel(q) \/ TellCloser(q) \/ HandlerReplies(q) \/ SendOk(q) \/ HandlerRemoves(q)
    <3>1. \E from, to : /\ Turns(q, from, to)
                        /\ to \in {"transit", "replies", "reply", "remove"} =>
                             from \in {"transit", "replies", "reply", "remove"}
      BY <2>2 DEF FindChannel, GetChannel, TellCloser, HandlerReplies, SendOk, HandlerRemoves
    <3> QED BY <2>1, <3>1
  <2>3. CASE AcceptInTransit(q)
    <3>1. Turns(q, "lock", "transit") /\ being_closed'[q]
      BY <2>3 DEF AcceptInTransit, ends
    <3> QED BY <2>1, <3>1
  <2>4. CASE AskHandlers(q)
    <3>1. PICK verdict \in Verdicts :
             /\ Turns(q, "lock", CASE verdict = "accept" -> "replies"
                                [] verdict = "decline" -> "idle"
                                [] verdict = "notify" -> "notified")
             /\ being_closed' = [being_closed EXCEPT ![q] = verdict = "accept"]
      BY <2>4 DEF AskHandlers
    <3>2. verdict \in {"accept", "decline", "notify"}
      BY CloseAssumption DEF CloseAssumption
    <3>3. CASE verdict = "accept"
      <4>1. Turns(q, "lock", "replies")
        BY <3>1, <3>3
      <4>2. being_closed'[q]
        BY <3>1, <3>3 DEF Shape
      <4> QED BY <2>1, <4>1, <4>2
    <3>4. CASE verdict = "decline"
      <4>1. Turns(q, "lock", "idle")
        BY <3>1, <3>4
      <4> QED BY <2>1, <4>1
    <3>5. CASE verdict = "notify"
      <4>1. Turns(q, "lock", "notified")
        BY <3>1, <3>5
      <4> QED BY <2>1, <4>1
    <3> QED BY <3>2, <3>3, <3>4, <3>5
  <2>5. ASSUME NEW close \in BOOLEAN, NotifyClose(q, close) PROVE ClosingInv'
    <3>1. Turns(q, "notified", IF close THEN "replies" ELSE "idle")
          /\ being_closed' = [being_closed EXCEPT ![q] = @ \/ close]
      BY <2>5 DEF NotifyClose
    <3>2. CASE close
      <4>1. Turns(q, "notified", "replies") /\ being_closed'[q]
        BY <3>1, <3>2 DEF Shape
      <4> QED BY <2>1, <4>1
    <3>3. CASE ~close
      <4>1. Turns(q, "notified", "idle")
        BY <3>1, <3>3
      <4> QED BY <2>1, <4>1
    <3> QED BY <3>2, <3>3
  <2> QED BY <1>7, <2>2, <2>3, <2>4, <2>5 DEF Handler
<1>8. CASE BreakConnection \/ Quiet \/ UNCHANGED vars
  BY <1>2, <1>8 DEF BreakConnection, Quiet, vars
<1> QED BY <1>3, <1>4, <1>5, <1>6, <1>7, <1>8 DEF Next

\* The frames on their way from p.
Going(p) == Range(pending0[p]) \cup Range(tcp[p])

\* p is about to send a close or an ok.
Consenting(p) == closer[p] = "send" \/ handler[p] = "reply" \/ AcceptInTransit(p)

\* The frames of channel 0 that a step adds to what is on its way.
LEMMA FramesAdded ==
    ASSUME Shape, [Next]_vars
    PROVE  \A p \in Peers : \A f \in Going(p)' : f \in Going(p) \/ ~Consents(f) \/ Consenting(p)
<1> DEFINE Added == \A p \in Peers : \A f \in Going(p)' : f \in Going(p) \/ ~Consents(f) \/ Consenting(p)
<1> SUFFICES Added
  OBVIOUS
<1> HIDE DEF Added
<1>1. ASSUME \A p \in Peers : \A f \in Going(p)' : f \in Going(p) \/ ~Consents(f) \/ Consenting(p) PROVE Added
  BY <1>1 DEF Added
<1>2. ASSUME UNCHANGED <<pending0, tcp>> PROVE Added
  BY <1>1, <1>2 DEF Going
<1>3. ASSUME NEW q \in Peers, NEW type \in {"close", "ok", "error"}, Queue0(q, type), UNCHANGED tcp,
             type \in {"close", "ok"} => Consenting(q)
      PROVE  Added
  <2> DEFINE frame == [type |-> type, no |-> 0]
  <2>1. pending0' = [pending0 EXCEPT ![q] = Append(@, frame)]
    BY <1>3 DEF Queue0
  <2>2. frame \in Frames0 /\ frame.type = type
    BY DEF Frames0
  <2> HIDE DEF frame
  <2>3. Range(Append(pending0[q], frame)) = Range(pending0[q]) \cup {frame}
    BY <2>2, AppendRange DEF Shape
  <2>4. Consents(frame) => Consenting(q)
    BY <1>3, <2>2 DEF Consents
  <2>5. \A p \in Peers : \A f \in Going(p)' : f \in Going(p) \/ (p = q /\ f = frame)
    BY <1>3, <2>1, <2>3 DEF Shape, Going
  <2> QED BY <1>1, <2>4, <2>5
<1>4. ASSUME NEW q \in Peers, Write0(q) PROVE Added
  <2>1. /\ pending0[q] # <<>> /\ tcp' = [tcp EXCEPT ![q] = Append(@, Head(pending0[q]))]
        /\ pending0' = [pending0 EXCEPT ![q] = Tail(@)]
    BY <1>4 DEF Write0
  <2>2. Head(pending0[q]) \in Range(pending0[q]) /\ Range(Tail(pending0[q])) \subseteq Range(pending0[q])
        /\ Head(pending0[q]) \in Frames0 \cup ChannelFrames
    BY <2>1, TailRange DEF Shape
  <2>p. tcp[q] \in Seq(Frames0 \cup ChannelFrames)
    BY DEF Shape
  <2>3. Range(Append(tcp[q], Head(pending0[q]))) = Range(tcp[q]) \cup {Head(pending0[q])}
    BY <2>2, <2>p, AppendRange
  <2>4. \A p \in Peers : \A f \in Going(p)' : f \in Going(p)
    BY <2>1, <2>2, <2>3 DEF Shape, Going
  <2> QED BY <1>1, <2>4
<1>5. ASSUME NEW q \in Peers, Write(q) PROVE Added
  <2>1. /\ pending[q] # <<>> /\ tcp' = [tcp EXCEPT ![q] = Append(@, Head(pending[q]))]
        /\ pending0' = pending0
    BY <1>5 DEF Write
  <2>2. Head(pending[q]) \in ChannelFrames
    BY <2>1, TailRange DEF Shape
  <2>p. tcp[q] \in Seq(Frames0 \cup ChannelFrames) /\ Head(pending[q]) \in Frames0 \cup ChannelFrames
    BY <2>2 DEF Shape
  <2>3. Range(Append(tcp[q], Head(pending[q]))) = Range(tcp[q]) \cup {Head(pending[q])}
    BY <2>p, AppendRange
  <2>4. ~Consents(Head(pending[q]))
    BY <2>2 DEF Consents, ChannelFrames
  <2>5. \A p \in Peers : \A f \in Going(p)' : f \in Going(p) \/ f = Head(pending[q])
    BY <2>1, <2>3 DEF Shape, Going
  <2> QED BY <1>1, <2>4, <2>5
<1>6. ASSUME NEW q \in Peers, Recv(q) PROVE Added
  <2>1. PICK type : Takes(q, type)
    BY <1>6 DEF Recv, RecvOnChannel, RecvClose, RecvVerdict
  <2>2. pending0' = pending0
    BY <1>6 DEF Recv, RecvOnChannel, RecvClose, RecvVerdict, queues
  <2>3. Other(q) \in Peers
    BY OtherFacts
  <2>4. tcp[Other(q)] # <<>> /\ tcp' = [tcp EXCEPT ![Other(q)] = Tail(@)]
    BY <2>1 DEF Takes
  <2>5. Range(Tail(tcp[Other(q)])) \subseteq Range(tcp[Other(q)])
    BY <2>3, <2>4, TailRange DEF Shape
  <2>6. \A p \in Peers : \A f \in Going(p)' : f \in Going(p)
    BY <2>2, <2>3, <2>4, <2>5 DEF Shape, Going
  <2> QED BY <1>1, <2>6
<1>7. ASSUME NEW q \in Peers, SendClose(q) PROVE Added
  <2>1. Consenting(q) /\ tcp' = tcp
    BY <1>7 DEF SendClose, Goes, Consenting, net
  <2> QED BY <1>2, <1>3, <1>7, <2>1 DEF SendClose
<1>8. ASSUME NEW q \in Peers, AcceptInTransit(q) \/ SendOk(q) PROVE Added
  <2>1. Consenting(q) /\ tcp' = tcp
    BY <1>8 DEF AcceptInTransit, SendOk, Turns, Consenting, net
  <2> QED BY <1>2, <1>3, <1>8, <2>1 DEF SendOk, AcceptInTransit
<1>9. ASSUME NEW q \in Peers, UNCHANGED tcp, UNCHANGED pending0 \/ Queue0(q, "error") PROVE Added
  BY <1>2, <1>3, <1>9
<1>10. ASSUME NEW q \in Peers, FindChannel(q) \/ AskHandlers(q) PROVE Added
  <2>1. UNCHANGED tcp /\ (UNCHANGED pending0 \/ Queue0(q, "error"))
    BY <1>10 DEF FindChannel, AskHandlers, net
  <2> QED BY <1>9, <2>1
<1>11. ASSUME NEW q \in Peers, NEW close \in BOOLEAN, NotifyClose(q, close) PROVE Added
  <2>1. UNCHANGED tcp /\ (UNCHANGED pending0 \/ Queue0(q, "error"))
    BY <1>11 DEF NotifyClose, net
  <2> QED BY <1>9, <2>1
<1>12. ASSUME NEW q \in Peers, \/ CheckOpen(q) \/ QueueMsg(q) \/ Answer(q) \/ Close(q) \/ TimeOut(q)
                               \/ Follow(q) \/ Register(q) \/ RepliesReceived(q) \/ CheckTransit(q)
                               \/ RepliesSent(q) \/ TakeVerdict(q) \/ NoConnection(q) \/ CloserRemoves(q)
       PROVE  Added
  <2>1. UNCHANGED <<pending0, tcp>>
    BY <1>12 DEF CheckOpen, QueueMsg, Answer, Close, TimeOut, Follow, Register, RepliesReceived, CheckTransit,
                 RepliesSent, TakeVerdict, NoConnection, CloserRemoves, queues, net
  <2> QED BY <1>2, <2>1
<1>13. ASSUME NEW q \in Peers, GetChannel(q) \/ TellCloser(q) \/ HandlerReplies(q) \/ HandlerRemoves(q)
       PROVE  Added
  <2>1. UNCHANGED <<pending0, tcp>>
    BY <1>13 DEF GetChannel, TellCloser, HandlerReplies, HandlerRemoves, queues, net
  <2> QED BY <1>2, <2>1
<1>14. CASE BreakConnection \/ Quiet \/ UNCHANGED vars
  <2>1. UNCHANGED <<pending0, tcp>>
    BY <1>14 DEF BreakConnection, Quiet, vars, queues, net
  <2> QED BY <1>2, <2>1
<1> QED BY <1>4, <1>5, <1>6, <1>7, <1>8, <1>10, <1>11, <1>12, <1>13, <1>14 DEF Next, Closer, Handler

\* Only a peer that is closing sends a close or an ok.
LEMMA FrameStep == Shape /\ ClosingInv /\ FrameInv /\ [Next]_vars => FrameInv'
<1> SUFFICES ASSUME Shape, ClosingInv, FrameInv, [Next]_vars,
                    NEW p \in Peers, NEW f \in Going(p)', Consents(f)
             PROVE  being_closed'[p]
  BY DEF FrameInv, Going, Consents
<1>1. f \in Going(p) \/ Consenting(p)
  BY FramesAdded
<1>2. f \in Going(p) => being_closed[p]
  BY DEF FrameInv, Going
<1>3. Consenting(p) => being_closed[p]
  BY DEF Consenting, ClosingInv, Closing, AcceptInTransit
<1> QED BY <1>1, <1>2, <1>3, Monotone

\* The frame taken is one on its way.
LEMMA HeadGoing ==
    ASSUME Shape, NEW p \in Peers, NEW type, Takes(p, type)
    PROVE  /\ Head(tcp[Other(p)]) \in Going(Other(p))
           /\ type \in {"close", "ok"} => Consents(Head(tcp[Other(p)]))
<1>1. Other(p) \in Peers
  BY OtherFacts
<1>2. tcp[Other(p)] \in Seq(Frames0 \cup ChannelFrames) /\ tcp[Other(p)] # <<>>
  BY <1>1 DEF Takes, Shape
<1>3. Head(tcp[Other(p)]) \in Range(tcp[Other(p)])
  BY <1>2, TailRange
<1> QED BY <1>3 DEF Takes, Consents, Going

\* p has taken a close, has an ok, and is about to let the channel go.
Taking(p) == handler[p] \notin {"idle", "crashed"}
HasOk(p) == "ok" \in Range(wait_queue[p])
Removing(p) == closer[p] = "remove" /\ conn_ok

\* A close taken from the connection makes a thread take it, an ok or a close in transit
\* is what the thread that closes waits for, and with it, or too late, it goes on.
LEMMA Moving ==
    ASSUME Shape, [Next]_vars
    PROVE  /\ \A p \in Peers : Taking(p)' => Taking(p) \/ Takes(p, "close")
           /\ \A p \in Peers : HasOk(p)' => HasOk(p) \/ Takes(p, "ok") \/ handler[p] = "transit"
           /\ \A p \in Peers : Removing(p)' => Removing(p) \/ HasOk(p) \/ "late" \in irregular'
<1> DEFINE Moves ==
        /\ \A p \in Peers : Taking(p)' => Taking(p) \/ Takes(p, "close")
        /\ \A p \in Peers : HasOk(p)' => HasOk(p) \/ Takes(p, "ok") \/ handler[p] = "transit"
        /\ \A p \in Peers : Removing(p)' => Removing(p) \/ HasOk(p) \/ "late" \in irregular'
<1> SUFFICES Moves
  OBVIOUS
<1> HIDE DEF Moves
<1>c. conn_ok' => conn_ok
  BY Monotone
<1>1. ASSUME \A p \in Peers : Taking(p)' => Taking(p) \/ Takes(p, "close"),
             \A p \in Peers : HasOk(p)' => HasOk(p) \/ Takes(p, "ok") \/ handler[p] = "transit",
             \A p \in Peers : closer'[p] = "remove" /\ conn_ok' =>
                                 closer[p] = "remove" \/ HasOk(p) \/ "late" \in irregular'
      PROVE  Moves
  BY <1>1, <1>c DEF Moves, Removing
<1>2. ASSUME UNCHANGED <<closer, handler, wait_queue>> PROVE Moves
  BY <1>1, <1>2 DEF Taking, HasOk
<1>3. ASSUME NEW q \in Peers, CheckOpen(q) \/ QueueMsg(q) \/ Answer(q) \/ Write0(q) \/ Write(q)
      PROVE  Moves
  BY <1>2, <1>3 DEF CheckOpen, QueueMsg, Answer, Write0, Write, waits
<1>4. ASSUME NEW q \in Peers, Recv(q) PROVE Moves
  <2>1. CASE RecvClose(q)
    <3>1. Takes(q, "close") /\ handler' = [handler EXCEPT ![q] = "find"]
          /\ UNCHANGED <<closer, wait_queue, conn_ok>>
      BY <2>1 DEF RecvClose, waits
    <3>2. \A p \in Peers : Taking(p)' => Taking(p) \/ p = q
      BY <3>1 DEF Shape, Taking
    <3> QED BY <1>1, <3>1, <3>2 DEF HasOk
  <2>2. ASSUME NEW type \in {"MSG", "RPY", "ERR"}, RecvOnChannel(q, type) PROVE Moves
    BY <1>2, <2>2 DEF RecvOnChannel, waits
  <2>3. ASSUME NEW type \in {"ok", "error"}, RecvVerdict(q, type) PROVE Moves
    <3>1. /\ Takes(q, type)
          /\ wait_queue' = [wait_queue EXCEPT ![q] = IF Waits(q) THEN Append(@, type) ELSE @]
          /\ UNCHANGED <<closer, handler, conn_ok>>
      BY <2>3 DEF RecvVerdict
    <3>2. Range(Append(wait_queue[q], type)) = Range(wait_queue[q]) \cup {type}
      BY AppendRange DEF Shape
    <3>3. \A p \in Peers : HasOk(p)' => HasOk(p) \/ (p = q /\ type = "ok")
      BY <3>1, <3>2 DEF Shape, HasOk
    <3> QED BY <1>1, <3>1, <3>3 DEF Taking
  <2> QED BY <1>4, <2>1, <2>2, <2>3 DEF Recv
<1>5. ASSUME NEW q \in Peers, NEW from, NEW to, Goes(q, from, to), UNCHANGED <<handler, wait_queue, conn_ok>>,
             to = "remove" /\ conn_ok => "late" \in irregular'
      PROVE  Moves
  <2>1. \A p \in Peers : closer'[p] = closer[p] \/ (p = q /\ closer'[p] = to)
    BY <1>5 DEF Goes, Shape
  <2> QED BY <1>1, <1>c, <1>5, <2>1 DEF Taking, HasOk
<1>6. ASSUME NEW q \in Peers, Close(q) PROVE Moves
  <2>1. \E to \in {"following", "register"} : Goes(q, "idle", to)
    BY <1>6 DEF Close
  <2> QED BY <1>5, <1>6, <2>1 DEF Close, waits, net
<1>7. ASSUME NEW q \in Peers, Follow(q) \/ Register(q) \/ CheckTransit(q) \/ SendClose(q) \/ RepliesSent(q)
                              \/ CloserRemoves(q)
      PROVE  Moves
  <2>1. \E from, to : Goes(q, from, to) /\ to # "remove"
    BY <1>7 DEF Follow, Register, CheckTransit, SendClose, RepliesSent, CloserRemoves
  <2>2. UNCHANGED <<handler, wait_queue, conn_ok>>
    BY <1>7 DEF Follow, Register, CheckTransit, SendClose, RepliesSent, CloserRemoves, waits, net
  <2> QED BY <1>5, <2>1, <2>2
<1>8. ASSUME NEW q \in Peers, RepliesReceived(q) \/ NoConnection(q) PROVE Moves
  <2>1. \E from, to : Goes(q, from, to) /\ (to = "remove" => ~conn_ok)
    BY <1>8 DEF RepliesReceived, NoConnection
  <2>2. UNCHANGED <<handler, wait_queue, conn_ok>>
    BY <1>8 DEF RepliesReceived, NoConnection, waits, net
  <2> QED BY <1>5, <2>1, <2>2
<1>9. ASSUME NEW q \in Peers, TimeOut(q) PROVE Moves
  <2>1. \/ Goes(q, "sent", "await")
        \/ Goes(q, "await", "remove") /\ "late" \in irregular'
    BY <1>9 DEF TimeOut, Happened
  <2>2. UNCHANGED <<handler, wait_queue, conn_ok>>
    BY <1>9 DEF TimeOut, waits, net
  <2> QED BY <1>5, <2>1, <2>2
<1>10. ASSUME NEW q \in Peers, TakeVerdict(q) PROVE Moves
  <2>1. /\ wait_queue[q] # <<>> /\ wait_queue' = [wait_queue EXCEPT ![q] = <<>>]
        /\ Goes(q, "await", IF Agreed(Head(wait_queue[q])) THEN "remove" ELSE "idle")
        /\ UNCHANGED <<handler, conn_ok>>
    BY <1>10 DEF TakeVerdict, net
  <2>2. Head(wait_queue[q]) \in Range(wait_queue[q])
    BY <2>1, TailRange DEF Shape
  <2>3. Agreed(Head(wait_queue[q])) => HasOk(q)
    BY <2>2 DEF Agreed, HasOk
  <2>4. \A p \in Peers : HasOk(p)' => HasOk(p)
    BY <2>1, EmptyRange DEF Shape, HasOk
  <2>5. \A p \in Peers : closer'[p] = "remove" => closer[p] = "remove" \/ (p = q /\ Agreed(Head(wait_queue[q])))
    BY <2>1 DEF Goes, Shape
  <2> QED BY <1>1, <2>1, <2>3, <2>4, <2>5 DEF Taking
<1>11. ASSUME NEW q \in Peers, NEW from, NEW to, Turns(q, from, to), from # "idle" /\ from # "crashed",
              UNCHANGED <<closer, wait_queue>>
       PROVE  Moves
  <2>1. \A p \in Peers : Taking(p)' => Taking(p)
    BY <1>11 DEF Turns, Shape, Taking
  <2> QED BY <1>1, <1>11, <2>1 DEF HasOk
<1>12. ASSUME NEW q \in Peers, Handler(q), ~TellCloser(q) PROVE Moves
  <2>1. UNCHANGED <<closer, wait_queue>>
    BY <1>12 DEF Handler, FindChannel, GetChannel, AcceptInTransit, AskHandlers, NotifyClose, HandlerReplies,
                 SendOk, HandlerRemoves, waits
  <2>2. \E from, to : Turns(q, from, to) /\ from # "idle" /\ from # "crashed"
    BY <1>12 DEF Handler, FindChannel, GetChannel, AcceptInTransit, AskHandlers, NotifyClose, HandlerReplies,
                 SendOk, HandlerRemoves
  <2> QED BY <1>11, <2>1, <2>2
<1>13. ASSUME NEW q \in Peers, TellCloser(q) PROVE Moves
  <2>1. /\ Turns(q, "transit", "idle")
        /\ wait_queue' = [wait_queue EXCEPT ![q] = IF wait_reply[q] THEN Append(@, "ok") ELSE @]
        /\ UNCHANGED <<closer, conn_ok>>
    BY <1>13 DEF TellCloser, PushOk, net
  <2>2. handler[q] = "transit"
    BY <2>1 DEF Turns
  <2>3. \A p \in Peers : p # q => wait_queue'[p] = wait_queue[p]
    BY <2>1 DEF Shape
  <2>4. \A p \in Peers : Taking(p)' => Taking(p)
    BY <2>1 DEF Turns, Shape, Taking
  <2> QED BY <1>1, <2>1, <2>2, <2>3, <2>4 DEF HasOk
<1>14. CASE BreakConnection \/ Quiet \/ UNCHANGED vars
  <2>1. UNCHANGED <<closer, handler, wait_queue>>
    BY <1>14 DEF BreakConnection, Quiet, vars, waits
  <2> QED BY <1>2, <2>1
<1> QED BY <1>3, <1>4, <1>6, <1>7, <1>8, <1>9, <1>10, <1>12, <1>13, <1>14 DEF Next, Closer

\* Where a thread gets to take a close, an ok reaches the thread that waits, or the
\* thread that closes goes on to remove the channel, the other peer is closing.
LEMMA ConsentStep == Shape /\ ClosingInv /\ FrameInv /\ ConsentInv /\ [Next]_vars => ConsentInv'
<1> SUFFICES ASSUME Shape, ClosingInv, FrameInv, ConsentInv, [Next]_vars, NEW p \in Peers
             PROVE  /\ Taking(p)' => being_closed'[Other(p)]
                    /\ HasOk(p)' => being_closed'[Other(p)]
                    /\ Removing(p)' => being_closed'[Other(p)] \/ "late" \in irregular'
  BY DEF ConsentInv, Other, Taking, HasOk, Removing
<1>1. /\ Taking(p) => being_closed[Other(p)]
      /\ HasOk(p) => being_closed[Other(p)]
      /\ Removing(p) => being_closed[Other(p)] \/ "late" \in irregular
  BY DEF ConsentInv, Taking, HasOk, Removing
<1>2. ASSUME NEW type \in {"close", "ok"}, Takes(p, type) PROVE being_closed[Other(p)]
  <2>1. Other(p) \in Peers
    BY OtherFacts
  <2>2. Head(tcp[Other(p)]) \in Going(Other(p)) /\ Consents(Head(tcp[Other(p)]))
    BY <1>2, HeadGoing
  <2> QED BY <2>1, <2>2 DEF FrameInv, Going
<1>3. handler[p] = "transit" => being_closed[Other(p)]
  BY <1>1 DEF Taking
<1>4. being_closed[Other(p)] => being_closed'[Other(p)]
  BY OtherFacts, Monotone
<1>5. "late" \in irregular => "late" \in irregular'
  BY Monotone
<1>6. /\ Taking(p)' => Taking(p) \/ Takes(p, "close")
      /\ HasOk(p)' => HasOk(p) \/ Takes(p, "ok") \/ handler[p] = "transit"
      /\ Removing(p)' => Removing(p) \/ HasOk(p) \/ "late" \in irregular'
  BY Moving
<1> QED BY <1>1, <1>2, <1>3, <1>4, <1>5, <1>6

\* Only the two threads that close remove the channel.
LEMMA OnlyRemoved ==
    ASSUME Shape, [Next]_vars
    PROVE  /\ \/ exists' = exists
              \/ \E q \in Peers : CloserRemoves(q) \/ HandlerRemoves(q)
           /\ \A p \in Peers : exists'[p] => exists[p]
<1>1. ASSUME NEW q \in Peers, CheckOpen(q) \/ QueueMsg(q) \/ Answer(q) \/ Write0(q) \/ Write(q) \/ Recv(q)
                              \/ Close(q) \/ TimeOut(q)
      PROVE  exists' = exists
  BY <1>1 DEF CheckOpen, QueueMsg, Answer, Write0, Write, Recv, RecvOnChannel, RecvClose, RecvVerdict, Close,
              TimeOut, ends
<1>2. ASSUME NEW q \in Peers, Closer(q), ~CloserRemoves(q) PROVE exists' = exists
  BY <1>2 DEF Closer, Follow, Register, RepliesReceived, CheckTransit, SendClose, RepliesSent, TakeVerdict,
              NoConnection, ends
<1>3. ASSUME NEW q \in Peers, Handler(q), ~HandlerRemoves(q) PROVE exists' = exists
  BY <1>3 DEF Handler, FindChannel, GetChannel, AcceptInTransit, TellCloser, AskHandlers, NotifyClose,
              HandlerReplies, SendOk, ends
<1>4. ASSUME BreakConnection \/ Quiet \/ UNCHANGED vars PROVE exists' = exists
  BY <1>4 DEF BreakConnection, Quiet, vars, ends
<1>5. exists' = exists \/ \E q \in Peers : CloserRemoves(q) \/ HandlerRemoves(q)
  BY <1>1, <1>2, <1>3, <1>4 DEF Next
<1>6. ASSUME NEW q \in Peers, CloserRemoves(q) \/ HandlerRemoves(q), NEW p \in Peers PROVE exists'[p] => exists[p]
  BY <1>6 DEF CloserRemoves, HandlerRemoves, RemoveChannel, Shape
<1> QED BY <1>5, <1>6

\* ... and they are then at its end.
LEMMA WhoRemoves ==
    ASSUME Shape, [Next]_vars, NEW p \in Peers, exists[p], ~exists'[p]
    PROVE  UNCHANGED <<conn_ok, irregular>> /\ (closer[p] = "remove" \/ handler[p] = "remove")
<1>1. PICK q \in Peers : CloserRemoves(q) \/ HandlerRemoves(q)
  <2>1. exists' # exists
    OBVIOUS
  <2> QED BY <2>1, OnlyRemoved
<1>2. exists' = [exists EXCEPT ![q] = FALSE] /\ UNCHANGED <<conn_ok, irregular>>
  BY <1>1 DEF CloserRemoves, HandlerRemoves, RemoveChannel, net
<1>3. p = q
  BY <1>2 DEF Shape
<1> QED BY <1>1, <1>2, <1>3 DEF CloserRemoves, HandlerRemoves, Goes, Turns

-----------------------------------------------------------------------------
(* What is on the way from one peer to the other *)

AnyFrame == Frames0 \cup ChannelFrames

\* The frames of the types in T, in the stream s and in the queue q that feeds it, are
\* numbered lo + 1, ..., hi, in that order.
OnTheWay(s, q, T, lo, hi) == \E m \in Nat : Numbered(s, T, lo, m) /\ Numbered(q, T, m, hi)

\* The next frame is queued, or one of another type ...
LEMMA WayQueue ==
    ASSUME NEW s \in Seq(AnyFrame), NEW q \in Seq(ChannelFrames), NEW T, NEW lo \in Nat, NEW hi \in Nat,
           OnTheWay(s, q, T, lo, hi), NEW x \in ChannelFrames
    PROVE  /\ x.type \in T /\ x.no = hi + 1 => OnTheWay(s, Append(q, x), T, lo, hi + 1)
           /\ x.type \notin T => OnTheWay(s, Append(q, x), T, lo, hi)
<1>1. PICK m \in Nat : Numbered(s, T, lo, m) /\ Numbered(q, T, m, hi)
  BY DEF OnTheWay
<1>2. ASSUME x.type \in T, x.no = hi + 1 PROVE OnTheWay(s, Append(q, x), T, lo, hi + 1)
  <2>1. Numbered(Append(q, x), T, m, hi + 1)
    BY <1>1, <1>2, NumberedNext
  <2> QED BY <1>1, <2>1 DEF OnTheWay
<1>3. ASSUME x.type \notin T PROVE OnTheWay(s, Append(q, x), T, lo, hi)
  <2>1. Numbered(Append(q, x), T, m, hi)
    BY <1>1, <1>3, NumberedOther
  <2> QED BY <1>1, <2>1 DEF OnTheWay
<1> QED BY <1>2, <1>3

\* ... the first of the queue is written ...
LEMMA WayWrite ==
    ASSUME NEW s \in Seq(AnyFrame), NEW q \in Seq(ChannelFrames), q # <<>>, NEW T,
           NEW lo \in Nat, NEW hi \in Nat, OnTheWay(s, q, T, lo, hi)
    PROVE  OnTheWay(Append(s, Head(q)), Tail(q), T, lo, hi)
<1>1. PICK m \in Nat : Numbered(s, T, lo, m) /\ Numbered(q, T, m, hi)
  BY DEF OnTheWay
<1>2. Head(q) \in ChannelFrames /\ Head(q) \in AnyFrame
  BY TailRange DEF AnyFrame
<1>3. CASE Head(q).type \in T
  <2>1. Head(q).no = m + 1 /\ Numbered(Tail(q), T, m + 1, hi)
    BY <1>1, <1>3, NumberedHead
  <2>2. Numbered(Append(s, Head(q)), T, lo, m + 1)
    BY <1>1, <1>2, <1>3, <2>1, NumberedNext
  <2>3. m + 1 \in Nat
    OBVIOUS
  <2> QED BY <2>1, <2>2, <2>3 DEF OnTheWay
<1>4. CASE Head(q).type \notin T
  <2>1. Numbered(Tail(q), T, m, hi)
    BY <1>1, <1>4, NumberedTail
  <2>2. Numbered(Append(s, Head(q)), T, lo, m)
    BY <1>1, <1>2, <1>4, NumberedOther
  <2> QED BY <2>1, <2>2 DEF OnTheWay
<1> QED BY <1>3, <1>4

\* ... or a frame of channel 0 that is not counted ...
LEMMA WayWrite0 ==
    ASSUME NEW s \in Seq(AnyFrame), NEW q, NEW T, NEW lo \in Nat, NEW hi \in Nat,
           OnTheWay(s, q, T, lo, hi), NEW x \in AnyFrame, x.type \notin T
    PROVE  OnTheWay(Append(s, x), q, T, lo, hi)
<1>1. PICK m \in Nat : Numbered(s, T, lo, m) /\ Numbered(q, T, m, hi)
  BY DEF OnTheWay
<1>2. Numbered(Append(s, x), T, lo, m)
  BY <1>1, NumberedOther
<1> QED BY <1>1, <1>2 DEF OnTheWay

\* ... and the first of the stream is taken.
LEMMA WayTake ==
    ASSUME NEW s \in Seq(AnyFrame), s # <<>>, NEW q, NEW T, NEW lo \in Nat, NEW hi \in Nat,
           OnTheWay(s, q, T, lo, hi)
    PROVE  /\ Head(s).type \in T => lo < hi /\ OnTheWay(Tail(s), q, T, lo + 1, hi)
           /\ Head(s).type \notin T => OnTheWay(Tail(s), q, T, lo, hi)
<1>1. PICK m \in Nat : Numbered(s, T, lo, m) /\ Numbered(q, T, m, hi)
  BY DEF OnTheWay
<1>2. ASSUME Head(s).type \in T PROVE lo < hi /\ OnTheWay(Tail(s), q, T, lo + 1, hi)
  <2>1. lo < m /\ Numbered(Tail(s), T, lo + 1, m)
    BY <1>1, <1>2, NumberedHead
  <2>2. m <= hi
    BY <1>1 DEF Numbered
  <2> QED BY <1>1, <2>1, <2>2 DEF OnTheWay
<1>3. ASSUME Head(s).type \notin T PROVE OnTheWay(Tail(s), q, T, lo, hi)
  <2>1. Numbered(Tail(s), T, lo, m)
    BY <1>1, <1>3, NumberedTail
  <2> QED BY <1>1, <2>1 DEF OnTheWay
<1> QED BY <1>2, <1>3

\* There are no fewer than none.
LEMMA WayOrder ==
    ASSUME NEW s, NEW q, NEW T, NEW lo \in Nat, NEW hi \in Nat, OnTheWay(s, q, T, lo, hi)
    PROVE  lo <= hi
BY DEF OnTheWay, Numbered

\* The messages and replies from p to o that o has not taken.
Counts(p, o) ==
    /\ OnTheWay(tcp[p], pending[p], {"MSG"}, received[o], sent[p])
    /\ OnTheWay(tcp[p], pending[p], {"RPY", "ERR"}, sent[o] - outstanding[o], answered[p])
    /\ answered[p] <= received[p]

\* As long as the connection works every message a peer counts as outstanding is on its
\* way, with the other application, or answered with the reply on its way.
CountInv == conn_ok => \A p, o \in Peers : p # o => Counts(p, o)

TallyInv ==
    /\ outstanding \in [Peers -> Nat] /\ received \in [Peers -> Nat]
    /\ \A p \in Peers : outstanding[p] <= sent[p]

\* In numbers: replies taken <= answered <= received <= sent.
LEMMA CountOrder ==
    ASSUME Shape, TallyInv, NEW p \in Peers, NEW o \in Peers, Counts(p, o), Counts(o, p)
    PROVE  /\ sent[p] - outstanding[p] \in Nat
           /\ sent[p] - outstanding[p] <= answered[o]
           /\ answered[o] <= received[o] /\ received[o] <= sent[p]
           /\ sent[p] \in Nat /\ answered[o] \in Nat /\ received[o] \in Nat /\ outstanding[p] \in Nat
<1>1. sent[p] \in Nat /\ answered[o] \in Nat /\ received[o] \in Nat /\ outstanding[p] \in Nat /\ outstanding[p] <= sent[p]
  BY DEF Shape, TallyInv
<1>2. sent[p] - outstanding[p] \in Nat
  BY <1>1
<1>3. received[o] <= sent[p]
  BY <1>1, WayOrder DEF Counts
<1>4. sent[p] - outstanding[p] <= answered[o]
  BY <1>1, <1>2, WayOrder DEF Counts
<1> QED BY <1>1, <1>2, <1>3, <1>4 DEF Counts

\* Every message and every reply is counted once, whoever takes a step.
LEMMA CountStep == Shape /\ TallyInv /\ CountInv /\ [Next]_vars => TallyInv' /\ CountInv'
<1> SUFFICES ASSUME Shape, TallyInv, CountInv, [Next]_vars PROVE TallyInv' /\ CountInv'
  OBVIOUS
<1>c. conn_ok' => conn_ok
  BY Monotone
<1>s. /\ tcp \in [Peers -> Seq(AnyFrame)] /\ pending \in [Peers -> Seq(ChannelFrames)]
      /\ pending0 \in [Peers -> Seq(Frames0)]
      /\ sent \in [Peers -> Nat] /\ answered \in [Peers -> Nat]
  BY DEF Shape, AnyFrame
<1>n. /\ outstanding \in [Peers -> Nat] /\ received \in [Peers -> Nat]
      /\ \A p \in Peers : outstanding[p] <= sent[p]
  BY DEF TallyInv
<1>k. ASSUME NEW q \in Peers, NEW o \in Peers, q # o, conn_ok
      PROVE  /\ OnTheWay(tcp[q], pending[q], {"MSG"}, received[o], sent[q])
             /\ OnTheWay(tcp[q], pending[q], {"RPY", "ERR"}, sent[o] - outstanding[o], answered[q])
             /\ answered[q] <= received[q]
  BY <1>k DEF CountInv, Counts
<1>1. ASSUME UNCHANGED <<sent, outstanding, received, answered, pending, tcp>> PROVE TallyInv' /\ CountInv'
  BY <1>1, <1>c DEF TallyInv, CountInv, Counts
<1>2. ASSUME NEW q \in Peers, conn_ok' => \A o \in Peers : o # q => Counts(q, o)' /\ Counts(o, q)'
      PROVE  CountInv'
  <2> SUFFICES ASSUME conn_ok', NEW p \in Peers, NEW r \in Peers, p # r PROVE Counts(p, r)'
    BY DEF CountInv
  <2>1. p = q \/ r = q
    <3>1. (p = q \/ p = Other(q)) /\ (r = q \/ r = Other(q))
      BY OtherFacts
    <3> QED BY <3>1
  <2> QED BY <1>2, <2>1
<1>3. ASSUME NEW q \in Peers, QueueMsg(q) PROVE TallyInv' /\ CountInv'
  <2> DEFINE x == [type |-> "MSG", no |-> sent[q] + 1]
  <2>1. /\ sent' = [sent EXCEPT ![q] = @ + 1] /\ outstanding' = [outstanding EXCEPT ![q] = @ + 1]
        /\ pending' = [pending EXCEPT ![q] = Append(@, x)]
        /\ UNCHANGED <<received, answered, tcp>>
    BY <1>3 DEF QueueMsg, Queue, net
  <2>2. x \in ChannelFrames /\ x.type = "MSG" /\ x.no = sent[q] + 1
    BY <1>s DEF ChannelFrames
  <2> HIDE DEF x
  <2>3. TallyInv'
    BY <1>s, <1>n, <2>1 DEF TallyInv
  <2>4. ASSUME conn_ok', NEW o \in Peers, o # q PROVE Counts(q, o)' /\ Counts(o, q)'
    <3>1. sent'[q] = sent[q] + 1 /\ sent'[o] = sent[o] /\ outstanding'[o] = outstanding[o]
          /\ sent'[q] - outstanding'[q] = sent[q] - outstanding[q]
          /\ pending'[q] = Append(pending[q], x) /\ pending'[o] = pending[o]
      BY <1>s, <1>n, <2>1, <2>4
    <3>2. sent[o] - outstanding[o] \in Nat /\ sent[q] \in Nat /\ received[o] \in Nat /\ answered[q] \in Nat
      BY <1>s, <1>n
    <3>3. OnTheWay(tcp[q], Append(pending[q], x), {"MSG"}, received[o], sent[q] + 1)
      BY <1>s, <1>c, <1>k, <2>2, <2>4, <3>2, WayQueue
    <3>4. OnTheWay(tcp[q], Append(pending[q], x), {"RPY", "ERR"}, sent[o] - outstanding[o], answered[q])
      BY <1>s, <1>c, <1>k, <2>2, <2>4, <3>2, WayQueue
    <3>5. Counts(q, o)'
      BY <1>c, <1>k, <2>1, <2>4, <3>1, <3>3, <3>4 DEF Counts
    <3>6. Counts(o, q)'
      BY <1>c, <1>k, <2>1, <2>4, <3>1 DEF Counts
    <3> QED BY <3>5, <3>6
  <2> QED BY <1>2, <2>3, <2>4
<1>4. ASSUME NEW q \in Peers, Answer(q) PROVE TallyInv' /\ CountInv'
  <2>1. PICK type \in {"RPY", "ERR"} : Queue(q, type, answered[q] + 1)
    BY <1>4 DEF Answer
  <2> DEFINE x == [type |-> type, no |-> answered[q] + 1]
  <2>2. /\ answered' = [answered EXCEPT ![q] = @ + 1] /\ answered[q] < received[q]
        /\ pending' = [pending EXCEPT ![q] = Append(@, x)]
        /\ UNCHANGED <<sent, outstanding, received, tcp>>
    BY <1>4, <2>1 DEF Answer, Queue, net
  <2>3. x \in ChannelFrames /\ x.type \in {"RPY", "ERR"} /\ x.type \notin {"MSG"} /\ x.no = answered[q] + 1
    BY <1>s DEF ChannelFrames
  <2> HIDE DEF x
  <2>4. TallyInv'
    BY <2>2 DEF TallyInv
  <2>5. ASSUME conn_ok', NEW o \in Peers, o # q PROVE Counts(q, o)' /\ Counts(o, q)'
    <3>1. answered'[q] = answered[q] + 1 /\ answered'[o] = answered[o]
          /\ pending'[q] = Append(pending[q], x) /\ pending'[o] = pending[o]
      BY <1>s, <2>2, <2>5
    <3>2. sent[o] - outstanding[o] \in Nat /\ sent[q] \in Nat /\ received[o] \in Nat /\ answered[q] \in Nat
          /\ received[q] \in Nat
      BY <1>s, <1>n
    <3>3. OnTheWay(tcp[q], Append(pending[q], x), {"MSG"}, received[o], sent[q])
      BY <1>s, <1>c, <1>k, <2>3, <2>5, <3>2, WayQueue
    <3>4. OnTheWay(tcp[q], Append(pending[q], x), {"RPY", "ERR"}, sent[o] - outstanding[o], answered[q] + 1)
      BY <1>s, <1>c, <1>k, <2>3, <2>5, <3>2, WayQueue
    <3>5. answered'[q] <= received'[q]
      BY <2>2, <3>1, <3>2
    <3>6. Counts(q, o)'
      BY <2>2, <3>1, <3>3, <3>4, <3>5 DEF Counts
    <3>7. Counts(o, q)'
      BY <1>c, <1>k, <2>2, <2>5, <3>1 DEF Counts
    <3> QED BY <3>6, <3>7
  <2> QED BY <1>2, <2>4, <2>5
<1>5. ASSUME NEW q \in Peers, Write0(q) PROVE TallyInv' /\ CountInv'
  <2>1. /\ pending0[q] # <<>> /\ tcp' = [tcp EXCEPT ![q] = Append(@, Head(pending0[q]))]
        /\ UNCHANGED <<sent, outstanding, received, answered, pending>>
    BY <1>5 DEF Write0, counters
  <2>2. Head(pending0[q]) \in Frames0
    BY <1>s, <2>1, TailRange
  <2>3. /\ Head(pending0[q]) \in AnyFrame
        /\ Head(pending0[q]).type \notin {"MSG"} /\ Head(pending0[q]).type \notin {"RPY", "ERR"}
    BY <2>2 DEF AnyFrame, Frames0
  <2>4. TallyInv'
    BY <2>1 DEF TallyInv
  <2>5. ASSUME conn_ok', NEW o \in Peers, o # q PROVE Counts(q, o)' /\ Counts(o, q)'
    <3>1. tcp'[q] = Append(tcp[q], Head(pending0[q])) /\ tcp'[o] = tcp[o]
      BY <1>s, <2>1, <2>5
    <3>2. sent[o] - outstanding[o] \in Nat /\ sent[q] \in Nat /\ received[o] \in Nat /\ answered[q] \in Nat
      BY <1>s, <1>n
    <3>3. OnTheWay(Append(tcp[q], Head(pending0[q])), pending[q], {"MSG"}, received[o], sent[q])
      BY <1>s, <1>c, <1>k, <2>3, <2>5, <3>2, WayWrite0
    <3>4. OnTheWay(Append(tcp[q], Head(pending0[q])), pending[q], {"RPY", "ERR"}, sent[o] - outstanding[o],
                   answered[q])
      BY <1>s, <1>c, <1>k, <2>3, <2>5, <3>2, WayWrite0
    <3>5. Counts(q, o)'
      BY <1>c, <1>k, <2>1, <2>5, <3>1, <3>3, <3>4 DEF Counts
    <3>6. Counts(o, q)'
      BY <1>c, <1>k, <2>1, <2>5, <3>1 DEF Counts
    <3> QED BY <3>5, <3>6
  <2> QED BY <1>2, <2>4, <2>5
<1>6. ASSUME NEW q \in Peers, Write(q) PROVE TallyInv' /\ CountInv'
  <2>1. /\ pending[q] # <<>> /\ tcp' = [tcp EXCEPT ![q] = Append(@, Head(pending[q]))]
        /\ pending' = [pending EXCEPT ![q] = Tail(@)]
        /\ UNCHANGED <<sent, outstanding, received, answered>>
    BY <1>6 DEF Write
  <2>2. TallyInv'
    BY <2>1 DEF TallyInv
  <2>3. ASSUME conn_ok', NEW o \in Peers, o # q PROVE Counts(q, o)' /\ Counts(o, q)'
    <3>1. tcp'[q] = Append(tcp[q], Head(pending[q])) /\ tcp'[o] = tcp[o]
          /\ pending'[q] = Tail(pending[q]) /\ pending'[o] = pending[o]
      BY <1>s, <2>1, <2>3
    <3>2. sent[o] - outstanding[o] \in Nat /\ sent[q] \in Nat /\ received[o] \in Nat /\ answered[q] \in Nat
      BY <1>s, <1>n
    <3>3. OnTheWay(Append(tcp[q], Head(pending[q])), Tail(pending[q]), {"MSG"}, received[o], sent[q])
      BY <1>s, <1>c, <1>k, <2>1, <2>3, <3>2, WayWrite
    <3>4. OnTheWay(Append(tcp[q], Head(pending[q])), Tail(pending[q]), {"RPY", "ERR"}, sent[o] - outstanding[o],
                   answered[q])
      BY <1>s, <1>c, <1>k, <2>1, <2>3, <3>2, WayWrite
    <3>5. Counts(q, o)'
      BY <1>c, <1>k, <2>1, <2>3, <3>1, <3>3, <3>4 DEF Counts
    <3>6. Counts(o, q)'
      BY <1>c, <1>k, <2>1, <2>3, <3>1 DEF Counts
    <3> QED BY <3>5, <3>6
  <2> QED BY <1>2, <2>2, <2>3
<1>7. ASSUME NEW q \in Peers, NEW o \in Peers, o = Other(q), o # q, NEW type, Takes(q, type)
      PROVE  /\ conn_ok /\ tcp[o] # <<>> /\ Head(tcp[o]).type = type
             /\ tcp'[o] = Tail(tcp[o]) /\ tcp'[q] = tcp[q]
  BY <1>s, <1>7 DEF Takes
<1>8. ASSUME NEW q \in Peers, NEW type \in {"close", "ok", "error"}, Takes(q, type),
             UNCHANGED <<sent, outstanding, received, answered, pending>>
      PROVE  TallyInv' /\ CountInv'
  <2>1. TallyInv'
    BY <1>8 DEF TallyInv
  <2>2. ASSUME conn_ok', NEW o \in Peers, o # q PROVE Counts(q, o)' /\ Counts(o, q)'
    <3>1. o = Other(q)
      BY <2>2, OtherFacts
    <3>2. /\ tcp[o] # <<>> /\ Head(tcp[o]).type \notin {"MSG"} /\ Head(tcp[o]).type \notin {"RPY", "ERR"}
          /\ tcp'[o] = Tail(tcp[o]) /\ tcp'[q] = tcp[q]
      BY <1>7, <1>8, <2>2, <3>1
    <3>3. sent[q] - outstanding[q] \in Nat /\ sent[o] \in Nat /\ received[q] \in Nat /\ answered[o] \in Nat
      BY <1>s, <1>n
    <3>4. OnTheWay(Tail(tcp[o]), pending[o], {"MSG"}, received[q], sent[o])
      BY <1>s, <1>c, <1>k, <2>2, <3>2, <3>3, WayTake
    <3>5. OnTheWay(Tail(tcp[o]), pending[o], {"RPY", "ERR"}, sent[q] - outstanding[q], answered[o])
      BY <1>s, <1>c, <1>k, <2>2, <3>2, <3>3, WayTake
    <3>6. Counts(o, q)'
      BY <1>c, <1>k, <1>8, <2>2, <3>2, <3>4, <3>5 DEF Counts
    <3>7. Counts(q, o)'
      BY <1>c, <1>k, <1>8, <2>2, <3>2 DEF Counts
    <3> QED BY <3>6, <3>7
  <2> QED BY <1>2, <2>1, <2>2
<1>9. ASSUME NEW q \in Peers, NEW type \in {"MSG", "RPY", "ERR"}, RecvOnChannel(q, type)
      PROVE  TallyInv' /\ CountInv'
  <2>1. /\ Takes(q, type) /\ conn_ok /\ UNCHANGED <<sent, answered, pending>>
        /\ \/ ~conn_ok' /\ UNCHANGED <<outstanding, received>>
           \/ type = "MSG" /\ received' = [received EXCEPT ![q] = @ + 1] /\ UNCHANGED outstanding
           \/ type # "MSG" /\ outstanding' = [outstanding EXCEPT ![q] = @ - 1] /\ UNCHANGED received
    BY <1>9, <1>n DEF RecvOnChannel, Takes, counters, queues
  <2>2. PICK o \in Peers : o = Other(q) /\ o # q /\ \A r \in Peers : r # q => r = o
    BY OtherFacts
  <2>3. /\ tcp[o] # <<>> /\ Head(tcp[o]).type = type /\ tcp'[o] = Tail(tcp[o]) /\ tcp'[q] = tcp[q]
    BY <1>7, <2>1, <2>2
  <2>4. Counts(q, o) /\ Counts(o, q)
    BY <2>1, <2>2 DEF CountInv
  <2>5. /\ sent[q] - outstanding[q] \in Nat /\ sent[q] - outstanding[q] <= answered[o]
        /\ answered[o] <= received[o] /\ received[o] <= sent[q]
        /\ sent[q] \in Nat /\ answered[o] \in Nat /\ received[o] \in Nat /\ outstanding[q] \in Nat
    BY <2>4, CountOrder
  <2>6. sent[o] \in Nat /\ received[q] \in Nat
    BY <1>s, <1>n
  <2>7. CASE ~conn_ok' /\ UNCHANGED <<outstanding, received>>
    BY <2>1, <2>7 DEF TallyInv, CountInv
  <2>8. CASE type = "MSG" /\ received' = [received EXCEPT ![q] = @ + 1] /\ UNCHANGED outstanding
    <3>1. TallyInv'
      BY <1>n, <2>1, <2>8 DEF TallyInv
    <3>2. Head(tcp[o]).type \in {"MSG"} /\ Head(tcp[o]).type \notin {"RPY", "ERR"}
      BY <2>3, <2>8
    <3>3. OnTheWay(Tail(tcp[o]), pending[o], {"MSG"}, received[q] + 1, sent[o])
      BY <1>s, <1>k, <2>1, <2>2, <2>3, <2>6, <3>2, WayTake
    <3>4. OnTheWay(Tail(tcp[o]), pending[o], {"RPY", "ERR"}, sent[q] - outstanding[q], answered[o])
      BY <1>s, <1>k, <2>1, <2>2, <2>3, <2>5, <3>2, WayTake
    <3>5. received'[q] = received[q] + 1 /\ received'[o] = received[o]
      BY <1>n, <2>2, <2>8
    <3>6. Counts(o, q)'
      BY <2>1, <2>3, <2>4, <2>8, <3>3, <3>4, <3>5 DEF Counts
    <3>7. answered[q] <= received[q] + 1
      BY <1>s, <2>4, <2>6 DEF Counts
    <3>8. Counts(q, o)'
      BY <2>1, <2>3, <2>4, <2>8, <3>5, <3>7 DEF Counts
    <3> QED BY <1>2, <2>2, <3>1, <3>6, <3>8
  <2>9. CASE type # "MSG" /\ outstanding' = [outstanding EXCEPT ![q] = @ - 1] /\ UNCHANGED received
    <3>1. Head(tcp[o]).type \in {"RPY", "ERR"} /\ Head(tcp[o]).type \notin {"MSG"}
      BY <2>3, <2>9
    <3>2. /\ sent[q] - outstanding[q] < answered[o]
          /\ OnTheWay(Tail(tcp[o]), pending[o], {"RPY", "ERR"}, sent[q] - outstanding[q] + 1, answered[o])
      BY <1>s, <1>k, <2>1, <2>2, <2>3, <2>5, <3>1, WayTake
    <3>3. OnTheWay(Tail(tcp[o]), pending[o], {"MSG"}, received[q], sent[o])
      BY <1>s, <1>k, <2>1, <2>2, <2>3, <2>6, <3>1, WayTake
    <3>4. outstanding[q] # 0
      BY <2>5, <3>2
    <3>5. TallyInv'
      BY <1>s, <1>n, <2>1, <2>5, <2>9, <3>4 DEF TallyInv
    <3>6. sent[q] - outstanding'[q] = sent[q] - outstanding[q] + 1 /\ outstanding'[o] = outstanding[o]
      BY <1>n, <2>2, <2>5, <2>9
    <3>7. Counts(o, q)'
      BY <2>1, <2>3, <2>4, <2>9, <3>2, <3>3, <3>6 DEF Counts
    <3>8. Counts(q, o)'
      BY <2>1, <2>3, <2>4, <2>9, <3>6 DEF Counts
    <3> QED BY <1>2, <2>2, <3>5, <3>7, <3>8
  <2> QED BY <2>1, <2>7, <2>8, <2>9
<1>10. ASSUME NEW q \in Peers, Recv(q) PROVE TallyInv' /\ CountInv'
  <2>1. CASE RecvClose(q)
    BY <1>8, <2>1 DEF RecvClose, counters, queues
  <2>2. ASSUME NEW type \in {"ok", "error"}, RecvVerdict(q, type) PROVE TallyInv' /\ CountInv'
    BY <1>8, <2>2 DEF RecvVerdict, counters, queues
  <2> QED BY <1>9, <1>10, <2>1, <2>2 DEF Recv
<1>11. ASSUME NEW q \in Peers, CheckOpen(q) \/ Close(q) \/ Closer(q) \/ TimeOut(q)
       PROVE  TallyInv' /\ CountInv'
  BY <1>1, <1>11 DEF CheckOpen, Close, TimeOut, Closer, Follow, Register, RepliesReceived, CheckTransit, SendClose,
                     RepliesSent, TakeVerdict, NoConnection, CloserRemoves, counters, queues, net
<1>12. ASSUME NEW q \in Peers, Handler(q) PROVE TallyInv' /\ CountInv'
  BY <1>1, <1>12 DEF Handler, FindChannel, GetChannel, AcceptInTransit, TellCloser, AskHandlers, NotifyClose,
                     HandlerReplies, SendOk, HandlerRemoves, counters, queues, net
<1>13. CASE BreakConnection \/ Quiet \/ UNCHANGED vars
  BY <1>1, <1>13 DEF BreakConnection, Quiet, vars, counters, queues, net
<1> QED BY <1>3, <1>4, <1>5, <1>6, <1>10, <1>11, <1>12, <1>13 DEF Next

-----------------------------------------------------------------------------
(* Who has all the replies *)

\* Nothing went wrong that lets a channel go with a message on its way.
Regular == irregular \cap {"slipped", "early", "late"} = {}

Settled(p) == outstanding[p] = 0

\* The threads that have waited for their replies.
Asking(p) == closer[p] \in {"check", "send", "sent", "await", "remove"}
Accepting(p) == handler[p] \in {"transit", "reply", "remove"}

\* A peer that asks for the close, accepts it or lets the channel go has all its replies,
\* and knows it of the other peer once that has asked or accepted.
DoneInv ==
    conn_ok /\ Regular =>
        /\ \A p \in Peers : Asking(p) \/ Accepting(p) => Settled(p)
        /\ \A p \in Peers : \A f \in Going(p) : Consents(f) => Settled(p)
        /\ \A p, o \in Peers : p # o /\ (Taking(p) \/ HasOk(p) \/ Removing(p)) => Settled(o)
        /\ \A p, o \in Peers : p # o /\ ~exists[p] =>
              Settled(p) /\ Settled(o) /\ being_closed[p] /\ being_closed[o]

\* With all replies of both peers taken nothing of the channel is on its way.
LEMMA NothingLeft ==
    ASSUME Shape, TallyInv, CountInv, conn_ok,
           NEW p \in Peers, NEW o \in Peers, p # o, Settled(p), Settled(o)
    PROVE  /\ answered[p] = received[p] /\ pending[p] = <<>>
           /\ tcp[p] # <<>> => Head(tcp[p]).type \notin {"MSG", "RPY", "ERR"}
<1>1. Counts(p, o) /\ Counts(o, p)
  BY DEF CountInv
<1>2. /\ answered[o] = sent[p] /\ received[o] = sent[p] /\ sent[p] \in Nat
      /\ sent[p] - outstanding[p] = sent[p] /\ answered[p] \in Nat
  BY <1>1, CountOrder DEF Settled
<1>3. /\ answered[p] = sent[o] /\ received[p] = sent[o] /\ sent[o] \in Nat
      /\ sent[o] - outstanding[o] = sent[o]
  BY <1>1, CountOrder DEF Settled
<1>4. /\ tcp[p] \in Seq(AnyFrame) /\ pending[p] \in Seq(ChannelFrames)
  BY DEF Shape, AnyFrame
<1>5. OnTheWay(tcp[p], pending[p], {"MSG"}, sent[p], sent[p])
      /\ OnTheWay(tcp[p], pending[p], {"RPY", "ERR"}, sent[o], sent[o])
  BY <1>1, <1>2, <1>3 DEF Counts
<1>6. ASSUME NEW T, NEW n \in Nat, OnTheWay(tcp[p], pending[p], T, n, n)
      PROVE  /\ Placed(pending[p], T) = {}
             /\ tcp[p] # <<>> => Head(tcp[p]).type \notin T
  <2>1. PICK m \in Nat : Numbered(tcp[p], T, n, m) /\ Numbered(pending[p], T, m, n)
    BY <1>6 DEF OnTheWay
  <2>2. m = n
    BY <2>1 DEF Numbered
  <2>3. Placed(pending[p], T) = {}
    BY <1>4, <2>1, <2>2, NumberedNone
  <2>4. ASSUME tcp[p] # <<>>, Head(tcp[p]).type \in T PROVE FALSE
    <3>1. n < m
      BY <1>4, <2>1, <2>4, NumberedHead
    <3> QED BY <2>2, <3>1
  <2> QED BY <2>3, <2>4
<1>7. /\ Placed(pending[p], {"MSG"}) = {} /\ Placed(pending[p], {"RPY", "ERR"}) = {}
      /\ tcp[p] # <<>> => Head(tcp[p]).type \notin {"MSG"} /\ Head(tcp[p]).type \notin {"RPY", "ERR"}
  BY <1>2, <1>3, <1>5, <1>6
<1>8. pending[p] = <<>>
  <2> SUFFICES ASSUME pending[p] # <<>> PROVE FALSE
    OBVIOUS
  <2>1. Head(pending[p]) \in ChannelFrames
    BY <1>4, TailRange
  <2>2. /\ 1 \in Placed(pending[p], {"MSG"}) <=> Head(pending[p]).type \in {"MSG"}
        /\ 1 \in Placed(pending[p], {"RPY", "ERR"}) <=> Head(pending[p]).type \in {"RPY", "ERR"}
    BY <1>4, TailPlaces
  <2>3. Head(pending[p]).type \in {"MSG"} \/ Head(pending[p]).type \in {"RPY", "ERR"}
    BY <2>1 DEF ChannelFrames
  <2> QED BY <1>7, <2>2, <2>3
<1> QED BY <1>2, <1>3, <1>7, <1>8

\* A peer that is closing gets no message of its own on its way again.
LEMMA SettledStep ==
    ASSUME Shape, TallyInv, CountInv, [Next]_vars, conn_ok', Regular',
           NEW p \in Peers, being_closed[p], Settled(p)
    PROVE  Settled(p)'
<1>1. ASSUME outstanding' = outstanding PROVE Settled(p)'
  BY <1>1 DEF Settled
<1>2. ASSUME NEW q \in Peers, QueueMsg(q) PROVE Settled(p)'
  <2>1. outstanding' = [outstanding EXCEPT ![q] = @ + 1] /\ Happened("slipped", being_closed[q])
    BY <1>2 DEF QueueMsg
  <2>2. ~being_closed[q]
    BY <2>1 DEF Happened, Regular
  <2>3. p # q
    BY <2>2
  <2> QED BY <2>1, <2>3 DEF Settled, TallyInv
<1>3. ASSUME NEW q \in Peers, NEW type \in {"MSG", "RPY", "ERR"}, RecvOnChannel(q, type) PROVE Settled(p)'
  <2>1. /\ Takes(q, type) /\ conn_ok
        /\ outstanding' = [outstanding EXCEPT ![q] = IF type = "MSG" THEN @ ELSE @ - 1]
    BY <1>3 DEF RecvOnChannel, Takes
  <2>2. CASE type = "MSG" \/ p # q
    BY <2>1, <2>2 DEF Settled, TallyInv
  <2>3. CASE type # "MSG" /\ p = q
    <3>1. PICK o \in Peers : o = Other(p) /\ o # p
      BY OtherFacts
    <3>2. tcp[o] # <<>> /\ Head(tcp[o]).type \in {"RPY", "ERR"}
      BY <2>1, <2>3, <3>1 DEF Takes
    <3>3. Counts(p, o) /\ Counts(o, p)
      BY <2>1, <3>1 DEF CountInv
    <3>4. /\ sent[p] - outstanding[p] = sent[p] /\ answered[o] <= sent[p]
          /\ sent[p] \in Nat /\ answered[o] \in Nat
      BY <3>1, <3>3, CountOrder DEF Settled
    <3>5. tcp[o] \in Seq(AnyFrame)
      BY DEF Shape, AnyFrame
    <3>6. OnTheWay(tcp[o], pending[o], {"RPY", "ERR"}, sent[p], answered[o])
      BY <3>3, <3>4 DEF Counts
    <3>7. sent[p] < answered[o]
      BY <3>2, <3>4, <3>5, <3>6, WayTake
    <3> QED BY <3>4, <3>7
  <2> QED BY <2>2, <2>3
<1>4. ASSUME NEW q \in Peers, RecvClose(q) \/ (\E type \in {"ok", "error"} : RecvVerdict(q, type))
      PROVE  Settled(p)'
  BY <1>1, <1>4 DEF RecvClose, RecvVerdict, counters
<1>5. ASSUME NEW q \in Peers, CheckOpen(q) \/ Answer(q) \/ Write0(q) \/ Write(q) \/ Close(q) \/ Closer(q) \/ TimeOut(q)
      PROVE  Settled(p)'
  BY <1>1, <1>5 DEF CheckOpen, Answer, Write0, Write, Close, TimeOut, Closer, Follow, Register, RepliesReceived,
                    CheckTransit, SendClose, RepliesSent, TakeVerdict, NoConnection, CloserRemoves, counters
<1>6. ASSUME NEW q \in Peers, Handler(q) PROVE Settled(p)'
  BY <1>1, <1>6 DEF Handler, FindChannel, GetChannel, AcceptInTransit, TellCloser, AskHandlers, NotifyClose,
                    HandlerReplies, SendOk, HandlerRemoves, counters
<1>7. CASE BreakConnection \/ Quiet \/ UNCHANGED vars
  BY <1>1, <1>7 DEF BreakConnection, Quiet, vars, counters
<1> QED BY <1>2, <1>3, <1>4, <1>5, <1>6, <1>7 DEF Next, Recv

\* A thread that goes on to ask, to accept or to remove has seen that no reply is missing.
LEMMA WhoSettles ==
    ASSUME Shape, ClosingInv, TallyInv, [Next]_vars, conn_ok, conn_ok', Regular', NEW p \in Peers
    PROVE  /\ Asking(p)' => Asking(p) \/ (Settled(p) /\ being_closed[p])
           /\ Accepting(p)' => Accepting(p) \/ (Settled(p) /\ being_closed[p])
           /\ AcceptInTransit(p) => Settled(p) /\ being_closed[p]
<1> DEFINE Known == /\ Asking(p)' => Asking(p) \/ (Settled(p) /\ being_closed[p])
                    /\ Accepting(p)' => Accepting(p) \/ (Settled(p) /\ being_closed[p])
<1> HIDE DEF Known
<1>1. ASSUME Asking(p)' => Asking(p) \/ (Settled(p) /\ being_closed[p]),
             Accepting(p)' => Accepting(p) \/ (Settled(p) /\ being_closed[p])
      PROVE  Known
  BY <1>1 DEF Known
<1>2. ASSUME UNCHANGED <<closer, handler>> PROVE Known
  BY <1>1, <1>2 DEF Asking, Accepting
<1>3. ASSUME NEW q \in Peers, NEW from, NEW to, Goes(q, from, to), handler' = handler,
             to \in {"check", "send", "sent", "await", "remove"} =>
                 \/ from \in {"check", "send", "sent", "await", "remove"}
                 \/ AllReplies(q) /\ from = "replies"
      PROVE  Known
  <2>1. closer[q] = from /\ \A r \in Peers : closer'[r] = closer[r] \/ (r = q /\ closer'[r] = to)
    BY <1>3 DEF Goes, Shape
  <2>2. closer[q] = "replies" => being_closed[q]
    BY DEF ClosingInv, Closing
  <2>3. Asking(p)' => Asking(p) \/ (Settled(p) /\ being_closed[p])
    BY <1>3, <2>1, <2>2 DEF Asking, Settled, AllReplies
  <2> QED BY <1>1, <1>3, <2>3 DEF Accepting
<1>4. ASSUME NEW q \in Peers, NEW from, NEW to, Turns(q, from, to), closer' = closer,
             to \in {"transit", "reply", "remove"} =>
                 \/ from \in {"transit", "reply", "remove"}
                 \/ Settled(q) /\ being_closed[q]
      PROVE  Known
  <2>1. handler[q] = from /\ \A r \in Peers : handler'[r] = handler[r] \/ (r = q /\ handler'[r] = to)
    BY <1>4 DEF Turns, Shape
  <2>2. Accepting(p)' => Accepting(p) \/ (Settled(p) /\ being_closed[p])
    BY <1>4, <2>1 DEF Accepting
  <2> QED BY <1>1, <1>4, <2>2 DEF Asking
<1>5. ASSUME NEW q \in Peers, AcceptInTransit(q) PROVE Settled(q) /\ being_closed[q]
  <2>1. being_closed[q] /\ Happened("early", outstanding[q] > 0)
    BY <1>5 DEF AcceptInTransit
  <2>2. ~(outstanding[q] > 0)
    BY <2>1 DEF Happened, Regular
  <2> QED BY <2>1, <2>2 DEF Settled, TallyInv
<1>6. ASSUME NEW q \in Peers, CheckOpen(q) \/ QueueMsg(q) \/ Answer(q) \/ Write0(q) \/ Write(q) PROVE Known
  BY <1>2, <1>6 DEF CheckOpen, QueueMsg, Answer, Write0, Write
<1>7. ASSUME NEW q \in Peers, Recv(q) PROVE Known
  <2>1. closer' = closer /\ (handler' = handler \/ handler' = [handler EXCEPT ![q] = "find"])
    BY <1>7 DEF Recv, RecvOnChannel, RecvClose, RecvVerdict
  <2> QED BY <1>1, <2>1 DEF Asking, Accepting, Shape
<1>8. ASSUME NEW q \in Peers, Close(q) PROVE Known
  <2>1. handler' = handler /\ \E to \in {"following", "register"} : Goes(q, "idle", to)
    BY <1>8 DEF Close
  <2> QED BY <1>3, <2>1
<1>9. ASSUME NEW q \in Peers, Closer(q) \/ TimeOut(q) PROVE Known
  <2>1. handler' = handler
    BY <1>9 DEF Closer, Follow, Register, RepliesReceived, CheckTransit, SendClose, RepliesSent,
                TakeVerdict, NoConnection, CloserRemoves, TimeOut
  <2>2. CASE Follow(q) \/ Register(q) \/ CheckTransit(q) \/ SendClose(q) \/ TakeVerdict(q)
    <3>1. \E from, to : /\ Goes(q, from, to)
                        /\ \/ to \notin {"check", "send", "sent", "await", "remove"}
                           \/ from \in {"check", "send", "sent", "await", "remove"}
      BY <2>2 DEF Follow, Register, CheckTransit, SendClose, TakeVerdict
    <3> QED BY <1>3, <2>1, <3>1
  <2>3. CASE RepliesSent(q) \/ NoConnection(q) \/ CloserRemoves(q) \/ TimeOut(q)
    <3>1. \E from, to : Goes(q, from, to) /\ from \in {"check", "send", "sent", "await", "remove"}
      BY <2>3 DEF RepliesSent, NoConnection, CloserRemoves, TimeOut
    <3> QED BY <1>3, <2>1, <3>1
  <2>4. CASE RepliesReceived(q)
    <3>1. AllReplies(q) /\ Goes(q, "replies", "check")
      BY <2>4 DEF RepliesReceived
    <3> QED BY <1>3, <2>1, <3>1
  <2> QED BY <1>9, <2>2, <2>3, <2>4 DEF Closer
<1>10. ASSUME NEW q \in Peers, Handler(q) PROVE Known
  <2>1. closer' = closer
    BY <1>10 DEF Handler, FindChannel, GetChannel, AcceptInTransit, TellCloser, AskHandlers, NotifyClose,
                 HandlerReplies, SendOk, HandlerRemoves
  <2>2. CASE FindChannel(q) \/ GetChannel(q) \/ TellCloser(q) \/ SendOk(q) \/ HandlerRemoves(q)
    <3>1. \/ \E to \in {"get", "lock", "idle", "crashed"} : \E from : Turns(q, from, to)
          \/ Turns(q, "reply", "remove")
      BY <2>2 DEF FindChannel, GetChannel, TellCloser, SendOk, HandlerRemoves
    <3> QED BY <1>4, <2>1, <3>1
  <2>3. CASE AcceptInTransit(q)
    <3>1. Turns(q, "lock", "transit")
      BY <2>3 DEF AcceptInTransit
    <3> QED BY <1>4, <1>5, <2>1, <2>3, <3>1
  <2>4. CASE AskHandlers(q)
    <3>1. PICK verdict \in Verdicts : Turns(q, "lock", CASE verdict = "accept" -> "replies"
                                                         [] verdict = "decline" -> "idle"
                                                         [] verdict = "notify" -> "notified")
      BY <2>4 DEF AskHandlers
    <3>2. verdict \in {"accept", "decline", "notify"}
      BY CloseAssumption DEF CloseAssumption
    <3>3. \E to \in {"replies", "idle", "notified"} : Turns(q, "lock", to)
      BY <3>1, <3>2
    <3> QED BY <1>4, <2>1, <3>3
  <2>5. ASSUME NEW close \in BOOLEAN, NotifyClose(q, close) PROVE Known
    <3>1. \E to \in {"replies", "idle"} : Turns(q, "notified", to)
      BY <2>5 DEF NotifyClose
    <3> QED BY <1>4, <2>1, <3>1
  <2>6. CASE HandlerReplies(q)
    <3>1. AllReplies(q) /\ Turns(q, "replies", "reply")
      BY <1>10, <2>6 DEF HandlerReplies, net
    <3>2. Settled(q) /\ being_closed[q]
      BY <3>1 DEF AllReplies, Settled, Turns, ClosingInv, Closing
    <3> QED BY <1>4, <2>1, <3>1, <3>2
  <2> QED BY <1>10, <2>2, <2>3, <2>4, <2>5, <2>6 DEF Handler
<1>11. ASSUME BreakConnection \/ Quiet \/ UNCHANGED vars PROVE Known
  BY <1>2, <1>11 DEF BreakConnection, Quiet, vars
<1>12. Known
  BY <1>6, <1>7, <1>8, <1>9, <1>10, <1>11 DEF Next
<1> QED BY <1>5, <1>12 DEF Known

\* Whoever asks, accepts or lets go has all its replies, at every step.
LEMMA DoneStep ==
    Shape /\ ClosingInv /\ FrameInv /\ ConsentInv /\ TallyInv /\ CountInv /\ DoneInv /\ [Next]_vars => DoneInv'
<1> SUFFICES ASSUME Shape, ClosingInv, FrameInv, ConsentInv, TallyInv, CountInv, DoneInv, [Next]_vars,
                    conn_ok', Regular', NEW p \in Peers, NEW o \in Peers, p # o
             PROVE  /\ Asking(p)' => Settled(p)'
                    /\ Accepting(p)' => Settled(p)'
                    /\ Taking(p)' => Settled(o)'
                    /\ \A f \in Going(p)' : Consents(f) => Settled(p)'
                    /\ HasOk(p)' => Settled(o)'
                    /\ Removing(p)' => Settled(o)'
                    /\ ~exists'[p] => Settled(p)' /\ Settled(o)' /\ being_closed'[p] /\ being_closed'[o]
  <2>1. \A r \in Peers : \E s \in Peers : r # s
    BY OtherFacts
  <2> QED BY <2>1 DEF DoneInv, Consents
<1>1. conn_ok /\ Regular /\ "late" \notin irregular /\ "late" \notin irregular'
  BY Monotone DEF Regular
<1>2. o = Other(p) /\ p = Other(o)
  BY OtherFacts
<1>3. /\ being_closed[p] /\ Settled(p) => Settled(p)' /\ being_closed'[p]
      /\ being_closed[o] /\ Settled(o) => Settled(o)' /\ being_closed'[o]
  BY SettledStep, Monotone
<1>4. /\ Asking(p) => Settled(p) /\ being_closed[p]
      /\ Accepting(p) => Settled(p) /\ being_closed[p]
      /\ Taking(p) => Settled(o) /\ being_closed[o]
      /\ \A f \in Going(p) : Consents(f) => Settled(p) /\ being_closed[p]
      /\ \A f \in Going(o) : Consents(f) => Settled(o) /\ being_closed[o]
      /\ HasOk(p) => Settled(o) /\ being_closed[o]
      /\ Removing(p) => Settled(o) /\ being_closed[o]
      /\ ~exists[p] => Settled(p) /\ Settled(o) /\ being_closed[p] /\ being_closed[o]
  <2>1. Asking(p) => Settled(p) /\ being_closed[p]
    BY <1>1 DEF DoneInv, Asking, ClosingInv, Closing
  <2>2. Accepting(p) => Settled(p) /\ being_closed[p]
    BY <1>1 DEF DoneInv, Accepting, ClosingInv, Closing
  <2>3. Taking(p) => Settled(o) /\ being_closed[o]
    BY <1>1, <1>2 DEF DoneInv, ConsentInv, Taking
  <2>4. \A f \in Going(p) : Consents(f) => Settled(p) /\ being_closed[p]
    BY <1>1 DEF DoneInv, FrameInv, Going
  <2>5. \A f \in Going(o) : Consents(f) => Settled(o) /\ being_closed[o]
    BY <1>1 DEF DoneInv, FrameInv, Going
  <2>6. HasOk(p) => Settled(o) /\ being_closed[o]
    BY <1>1, <1>2 DEF DoneInv, ConsentInv, HasOk
  <2>7. Removing(p) => Settled(o) /\ being_closed[o]
    BY <1>1, <1>2 DEF DoneInv, ConsentInv, Removing
  <2>8. ~exists[p] => Settled(p) /\ Settled(o) /\ being_closed[p] /\ being_closed[o]
    BY <1>1 DEF DoneInv
  <2> QED BY <2>1, <2>2, <2>3, <2>4, <2>5, <2>6, <2>7, <2>8
<1>5. /\ Asking(p)' => Asking(p) \/ (Settled(p) /\ being_closed[p])
      /\ Accepting(p)' => Accepting(p) \/ (Settled(p) /\ being_closed[p])
      /\ AcceptInTransit(p) => Settled(p) /\ being_closed[p]
  BY <1>1, WhoSettles
<1>6. Taking(p)' => Settled(o)'
  <2>1. Takes(p, "close") => Head(tcp[o]) \in Going(o) /\ Consents(Head(tcp[o]))
    BY <1>2, HeadGoing
  <2>2. Taking(p)' => Taking(p) \/ Takes(p, "close")
    BY Moving
  <2> QED BY <1>3, <1>4, <2>1, <2>2
<1>7. HasOk(p)' => Settled(o)'
  <2>1. Takes(p, "ok") => Head(tcp[o]) \in Going(o) /\ Consents(Head(tcp[o]))
    BY <1>2, HeadGoing
  <2>2. HasOk(p)' => HasOk(p) \/ Takes(p, "ok") \/ handler[p] = "transit"
    BY Moving
  <2>3. handler[p] = "transit" => Taking(p)
    BY DEF Taking
  <2> QED BY <1>3, <1>4, <2>1, <2>2, <2>3
<1>8. Removing(p)' => Settled(o)'
  <2>1. Removing(p)' => Removing(p) \/ HasOk(p)
    BY <1>1, Moving
  <2> QED BY <1>3, <1>4, <2>1
<1>9. ASSUME NEW f \in Going(p)', Consents(f) PROVE Settled(p)'
  <2>1. f \in Going(p) \/ Consenting(p)
    BY <1>9, FramesAdded
  <2>2. Consenting(p) => Asking(p) \/ Accepting(p) \/ AcceptInTransit(p)
    BY DEF Consenting, Asking, Accepting
  <2> QED BY <1>3, <1>4, <1>5, <1>9, <2>1, <2>2
<1>10. ASSUME ~exists'[p] PROVE Settled(p)' /\ Settled(o)' /\ being_closed'[p] /\ being_closed'[o]
  <2>1. CASE ~exists[p]
    BY <1>3, <1>4, <2>1
  <2>2. CASE exists[p]
    <3>1. closer[p] = "remove" \/ handler[p] = "remove"
      BY <1>10, <2>2, WhoRemoves
    <3>2. (Asking(p) /\ Removing(p)) \/ (Accepting(p) /\ Taking(p))
      BY <1>1, <3>1 DEF Asking, Removing, Accepting, Taking
    <3> QED BY <1>3, <1>4, <3>2
  <2> QED BY <2>1, <2>2
<1> QED BY <1>3, <1>4, <1>5, <1>6, <1>7, <1>8, <1>9, <1>10

\* A reader that finds no channel is told nothing of it.
LEMMA UnaccusedStep ==
    Shape /\ TallyInv /\ CountInv /\ DoneInv /\ Unaccused /\ [Next]_vars => Unaccused'
<1> SUFFICES ASSUME Shape, TallyInv, CountInv, DoneInv, Unaccused, [Next]_vars, accused', Regular' PROVE FALSE
  BY DEF Unaccused, Regular
<1>1. Regular /\ ~accused
  BY Monotone DEF Regular, Unaccused
<1>2. ASSUME NEW q \in Peers, NEW type \in {"MSG", "RPY", "ERR"}, RecvOnChannel(q, type) PROVE FALSE
  <2>1. Takes(q, type) /\ conn_ok /\ ~exists[q]
    BY <1>1, <1>2 DEF RecvOnChannel, Takes
  <2>2. PICK o \in Peers : o = Other(q) /\ o # q
    BY OtherFacts
  <2>3. Settled(q) /\ Settled(o)
    BY <1>1, <2>1, <2>2 DEF DoneInv
  <2>4. tcp[o] # <<>> => Head(tcp[o]).type \notin {"MSG", "RPY", "ERR"}
    BY <2>1, <2>2, <2>3, NothingLeft
  <2> QED BY <2>1, <2>2, <2>4 DEF Takes
<1>3. ASSUME NEW q \in Peers,
             \/ CheckOpen(q) \/ QueueMsg(q) \/ Answer(q) \/ Write0(q) \/ Write(q) \/ Close(q) \/ Closer(q)
             \/ TimeOut(q) \/ RecvClose(q) \/ \E type \in {"ok", "error"} : RecvVerdict(q, type)
      PROVE  FALSE
  BY <1>1, <1>3 DEF CheckOpen, QueueMsg, Answer, Write0, Write, Close, TimeOut, Closer, Follow, Register,
                    RepliesReceived, CheckTransit, SendClose, RepliesSent, TakeVerdict, NoConnection,
                    CloserRemoves, RecvClose, RecvVerdict, net
<1>4. ASSUME NEW q \in Peers, Handler(q) PROVE FALSE
  BY <1>1, <1>4 DEF Handler, FindChannel, GetChannel, AcceptInTransit, TellCloser, AskHandlers, NotifyClose,
                    HandlerReplies, SendOk, HandlerRemoves, net
<1>5. ASSUME BreakConnection \/ Quiet \/ UNCHANGED vars PROVE FALSE
  BY <1>1, <1>5 DEF BreakConnection, Quiet, vars, net
<1> QED BY <1>2, <1>3, <1>4, <1>5 DEF Next, Recv

-----------------------------------------------------------------------------

IInv == /\ Shape /\ ClosingInv /\ FrameInv /\ ConsentInv
        /\ TallyInv /\ CountInv /\ DoneInv /\ Unaccused

\* The invariant holds at the start: nobody closes and nothing is on its way.
LEMMA InvariantStart == Init => IInv
<1> SUFFICES ASSUME Init PROVE IInv
  OBVIOUS
<1>1. \A S : <<>> \in Seq(S)
  BY EmptySeq
<1>2. Shape
  BY <1>1 DEF Init, Shape
<1>3. \A p \in Peers : /\ closer[p] = "idle" /\ handler[p] = "idle" /\ wait_queue[p] = <<>>
                       /\ pending0[p] = <<>> /\ pending[p] = <<>> /\ tcp[p] = <<>>
                       /\ outstanding[p] = 0 /\ sent[p] = 0 /\ received[p] = 0 /\ answered[p] = 0
                       /\ exists[p]
  BY DEF Init
<1>4. ClosingInv
  BY <1>3 DEF ClosingInv, Closing
<1>5. FrameInv
  BY <1>3, EmptyRange DEF FrameInv
<1>6. ConsentInv
  BY <1>3, EmptyRange DEF ConsentInv
<1>7. TallyInv
  BY DEF Init, TallyInv
<1>8. CountInv
  <2>1. 0 \in Nat /\ 0 - 0 = 0
    OBVIOUS
  <2>2. \A T : OnTheWay(<<>>, <<>>, T, 0, 0)
    BY <2>1, NumberedEmpty DEF OnTheWay
  <2> QED BY <1>3, <2>1, <2>2 DEF CountInv, Counts
<1>9. DoneInv
  BY <1>3 DEF DoneInv, Settled
<1>10. Unaccused
  BY DEF Init, Unaccused
<1> QED BY <1>2, <1>4, <1>5, <1>6, <1>7, <1>8, <1>9, <1>10 DEF IInv

\* ... and every step keeps it.
LEMMA InvariantStep == IInv /\ [Next]_vars => IInv'
BY ShapeStep, ClosingStep, FrameStep, ConsentStep, CountStep, DoneStep, UnaccusedStep DEF IInv

\* It holds throughout.
LEMMA Invariant == Spec => []IInv
BY InvariantStart, InvariantStep, PTL DEF Spec

\* While the connection works a peer lets a channel go only when the other one is
\* closing it too, or when it gave up waiting for the answer to its own close: neither
\* vortex_channel_close nor __vortex_channel_0_frame_received_close_msg drops a
\* channel the other side did not agree to drop.
THEOREM Consent == Spec => RemovedByConsent
<1>1. ASSUME IInv, [Next]_vars, NEW p \in Peers, exists[p], ~exists'[p], conn_ok, "late" \notin irregular
      PROVE  being_closed[Other(p)]
  <2>1. closer[p] = "remove" \/ handler[p] = "remove"
    BY <1>1, WhoRemoves DEF IInv
  <2> QED BY <1>1, <2>1 DEF IInv, ConsentInv
<1>2. IInv /\ [Next]_vars =>
        [\A p \in Peers :
            exists[p] /\ ~exists'[p] /\ conn_ok /\ "late" \notin irregular => being_closed[Other(p)]]_vars
  BY <1>1
<1> QED BY Invariant, <1>2, PTL DEF Spec, RemovedByConsent

\* A peer that lets a channel go while the connection works has every message it sent
\* answered, has answered every message it got, and has nothing of it queued: the wait
\* for the replies in __vortex_channel_close and the ok sent before the channel is removed
\* leave nothing behind, unless a message slipped past being_closed, a close was
\* accepted in transit too early, or somebody gave up waiting.
THEOREM AllAnswered == Spec => AnsweredFirst
<1>1. ASSUME IInv, [Next]_vars, NEW p \in Peers, exists[p], ~exists'[p], conn_ok, Regular
      PROVE  outstanding[p] = 0 /\ answered[p] = received[p] /\ pending[p] = <<>>
  <2>1. PICK o \in Peers : p # o
    BY OtherFacts
  <2>2. closer[p] = "remove" \/ handler[p] = "remove"
    BY <1>1, WhoRemoves DEF IInv
  <2>3. (Asking(p) /\ Removing(p)) \/ (Accepting(p) /\ Taking(p))
    BY <1>1, <2>2 DEF Asking, Removing, Accepting, Taking
  <2>4. Settled(p) /\ Settled(o)
    BY <1>1, <2>1, <2>3 DEF IInv, DoneInv
  <2> QED BY <1>1, <2>1, <2>4, NothingLeft DEF IInv, Settled
<1>2. IInv /\ [Next]_vars =>
        [\A p \in Peers :
            /\ exists[p] /\ ~exists'[p] /\ conn_ok
            /\ irregular \cap {"slipped", "early", "late"} = {}
            => outstanding[p] = 0 /\ answered[p] = received[p] /\ pending[p] = <<>>]_vars
  BY <1>1 DEF Regular
<1> QED BY Invariant, <1>2, PTL DEF Spec, AnsweredFirst

\* No reader finds a frame for a channel it does not have, and shuts the connection down
\* (vortex_reader.c), with the same exceptions.
THEOREM NobodyAccused == Spec => []Unaccused
BY Invariant, PTL DEF IInv

-----------------------------------------------------------------------------
(* The bounds of TypeOK *)

BoundInv ==
    /\ closes \in [Peers -> 0 .. MaxCloses] /\ sender \in [Peers -> {"idle", "checked"}]
    /\ sent \in [Peers -> 0 .. MaxMessages] /\ received \in [Peers -> 0 .. MaxMessages]
    /\ written \in [Peers -> 0 .. MaxMessages]
    /\ pending \in [Peers -> Seq(Frames)] /\ tcp \in [Peers -> Seq(Frames0 \cup Frames)]
    /\ conn_ok \in BOOLEAN /\ accused \in BOOLEAN /\ irregular \subseteq Events
    /\ \A p \in Peers : answered[p] <= received[p]
    /\ \A p \in Peers : sender[p] = "checked" => sent[p] < MaxMessages

\* A message taken from the connection is one of those sent, and a bound of TypeOK is
\* reached by nobody.
LEMMA BoundStep == Shape /\ TallyInv /\ CountInv /\ BoundInv /\ [Next]_vars => BoundInv'
<1> SUFFICES ASSUME Shape, TallyInv, CountInv, BoundInv, [Next]_vars PROVE BoundInv'
  OBVIOUS
<1>m. MaxMessages \in Nat /\ MaxCloses \in Nat
  BY CloseAssumption DEF CloseAssumption
<1>b. /\ closes \in [Peers -> 0 .. MaxCloses] /\ sender \in [Peers -> {"idle", "checked"}]
      /\ sent \in [Peers -> 0 .. MaxMessages] /\ received \in [Peers -> 0 .. MaxMessages]
      /\ written \in [Peers -> 0 .. MaxMessages]
      /\ pending \in [Peers -> Seq(Frames)] /\ tcp \in [Peers -> Seq(Frames0 \cup Frames)]
      /\ conn_ok \in BOOLEAN /\ accused \in BOOLEAN /\ irregular \subseteq Events
      /\ \A p \in Peers : answered[p] <= received[p]
      /\ \A p \in Peers : sender[p] = "checked" => sent[p] < MaxMessages
  BY DEF BoundInv
<1>a. answered \in [Peers -> Nat] /\ outstanding \in [Peers -> Nat]
  BY DEF Shape, TallyInv
<1>1. ASSUME NEW q \in Peers, CheckOpen(q) PROVE BoundInv'
  <2>1. /\ sent[q] < MaxMessages /\ sender' = [sender EXCEPT ![q] = "checked"]
        /\ UNCHANGED <<closes, sent, received, answered, written, pending, tcp, conn_ok, accused, irregular>>
    BY <1>1 DEF CheckOpen, counters, queues, net
  <2> QED BY <1>b, <2>1 DEF BoundInv
<1>2. ASSUME NEW q \in Peers, QueueMsg(q) PROVE BoundInv'
  <2> DEFINE x == [type |-> "MSG", no |-> sent[q] + 1]
  <2>1. /\ sender[q] = "checked" /\ sender' = [sender EXCEPT ![q] = "idle"]
        /\ sent' = [sent EXCEPT ![q] = @ + 1] /\ pending' = [pending EXCEPT ![q] = Append(@, x)]
        /\ irregular' \subseteq irregular \cup {"slipped"}
        /\ UNCHANGED <<closes, received, answered, written, tcp, conn_ok, accused>>
    BY <1>2 DEF QueueMsg, Queue, Happened, net
  <2>2. sent[q] + 1 \in 1 .. MaxMessages
    BY <1>m, <1>b, <2>1
  <2>3. x \in Frames
    BY <2>2 DEF Frames
  <2> HIDE DEF x
  <2>4. pending' \in [Peers -> Seq(Frames)]
    BY <1>b, <2>1, <2>3, AppendRange
  <2>5. sent' \in [Peers -> 0 .. MaxMessages]
    BY <1>m, <1>b, <2>1, <2>2
  <2>6. sender' \in [Peers -> {"idle", "checked"}] /\ \A p \in Peers : sender'[p] = "checked" => sent'[p] < MaxMessages
    BY <1>b, <2>1
  <2>7. irregular' \subseteq Events
    BY <1>b, <2>1 DEF Events
  <2> QED BY <1>b, <2>1, <2>4, <2>5, <2>6, <2>7 DEF BoundInv
<1>3. ASSUME NEW q \in Peers, Answer(q) PROVE BoundInv'
  <2>1. PICK type \in {"RPY", "ERR"} : Queue(q, type, answered[q] + 1)
    BY <1>3 DEF Answer
  <2> DEFINE x == [type |-> type, no |-> answered[q] + 1]
  <2>2. /\ answered' = [answered EXCEPT ![q] = @ + 1] /\ answered[q] < received[q]
        /\ pending' = [pending EXCEPT ![q] = Append(@, x)]
        /\ UNCHANGED <<closes, sender, sent, received, written, tcp, conn_ok, accused, irregular>>
    BY <1>3, <2>1 DEF Answer, Queue, net
  <2>3. answered[q] + 1 \in 1 .. MaxMessages
    BY <1>m, <1>a, <1>b, <2>2
  <2>4. x \in Frames
    BY <2>3 DEF Frames
  <2> HIDE DEF x
  <2>5. pending' \in [Peers -> Seq(Frames)]
    BY <1>b, <2>2, <2>4, AppendRange
  <2>6. \A p \in Peers : answered'[p] <= received'[p]
    BY <1>a, <1>b, <2>2
  <2> QED BY <1>b, <2>2, <2>5, <2>6 DEF BoundInv
<1>4. ASSUME NEW q \in Peers, Write0(q) PROVE BoundInv'
  <2>1. /\ pending0[q] # <<>> /\ tcp' = [tcp EXCEPT ![q] = Append(@, Head(pending0[q]))]
        /\ UNCHANGED <<closes, sender, sent, received, answered, written, pending, conn_ok, accused, irregular>>
    BY <1>4 DEF Write0, counters
  <2>2. Head(pending0[q]) \in Frames0 \cup Frames
    BY <2>1, TailRange DEF Shape
  <2>3. Append(tcp[q], Head(pending0[q])) \in Seq(Frames0 \cup Frames)
    BY <1>b, <2>2, AppendRange
  <2>4. tcp' \in [Peers -> Seq(Frames0 \cup Frames)]
    BY <1>b, <2>1, <2>3
  <2> QED BY <1>b, <2>1, <2>4 DEF BoundInv
<1>5. ASSUME NEW q \in Peers, Write(q) PROVE BoundInv'
  <2> DEFINE x == Head(pending[q])
  <2>1. /\ pending[q] # <<>> /\ tcp' = [tcp EXCEPT ![q] = Append(@, x)]
        /\ pending' = [pending EXCEPT ![q] = Tail(@)]
        /\ written' = [written EXCEPT ![q] = IF x.type = "RPY" THEN x.no ELSE @]
        /\ irregular' \subseteq irregular \cup {"failed"}
        /\ UNCHANGED <<closes, sender, sent, received, answered, conn_ok, accused>>
    BY <1>5 DEF Write, Happened
  <2>2. x \in Frames /\ Tail(pending[q]) \in Seq(Frames)
    BY <1>b, <2>1, TailRange
  <2> HIDE DEF x
  <2>3. x \in Frames0 \cup Frames /\ x.no \in 0 .. MaxMessages
    BY <2>2 DEF Frames
  <2>4. Append(tcp[q], x) \in Seq(Frames0 \cup Frames)
    BY <1>b, <2>3, AppendRange
  <2>5. tcp' \in [Peers -> Seq(Frames0 \cup Frames)] /\ pending' \in [Peers -> Seq(Frames)]
    BY <1>b, <2>1, <2>2, <2>4
  <2>6. written' \in [Peers -> 0 .. MaxMessages]
    BY <1>b, <2>1, <2>3
  <2>7. irregular' \subseteq Events
    BY <1>b, <2>1 DEF Events
  <2> QED BY <1>b, <2>1, <2>5, <2>6, <2>7 DEF BoundInv
<1>6. ASSUME NEW q \in Peers, NEW type, Takes(q, type) PROVE tcp' \in [Peers -> Seq(Frames0 \cup Frames)] /\ conn_ok
  <2>1. Other(q) \in Peers
    BY OtherFacts
  <2>2. Tail(tcp[Other(q)]) \in Seq(Frames0 \cup Frames)
    BY <1>b, <1>6, <2>1, TailRange DEF Takes
  <2> QED BY <1>b, <1>6, <2>2 DEF Takes
<1>7. ASSUME NEW q \in Peers, NEW type \in {"MSG", "RPY", "ERR"}, RecvOnChannel(q, type) PROVE BoundInv'
  <2>1. /\ Takes(q, type) /\ conn_ok' \in BOOLEAN /\ accused' \in BOOLEAN
        /\ UNCHANGED <<closes, sender, sent, answered, written, pending, irregular>>
        /\ received' = received \/ (type = "MSG" /\ received' = [received EXCEPT ![q] = @ + 1])
    BY <1>b, <1>7 DEF RecvOnChannel, counters, queues
  <2>2. CASE received' = received
    BY <1>b, <1>6, <2>1, <2>2 DEF BoundInv
  <2>3. CASE type = "MSG" /\ received' = [received EXCEPT ![q] = @ + 1]
    <3>1. PICK o \in Peers : o = Other(q) /\ o # q
      BY OtherFacts
    <3>2. tcp[o] # <<>> /\ Head(tcp[o]).type \in {"MSG"} /\ conn_ok
      BY <2>1, <2>3, <3>1 DEF Takes
    <3>3. tcp[o] \in Seq(AnyFrame) /\ received[q] \in Nat /\ sent[o] \in Nat
      BY <1>b, <1>m DEF Shape, AnyFrame
    <3>4. OnTheWay(tcp[o], pending[o], {"MSG"}, received[q], sent[o])
      BY <3>1, <3>2 DEF CountInv, Counts
    <3>5. received[q] < sent[o]
      BY <3>2, <3>3, <3>4, WayTake
    <3>6. received[q] + 1 \in 0 .. MaxMessages
      BY <1>m, <1>b, <3>5
    <3>7. received' \in [Peers -> 0 .. MaxMessages]
      BY <1>b, <2>3, <3>6
    <3>8. \A p \in Peers : answered'[p] <= received'[p]
      BY <1>a, <1>b, <2>1, <2>3
    <3>9. tcp' \in [Peers -> Seq(Frames0 \cup Frames)]
      BY <1>6, <2>1
    <3> QED BY <1>b, <2>1, <3>7, <3>8, <3>9 DEF BoundInv
  <2> QED BY <2>1, <2>2, <2>3
<1>8. ASSUME NEW q \in Peers, RecvClose(q) \/ (\E type \in {"ok", "error"} : RecvVerdict(q, type)) PROVE BoundInv'
  <2>1. /\ \E type : Takes(q, type)
        /\ UNCHANGED <<closes, sender, sent, received, answered, written, pending, conn_ok, accused, irregular>>
    BY <1>8 DEF RecvClose, RecvVerdict, counters, queues
  <2> QED BY <1>b, <1>6, <2>1 DEF BoundInv
<1>9. ASSUME UNCHANGED <<sender, sent, received, answered, written, pending, tcp, accused>>,
             closes' \in [Peers -> 0 .. MaxCloses], conn_ok' \in BOOLEAN, irregular' \subseteq Events
      PROVE  BoundInv'
  BY <1>b, <1>9 DEF BoundInv
<1>10. ASSUME NEW q \in Peers, Close(q) PROVE BoundInv'
  <2>1. closes' \in [Peers -> 0 .. MaxCloses]
    BY <1>m, <1>b, <1>10 DEF Close
  <2> QED BY <1>b, <1>9, <1>10, <2>1 DEF Close, counters, queues, net
<1>11. ASSUME NEW q \in Peers, Closer(q) \/ TimeOut(q) PROVE BoundInv'
  <2>1. UNCHANGED <<sender, sent, received, answered, written, pending, tcp, accused, closes, conn_ok>>
    BY <1>11 DEF TimeOut, Closer, Follow, Register, RepliesReceived, CheckTransit, SendClose, RepliesSent,
                 TakeVerdict, NoConnection, CloserRemoves, counters, queues, net
  <2>2. irregular' \subseteq irregular \cup {"late"}
    BY <1>11 DEF TimeOut, Closer, Follow, Register, RepliesReceived, CheckTransit, SendClose, RepliesSent,
                 TakeVerdict, NoConnection, CloserRemoves, Happened
  <2>3. irregular' \subseteq Events
    BY <1>b, <2>2 DEF Events
  <2> QED BY <1>b, <1>9, <2>1, <2>3
<1>12. ASSUME NEW q \in Peers, Handler(q) PROVE BoundInv'
  <2>1. UNCHANGED <<sender, sent, received, answered, written, pending, tcp, accused, closes>>
    BY <1>12 DEF Handler, FindChannel, GetChannel, AcceptInTransit, TellCloser, AskHandlers, NotifyClose,
                 HandlerReplies, SendOk, HandlerRemoves, counters, queues, net
  <2>2. irregular' \subseteq irregular \cup {"gone", "early", "declined"}
    BY <1>12 DEF Handler, FindChannel, GetChannel, AcceptInTransit, TellCloser, AskHandlers, NotifyClose,
                 HandlerReplies, SendOk, HandlerRemoves, Happened
  <2>3. irregular' \subseteq Events
    BY <1>b, <2>2 DEF Events
  <2>4. conn_ok' = conn_ok \/ conn_ok' = Found(q)
    BY <1>12 DEF Handler, FindChannel, GetChannel, AcceptInTransit, TellCloser, AskHandlers, NotifyClose,
                 HandlerReplies, SendOk, HandlerRemoves, net
  <2>5. Found(q) \in BOOLEAN
    BY DEF Found
  <2> QED BY <1>b, <1>9, <2>1, <2>3, <2>4, <2>5
<1>13. CASE BreakConnection \/ Quiet \/ UNCHANGED vars
  <2>1. /\ UNCHANGED <<sender, sent, received, answered, written, pending, tcp, accused, closes, irregular>>
        /\ conn_ok' = conn_ok \/ conn_ok' = FALSE
    BY <1>13 DEF BreakConnection, Quiet, vars, counters, queues, net
  <2> QED BY <1>b, <1>9, <2>1
<1> QED BY <1>1, <1>2, <1>3, <1>4, <1>5, <1>7, <1>8, <1>10, <1>11, <1>12, <1>13 DEF Next, Recv

\* Every variable of the closing has the shape of the field, queue or place it stands for.
THEOREM Types == Spec => []TypeOK
<1>1. Init => BoundInv
  <2> SUFFICES ASSUME Init PROVE BoundInv
    OBVIOUS
  <2>1. \A S : <<>> \in Seq(S)
    BY EmptySeq
  <2>2. MaxMessages \in Nat /\ MaxCloses \in Nat
    BY CloseAssumption DEF CloseAssumption
  <2>3. /\ pending \in [Peers -> Seq(Frames)] /\ tcp \in [Peers -> Seq(Frames0 \cup Frames)]
        /\ sender \in [Peers -> {"idle", "checked"}]
        /\ \A p \in Peers : answered[p] <= received[p] /\ sender[p] # "checked"
    BY <2>1 DEF Init
  <2>4. /\ closes \in [Peers -> 0 .. MaxCloses] /\ sent \in [Peers -> 0 .. MaxMessages]
        /\ received \in [Peers -> 0 .. MaxMessages] /\ written \in [Peers -> 0 .. MaxMessages]
    BY <2>2 DEF Init
  <2>5. conn_ok \in BOOLEAN /\ accused \in BOOLEAN /\ irregular \subseteq Events
    BY DEF Init
  <2> QED BY <2>3, <2>4, <2>5 DEF BoundInv
<1>2. IInv /\ BoundInv /\ [Next]_vars => BoundInv'
  BY BoundStep DEF IInv
<1>3. IInv /\ BoundInv => TypeOK
  <2> SUFFICES ASSUME IInv, BoundInv PROVE TypeOK
    OBVIOUS
  <2>1. MaxMessages \in Nat
    BY CloseAssumption DEF CloseAssumption
  <2>2. Shape /\ TallyInv
    BY DEF IInv
  <2>3. answered \in [Peers -> 0 .. MaxMessages] /\ outstanding \in [Peers -> 0 .. MaxMessages]
    BY <2>1, <2>2 DEF Shape, TallyInv, BoundInv
  <2> QED BY <2>2, <2>3 DEF TypeOK, Shape, BoundInv
<1> QED BY Invariant, <1>1, <1>2, <1>3, PTL DEF Spec

-----------------------------------------------------------------------------
(* Agreement: a peer that is asked, or has agreed, follows *)

\* No close was refused.
Friendly == conn_ok /\ irregular \cap {"declined", "gone"} = {}

\* There is a frame of the type in q, and at most one close.
Has(q, type) == Placed(q, {type}) # {}
AtMostOne(q) == \A i, j \in Placed(q, {"close"}) : i = j

\* A close of p is on its way; there is at most one, and nobody said no.
Asks(p) == Has(pending0[p], "close") \/ Has(tcp[p], "close")
Once(p) ==
    /\ AtMostOne(pending0[p]) /\ AtMostOne(tcp[p])
    /\ ~(Has(pending0[p], "close") /\ Has(tcp[p], "close"))
NoErrors(p) ==
    /\ ~Has(pending0[p], "error") /\ ~Has(tcp[p], "error")
    /\ \A answer \in Range(wait_queue[p]) : answer = "ok"

\* p has not asked yet, though it may be about to.
Unasked(p) ==
    \/ closer[p] \in {"register", "replies", "check", "send"}
    \/ closer[p] \in {"idle", "following"} /\ exists[p]

AskInv ==
    Friendly => \A p, o \in Peers : p # o =>
        /\ being_closed[p] /\ exists[p] =>
              closer[p] # "idle" \/ handler[p] \in {"replies", "reply", "remove"}
        /\ closer[p] \in {"sent", "await", "remove"} \/ ~exists[p] =>
              being_closed[o] \/ handler[o] # "idle" \/ Asks(p)
        /\ Unasked(p) => handler[o] = "idle" /\ ~Asks(p)
        /\ Asks(p) => handler[o] = "idle"
        /\ handler[p] # "crashed"
        /\ Once(p) /\ NoErrors(p)

\* A frame is put at the end of a queue ...
LEMMA HasAppend ==
    ASSUME NEW S, NEW q \in Seq(S), NEW x \in S
    PROVE  /\ \A type : Has(Append(q, x), type) <=> Has(q, type) \/ x.type = type
           /\ AtMostOne(q) /\ ~(x.type = "close" /\ Has(q, "close")) => AtMostOne(Append(q, x))
<1> DEFINE r == Append(q, x)
<1>1. ASSUME NEW type
      PROVE  /\ \A i \in Placed(q, {type}) : i \in Placed(r, {type})
             /\ \A i \in Placed(r, {type}) : i \in Placed(q, {type}) \/ (i = Len(q) + 1 /\ x.type = type)
             /\ x.type = type => Len(q) + 1 \in Placed(r, {type})
  BY AppendPlaces
<1> HIDE DEF r
<1>2. \A type : Has(r, type) <=> Has(q, type) \/ x.type = type
  BY <1>1 DEF Has
<1>3. ASSUME AtMostOne(q), ~(x.type = "close" /\ Has(q, "close")) PROVE AtMostOne(r)
  BY <1>1, <1>3 DEF AtMostOne, Has
<1> QED BY <1>2, <1>3 DEF r

\* ... and the first is taken.
LEMMA HasTail ==
    ASSUME NEW S, NEW q \in Seq(S), q # <<>>
    PROVE  /\ \A type : Has(q, type) <=> Has(Tail(q), type) \/ Head(q).type = type
           /\ AtMostOne(q) => /\ AtMostOne(Tail(q))
                              /\ ~(Head(q).type = "close" /\ Has(Tail(q), "close"))
<1> DEFINE r == Tail(q)
<1>1. ASSUME NEW type
      PROVE  /\ \A i \in Placed(q, {type}) : i \in Nat \ {0}
             /\ 1 \in Placed(q, {type}) <=> Head(q).type = type
             /\ \A i \in Placed(q, {type}) : i # 1 => i - 1 \in Placed(r, {type})
             /\ \A i \in Placed(r, {type}) : i \in Nat \ {0} /\ i + 1 \in Placed(q, {type})
  BY TailPlaces
<1> HIDE DEF r
<1>2. \A type : Has(q, type) <=> Has(r, type) \/ Head(q).type = type
  BY <1>1 DEF Has
<1>3. ASSUME AtMostOne(q), NEW i \in Placed(r, {"close"}), NEW j \in Placed(r, {"close"}) PROVE i = j
  <2>1. i + 1 = j + 1 /\ i \in Nat /\ j \in Nat
    BY <1>1, <1>3 DEF AtMostOne
  <2> QED BY <2>1
<1>4. ASSUME AtMostOne(q), Head(q).type = "close", NEW i \in Placed(r, {"close"}) PROVE FALSE
  <2>1. i + 1 = 1 /\ i \in Nat \ {0}
    BY <1>1, <1>4 DEF AtMostOne
  <2> QED BY <2>1
<1>5. AtMostOne(q) => AtMostOne(r)
  BY <1>3 DEF AtMostOne
<1>6. AtMostOne(q) => ~(Head(q).type = "close" /\ Has(r, "close"))
  BY <1>4 DEF Has
<1> QED BY <1>2, <1>5, <1>6 DEF r

\* What a step does to the frames on their way from p: nothing, one more of channel 0,
\* one written, or one taken.
LEMMA FramesMove ==
    ASSUME Shape, [Next]_vars, NEW p \in Peers, NEW o \in Peers, p # o
    PROVE  \/ pending0'[p] = pending0[p] /\ tcp'[p] = tcp[p]
           \/ \E type \in {"close", "ok", "error"} :
                 /\ Queue0(p, type) /\ tcp'[p] = tcp[p]
                 /\ type = "close" => SendClose(p)
                 /\ type = "error" => ~Friendly'
           \/ Write0(p) \/ Write(p)
           \/ \E type : /\ Takes(o, type) /\ pending0'[p] = pending0[p]
                        /\ type = "close" => RecvClose(o)
                        /\ type # "close" => ~RecvClose(o)
<1> DEFINE Moves ==
           \/ pending0'[p] = pending0[p] /\ tcp'[p] = tcp[p]
           \/ \E type \in {"close", "ok", "error"} :
                 /\ Queue0(p, type) /\ tcp'[p] = tcp[p]
                 /\ type = "close" => SendClose(p)
                 /\ type = "error" => ~Friendly'
           \/ Write0(p) \/ Write(p)
           \/ \E type : /\ Takes(o, type) /\ pending0'[p] = pending0[p]
                        /\ type = "close" => RecvClose(o)
                        /\ type # "close" => ~RecvClose(o)
<1> SUFFICES Moves
  OBVIOUS
<1>o. o = Other(p) /\ p = Other(o)
  BY OtherFacts
<1> HIDE DEF Moves
<1>1. ASSUME pending0'[p] = pending0[p], tcp'[p] = tcp[p] PROVE Moves
  BY <1>1 DEF Moves
<1>2. ASSUME UNCHANGED <<pending0, tcp>> PROVE Moves
  BY <1>1, <1>2
<1>3. ASSUME NEW q \in Peers, NEW type \in {"close", "ok", "error"}, Queue0(q, type), tcp' = tcp,
             type = "close" => SendClose(q), type = "error" => ~Friendly'
      PROVE  Moves
  <2>1. CASE q = p
    BY <1>3, <2>1 DEF Moves
  <2>2. CASE q # p
    BY <1>1, <1>3, <2>2 DEF Queue0, Shape
  <2> QED BY <2>1, <2>2
<1>4. ASSUME NEW q \in Peers, Write0(q) PROVE Moves
  <2>1. CASE q = p
    BY <1>4, <2>1 DEF Moves
  <2>2. CASE q # p
    BY <1>1, <1>4, <2>2 DEF Write0, Shape
  <2> QED BY <2>1, <2>2
<1>5. ASSUME NEW q \in Peers, Write(q) PROVE Moves
  <2>1. CASE q = p
    BY <1>5, <2>1 DEF Moves
  <2>2. CASE q # p
    BY <1>1, <1>5, <2>2 DEF Write, Shape
  <2> QED BY <2>1, <2>2
<1>6. ASSUME NEW q \in Peers, NEW type, Takes(q, type), pending0' = pending0,
             type = "close" => RecvClose(q), type # "close" => ~RecvClose(q)
      PROVE  Moves
  <2>1. CASE q = o
    BY <1>6, <2>1 DEF Moves
  <2>2. CASE q # o
    <3>1. q = p
      BY <1>o, <2>2, OtherFacts
    <3>2. tcp'[p] = tcp[p]
      BY <1>6, <1>o, <3>1 DEF Takes, Shape
    <3> QED BY <1>1, <1>6, <3>2
  <2> QED BY <2>1, <2>2
<1>7. ASSUME NEW q \in Peers, Recv(q) PROVE Moves
  <2>1. CASE RecvClose(q)
    BY <1>6, <2>1 DEF RecvClose, queues
  <2>2. ASSUME NEW type \in {"MSG", "RPY", "ERR"}, RecvOnChannel(q, type) PROVE Moves
    <3>1. Takes(q, type) /\ pending0' = pending0 /\ ~RecvClose(q)
      BY <2>2 DEF RecvOnChannel, RecvClose, Takes, queues
    <3> QED BY <1>6, <3>1
  <2>3. ASSUME NEW type \in {"ok", "error"}, RecvVerdict(q, type) PROVE Moves
    <3>1. Takes(q, type) /\ pending0' = pending0 /\ ~RecvClose(q)
      BY <2>3 DEF RecvVerdict, RecvClose, Takes, queues
    <3> QED BY <1>6, <3>1
  <2> QED BY <1>7, <2>1, <2>2, <2>3 DEF Recv
<1>8. ASSUME NEW q \in Peers, SendClose(q) PROVE Moves
  BY <1>2, <1>3, <1>8 DEF SendClose, net
<1>9. ASSUME NEW q \in Peers, AcceptInTransit(q) \/ SendOk(q) PROVE Moves
  BY <1>2, <1>3, <1>9 DEF SendOk, AcceptInTransit, net
<1>10. ASSUME NEW q \in Peers, FindChannel(q) \/ AskHandlers(q) \/ \E close \in BOOLEAN : NotifyClose(q, close)
       PROVE  Moves
  <2>1. tcp' = tcp /\ (UNCHANGED pending0 \/ (Queue0(q, "error") /\ irregular' \cap {"declined", "gone"} # {}))
    BY <1>10 DEF FindChannel, AskHandlers, NotifyClose, Happened, net
  <2> QED BY <1>2, <1>3, <2>1 DEF Friendly
<1>11. ASSUME NEW q \in Peers, \/ CheckOpen(q) \/ QueueMsg(q) \/ Answer(q) \/ Close(q) \/ TimeOut(q)
                               \/ Follow(q) \/ Register(q) \/ RepliesReceived(q) \/ CheckTransit(q)
                               \/ RepliesSent(q) \/ TakeVerdict(q) \/ NoConnection(q) \/ CloserRemoves(q)
       PROVE  Moves
  <2>1. UNCHANGED <<pending0, tcp>>
    BY <1>11 DEF CheckOpen, QueueMsg, Answer, Close, TimeOut, Follow, Register, RepliesReceived, CheckTransit,
                 RepliesSent, TakeVerdict, NoConnection, CloserRemoves, queues, net
  <2> QED BY <1>2, <2>1
<1>12. ASSUME NEW q \in Peers, GetChannel(q) \/ TellCloser(q) \/ HandlerReplies(q) \/ HandlerRemoves(q)
       PROVE  Moves
  <2>1. UNCHANGED <<pending0, tcp>>
    BY <1>12 DEF GetChannel, TellCloser, HandlerReplies, HandlerRemoves, queues, net
  <2> QED BY <1>2, <2>1
<1>13. ASSUME BreakConnection \/ Quiet \/ UNCHANGED vars PROVE Moves
  <2>1. UNCHANGED <<pending0, tcp>>
    BY <1>13 DEF BreakConnection, Quiet, vars, queues, net
  <2> QED BY <1>2, <2>1
<1> QED BY <1>4, <1>5, <1>7, <1>8, <1>9, <1>10, <1>11, <1>12, <1>13 DEF Next, Closer, Handler

\* A close goes its way once, and arrives; nobody says no.
LEMMA AskGoes ==
    ASSUME Shape, [Next]_vars, NEW p \in Peers, NEW o \in Peers, p # o, Friendly',
           Once(p), NoErrors(p), closer[p] = "send" => ~Asks(p)
    PROVE  /\ Once(p)'
           /\ ~Has(pending0'[p], "error") /\ ~Has(tcp'[p], "error")
           /\ Asks(p)' => Asks(p) \/ SendClose(p)
           /\ Asks(p) => Asks(p)' \/ RecvClose(o)
           /\ RecvClose(o) => Asks(p) /\ ~Asks(p)'
<1>s. tcp[p] \in Seq(AnyFrame) /\ pending[p] \in Seq(ChannelFrames) /\ pending0[p] \in Seq(Frames0)
  BY DEF Shape, AnyFrame
<1>o. o = Other(p)
  BY OtherFacts
<1>c. /\ AtMostOne(pending0[p]) /\ AtMostOne(tcp[p])
      /\ ~(Has(pending0[p], "close") /\ Has(tcp[p], "close"))
      /\ ~Has(pending0[p], "error") /\ ~Has(tcp[p], "error")
  BY DEF Once, NoErrors
<1> DEFINE u == pending0'[p]
           v == tcp'[p]
           Goal == /\ AtMostOne(u) /\ AtMostOne(v) /\ ~(Has(u, "close") /\ Has(v, "close"))
                   /\ ~Has(u, "error") /\ ~Has(v, "error")
                   /\ Has(u, "close") \/ Has(v, "close") => Asks(p) \/ SendClose(p)
                   /\ Asks(p) => Has(u, "close") \/ Has(v, "close") \/ RecvClose(o)
<1>1. ASSUME u = pending0[p], v = tcp[p] PROVE Goal
  BY <1>1, <1>c DEF Asks
<1>2. ASSUME NEW type \in {"close", "ok", "error"}, Queue0(p, type), v = tcp[p],
             type = "close" => SendClose(p), type = "error" => ~Friendly'
      PROVE  Goal
  <2> DEFINE x == [type |-> type, no |-> 0]
  <2>1. x \in Frames0 /\ x.type = type
    BY DEF Frames0
  <2>2. u = Append(pending0[p], x)
    BY <1>2 DEF Queue0, Shape
  <2> HIDE DEF x, u, v
  <2>3. type = "close" => SendClose(p) /\ ~Asks(p)
    BY <1>2 DEF SendClose, Goes
  <2>4. type # "error"
    BY <1>2
  <2>5. /\ \A t : Has(u, t) <=> Has(pending0[p], t) \/ type = t
        /\ ~(type = "close" /\ Has(pending0[p], "close")) => AtMostOne(u)
    BY <1>s, <1>c, <2>1, <2>2, HasAppend
  <2> QED BY <1>2, <1>c, <2>3, <2>4, <2>5 DEF Asks
<1>3. ASSUME Write0(p) PROVE Goal
  <2> DEFINE x == Head(pending0[p])
  <2>1. pending0[p] # <<>> /\ v = Append(tcp[p], x) /\ u = Tail(pending0[p])
    BY <1>3 DEF Write0, Shape
  <2>2. x \in AnyFrame
    BY <1>s, <2>1, TailRange DEF AnyFrame
  <2> HIDE DEF u, v
  <2>3. /\ \A t : Has(pending0[p], t) <=> Has(u, t) \/ x.type = t
        /\ AtMostOne(u) /\ ~(x.type = "close" /\ Has(u, "close"))
    BY <1>s, <1>c, <2>1, HasTail
  <2> HIDE DEF x
  <2>4. /\ \A t : Has(v, t) <=> Has(tcp[p], t) \/ x.type = t
        /\ ~(x.type = "close" /\ Has(tcp[p], "close")) => AtMostOne(v)
    BY <1>s, <1>c, <2>1, <2>2, HasAppend
  <2> QED BY <1>c, <2>3, <2>4 DEF Asks
<1>4. ASSUME Write(p) PROVE Goal
  <2> DEFINE x == Head(pending[p])
  <2>1. pending[p] # <<>> /\ v = Append(tcp[p], x) /\ u = pending0[p]
    BY <1>4 DEF Write, Shape
  <2>2. x \in ChannelFrames
    BY <1>s, <2>1, TailRange
  <2>3. x \in AnyFrame /\ x.type # "close" /\ x.type # "error"
    BY <2>2 DEF AnyFrame, ChannelFrames
  <2> HIDE DEF u, v, x
  <2>4. /\ \A t : Has(v, t) <=> Has(tcp[p], t) \/ x.type = t
        /\ AtMostOne(v)
    BY <1>s, <1>c, <2>1, <2>3, HasAppend
  <2> QED BY <1>c, <2>1, <2>3, <2>4 DEF Asks
<1>5. ASSUME NEW type, Takes(o, type), u = pending0[p], type = "close" => RecvClose(o) PROVE Goal
  <2>1. tcp[p] # <<>> /\ Head(tcp[p]).type = type /\ v = Tail(tcp[p])
    BY <1>5, <1>o, OtherFacts DEF Takes, Shape
  <2> HIDE DEF u, v
  <2>2. /\ \A t : Has(tcp[p], t) <=> Has(v, t) \/ type = t
        /\ AtMostOne(v)
    BY <1>s, <1>c, <2>1, HasTail
  <2> QED BY <1>5, <1>c, <2>2 DEF Asks
<1>6. ASSUME RecvClose(o) PROVE Asks(p) /\ ~(Has(u, "close") \/ Has(v, "close"))
  <2>1. tcp[p] # <<>> /\ Head(tcp[p]).type = "close" /\ v = Tail(tcp[p]) /\ u = pending0[p]
    BY <1>6, <1>o, OtherFacts DEF RecvClose, Takes, queues, Shape
  <2> HIDE DEF u, v
  <2>2. Has(tcp[p], "close") /\ ~Has(v, "close")
    BY <1>s, <1>c, <2>1, HasTail
  <2> QED BY <1>c, <2>1, <2>2 DEF Asks
<1> HIDE DEF Goal
<1>7. Goal
  BY <1>1, <1>2, <1>3, <1>4, <1>5, FramesMove
<1>8. Asks(p)' <=> Has(u, "close") \/ Has(v, "close")
  BY DEF Asks, Has, Placed
<1>9. Once(p)' <=> AtMostOne(u) /\ AtMostOne(v) /\ ~(Has(u, "close") /\ Has(v, "close"))
  BY DEF Once, Has, Placed, AtMostOne
<1> QED BY <1>6, <1>7, <1>8, <1>9 DEF Goal

\* How a thread that closes goes on when nobody says no: it comes back with the channel
\* gone, and after a close that was sent, or an ok of the peer that asked first.
LEMMA CloserGoes ==
    ASSUME Shape, [Next]_vars, Friendly', NEW p \in Peers, NoErrors(p)
    PROVE  /\ closer[p] # "idle" /\ closer'[p] = "idle" => ~exists'[p]
           /\ closer'[p] \in {"sent", "await", "remove"} =>
                 closer[p] \in {"sent", "await", "remove"} \/ SendClose(p) \/ HasOk(p)
           /\ Unasked(p)' => Unasked(p) /\ ~SendClose(p)
<1> DEFINE Steps(now) ==
        /\ closer[p] # "idle" /\ now = "idle" => ~exists'[p]
        /\ now \in {"sent", "await", "remove"} =>
              closer[p] \in {"sent", "await", "remove"} \/ SendClose(p) \/ HasOk(p)
        /\ \/ now \in {"register", "replies", "check", "send"}
           \/ now \in {"idle", "following"} /\ exists'[p]
           => Unasked(p) /\ ~SendClose(p)
<1>f. conn_ok' /\ conn_ok
  BY Monotone DEF Friendly
<1>e. exists'[p] => exists[p]
  BY OnlyRemoved
<1>1. ASSUME closer'[p] = closer[p] PROVE Steps(closer'[p])
  <2>1. ~SendClose(p)
    BY <1>1, <1>f DEF SendClose, Goes, Shape
  <2> QED BY <1>1, <1>e, <2>1 DEF Unasked
<1>2. ASSUME NEW q \in Peers, NEW from, NEW to, Goes(q, from, to), q # p PROVE Steps(closer'[p])
  BY <1>1, <1>2 DEF Goes, Shape
<1>3. ASSUME NEW from, NEW to, Goes(p, from, to) PROVE closer[p] = from /\ closer'[p] = to
  BY <1>3 DEF Goes, Shape
<1>4. ASSUME NEW q \in Peers, Close(q) PROVE Steps(closer'[p])
  <2>1. PICK to \in {"following", "register"} : Goes(q, "idle", to)
    BY <1>4 DEF Close
  <2>2. CASE q # p
    BY <1>2, <2>1, <2>2
  <2>3. CASE q = p
    <3>1. closer[p] = "idle" /\ closer'[p] = to /\ exists[p] /\ ~SendClose(p)
      BY <1>3, <1>4, <2>1, <2>3 DEF Close, SendClose, Goes
    <3> QED BY <3>1 DEF Unasked
  <2> QED BY <2>2, <2>3
<1>5. ASSUME NEW q \in Peers, Closer(q) \/ TimeOut(q), q # p PROVE Steps(closer'[p])
  <2>1. \E from, to : Goes(q, from, to)
    BY <1>5 DEF Closer, Follow, Register, RepliesReceived, CheckTransit, SendClose, RepliesSent,
                TakeVerdict, NoConnection, CloserRemoves, TimeOut
  <2> QED BY <1>2, <1>5, <2>1
<1>6. wait_queue[p] # <<>> => Head(wait_queue[p]) = "ok" /\ HasOk(p)
  <2>1. wait_queue[p] # <<>> => Head(wait_queue[p]) \in Range(wait_queue[p])
    BY TailRange DEF Shape
  <2> QED BY <2>1 DEF NoErrors, HasOk
<1>7. ASSUME Closer(p) \/ TimeOut(p) PROVE Steps(closer'[p])
  <2>1. CASE Follow(p)
    <3>1. closer[p] = "following" /\ closer'[p] = "idle" /\ ~exists[p]
      BY <1>3, <1>f, <2>1 DEF Follow
    <3> QED BY <1>e, <3>1
  <2>2. CASE Register(p) \/ RepliesReceived(p)
    <3>1. /\ closer[p] \in {"register", "replies"} /\ closer'[p] \in {"replies", "check"}
      BY <1>3, <1>f, <2>2 DEF Register, RepliesReceived
    <3> QED BY <3>1 DEF Unasked, SendClose, Goes
  <2>3. CASE CheckTransit(p)
    <3>1. closer[p] = "check" /\ (closer'[p] = "send" \/ (closer'[p] = "sent" /\ HasOk(p)))
      BY <1>3, <1>6, <2>3 DEF CheckTransit
    <3> QED BY <3>1 DEF Unasked, SendClose, Goes
  <2>4. CASE SendClose(p)
    <3>1. closer'[p] = "sent"
      BY <1>3, <1>f, <2>4 DEF SendClose
    <3> QED BY <2>4, <3>1
  <2>5. CASE RepliesSent(p) \/ TimeOut(p)
    <3>1. closer[p] \in {"sent", "await"} /\ closer'[p] \in {"await", "remove"}
      BY <1>3, <2>5 DEF RepliesSent, TimeOut
    <3> QED BY <3>1
  <2>6. CASE TakeVerdict(p)
    <3>1. closer[p] = "await" /\ closer'[p] = "remove"
      BY <1>3, <1>6, <2>6 DEF TakeVerdict, Agreed
    <3> QED BY <3>1
  <2>7. CASE NoConnection(p)
    BY <1>f, <2>7 DEF NoConnection
  <2>8. CASE CloserRemoves(p)
    <3>1. closer'[p] = "idle" /\ ~exists'[p]
      BY <1>3, <2>8 DEF CloserRemoves, RemoveChannel, Shape
    <3> QED BY <3>1
  <2> QED BY <1>7, <2>1, <2>2, <2>3, <2>4, <2>5, <2>6, <2>7, <2>8 DEF Closer
<1>8. ASSUME NEW q \in Peers, CheckOpen(q) \/ QueueMsg(q) \/ Answer(q) \/ Write0(q) \/ Write(q) \/ Recv(q) \/ Handler(q)
      PROVE  Steps(closer'[p])
  <2>1. closer' = closer
    BY <1>8 DEF CheckOpen, QueueMsg, Answer, Write0, Write, Recv, RecvOnChannel, RecvClose, RecvVerdict,
                Handler, FindChannel, GetChannel, AcceptInTransit, TellCloser, AskHandlers, NotifyClose,
                HandlerReplies, SendOk, HandlerRemoves
  <2> QED BY <1>1, <2>1
<1>9. ASSUME BreakConnection \/ Quiet \/ UNCHANGED vars PROVE Steps(closer'[p])
  BY <1>1, <1>9 DEF BreakConnection, Quiet, vars
<1>10. Steps(closer'[p])
  BY <1>4, <1>5, <1>7, <1>8, <1>9 DEF Next
<1> QED BY <1>10 DEF Unasked

\* The close handlers accept, or only tell the application, which then accepts.
LEMMA AskedOrTold ==
    ASSUME Shape, NEW q \in Peers, irregular' \cap {"declined", "gone"} = {},
           AskHandlers(q) \/ \E close \in BOOLEAN : NotifyClose(q, close)
    PROVE  \E from \in {"lock", "notified"}, to \in {"replies", "notified"} :
             /\ Turns(q, from, to)
             /\ \A r \in Peers : r # q => being_closed'[r] = being_closed[r]
             /\ being_closed'[q] => being_closed[q] \/ to = "replies"
<1>1. CASE AskHandlers(q)
  <2>1. PICK verdict \in Verdicts :
           /\ Turns(q, "lock", CASE verdict = "accept" -> "replies"
                              [] verdict = "decline" -> "idle"
                              [] verdict = "notify" -> "notified")
           /\ being_closed' = [being_closed EXCEPT ![q] = verdict = "accept"]
           /\ Happened("declined", verdict = "decline")
    BY <1>1 DEF AskHandlers
  <2>2. verdict \in {"accept", "decline", "notify"}
    BY CloseAssumption DEF CloseAssumption
  <2>3. verdict # "decline"
    BY <2>1 DEF Happened
  <2>4. \A r \in Peers : r # q => being_closed'[r] = being_closed[r]
    BY <2>1 DEF Shape
  <2>5. being_closed'[q] = (verdict = "accept")
    BY <2>1 DEF Shape
  <2>6. CASE verdict = "accept"
    <3>1. Turns(q, "lock", "replies")
      BY <2>1, <2>6
    <3> QED BY <2>4, <3>1
  <2>7. CASE verdict = "notify"
    <3>1. Turns(q, "lock", "notified") /\ ~being_closed'[q]
      BY <2>1, <2>5, <2>7
    <3> QED BY <2>4, <3>1
  <2> QED BY <2>2, <2>3, <2>6, <2>7
<1>2. ASSUME NEW close \in BOOLEAN, NotifyClose(q, close)
      PROVE  Turns(q, "notified", "replies") /\ \A r \in Peers : r # q => being_closed'[r] = being_closed[r]
  <2>1. close
    BY <1>2 DEF NotifyClose, Happened
  <2> QED BY <1>2, <2>1 DEF NotifyClose, Shape
<1> QED BY <1>1, <1>2

\* How a thread that takes a close goes on when nobody says no: it closes too, and stops
\* only when it has removed the channel or another thread closes it.
LEMMA HandlerGoes ==
    ASSUME Shape, ClosingInv, [Next]_vars, Friendly', NEW p \in Peers
    PROVE  /\ handler[p] \in {"replies", "reply", "remove"} =>
                 handler'[p] \in {"replies", "reply", "remove"} \/ ~exists'[p] \/ RecvClose(p)
           /\ handler[p] # "idle" /\ handler'[p] = "idle" => being_closed[p]
           /\ handler[p] = "idle" /\ handler'[p] # "idle" => RecvClose(p)
           /\ handler[p] # "crashed" => handler'[p] # "crashed"
           /\ being_closed'[p] => \/ being_closed[p] \/ handler'[p] = "replies"
                                  \/ closer'[p] # "idle"
<1> DEFINE Active == {"replies", "reply", "remove"}
           Steps(now) ==
              /\ handler[p] \in Active => now \in Active \/ ~exists'[p] \/ RecvClose(p)
              /\ handler[p] # "idle" /\ now = "idle" => being_closed[p]
              /\ handler[p] = "idle" /\ now # "idle" => RecvClose(p)
              /\ handler[p] # "crashed" => now # "crashed"
           Marks == being_closed'[p] => \/ being_closed[p] \/ handler'[p] = "replies"
                                        \/ closer'[p] # "idle"
<1>f. conn_ok' /\ conn_ok /\ irregular' \cap {"declined", "gone"} = {}
  BY Monotone DEF Friendly
<1>c. handler[p] \in {"transit", "replies", "reply", "remove"} => being_closed[p]
  BY DEF ClosingInv, Closing
<1>1. ASSUME handler'[p] = handler[p], being_closed'[p] = being_closed[p] PROVE Steps(handler'[p]) /\ Marks
  BY <1>1
<1>2. ASSUME NEW q \in Peers, CheckOpen(q) \/ QueueMsg(q) \/ Answer(q) \/ Write0(q) \/ Write(q)
      PROVE  Steps(handler'[p]) /\ Marks
  BY <1>1, <1>2 DEF CheckOpen, QueueMsg, Answer, Write0, Write, ends
<1>3. ASSUME NEW q \in Peers, Recv(q) PROVE Steps(handler'[p]) /\ Marks
  <2>1. CASE RecvClose(q) /\ q = p
    <3>1. handler'[p] = "find" /\ being_closed'[p] = being_closed[p]
      BY <2>1 DEF RecvClose, ends, Shape
    <3> QED BY <2>1, <3>1
  <2>2. CASE RecvClose(q) /\ q # p
    BY <1>1, <2>2 DEF RecvClose, ends, Shape
  <2>3. CASE \/ \E type \in {"MSG", "RPY", "ERR"} : RecvOnChannel(q, type)
             \/ \E type \in {"ok", "error"} : RecvVerdict(q, type)
    BY <1>1, <2>3 DEF RecvOnChannel, RecvVerdict, ends
  <2> QED BY <1>3, <2>1, <2>2, <2>3 DEF Recv
<1>4. ASSUME NEW q \in Peers, Close(q) PROVE Steps(handler'[p]) /\ Marks
  <2>1. handler' = handler /\ being_closed' = [being_closed EXCEPT ![q] = TRUE]
    BY <1>4 DEF Close
  <2>2. CASE q # p
    BY <1>1, <2>1, <2>2 DEF Shape
  <2>3. CASE q = p
    <3>1. closer'[p] # "idle"
      BY <1>4, <2>3 DEF Close, Goes, Shape
    <3> QED BY <2>1, <3>1
  <2> QED BY <2>2, <2>3
<1>5. ASSUME NEW q \in Peers, RepliesReceived(q) PROVE Steps(handler'[p]) /\ Marks
  <2>1. handler' = handler /\ being_closed' = [being_closed EXCEPT ![q] = TRUE]
    BY <1>5 DEF RepliesReceived
  <2>2. closer[q] = "replies"
    BY <1>5 DEF RepliesReceived, Goes
  <2>3. being_closed[q]
    BY <2>2 DEF ClosingInv, Closing
  <2>4. being_closed'[p] => being_closed[p]
    BY <2>1, <2>3 DEF Shape
  <2> QED BY <2>1, <2>4
<1>6. ASSUME NEW q \in Peers, TimeOut(q) \/ Follow(q) \/ Register(q) \/ CheckTransit(q) \/ SendClose(q)
                              \/ RepliesSent(q) \/ TakeVerdict(q) \/ NoConnection(q) \/ CloserRemoves(q)
      PROVE  Steps(handler'[p]) /\ Marks
  <2>1. handler' = handler /\ being_closed' = being_closed
    BY <1>6 DEF TimeOut, Follow, Register, CheckTransit, SendClose, RepliesSent, TakeVerdict, NoConnection,
                CloserRemoves, ends
  <2> QED BY <1>1, <2>1
<1>7. ASSUME NEW q \in Peers, NEW from, NEW to, Turns(q, from, to),
             \A r \in Peers : r # q => being_closed'[r] = being_closed[r],
             q = p => /\ from \in Active => to \in Active \/ ~exists'[p]
                      /\ from # "idle" /\ (to = "idle" => being_closed[p])
                      /\ to # "crashed" /\ Marks
      PROVE  Steps(handler'[p]) /\ Marks
  <2>1. CASE q # p
    BY <1>1, <1>7, <2>1 DEF Turns, Shape
  <2>2. CASE q = p
    <3>1. handler[p] = from /\ handler'[p] = to
      BY <1>7, <2>2 DEF Turns, Shape
    <3> QED BY <1>7, <2>2, <3>1
  <2> QED BY <2>1, <2>2
<1>8. ASSUME NEW q \in Peers, Handler(q) PROVE Steps(handler'[p]) /\ Marks
  <2>0. CASE \/ FindChannel(q) \/ GetChannel(q) \/ AcceptInTransit(q) \/ TellCloser(q)
             \/ HandlerReplies(q) \/ SendOk(q) \/ HandlerRemoves(q)
    <3>0. being_closed' = being_closed
      BY <2>0 DEF FindChannel, GetChannel, AcceptInTransit, TellCloser, HandlerReplies, SendOk, HandlerRemoves,
                  ends
    <3>1. \A r \in Peers : r # q => being_closed'[r] = being_closed[r]
      BY <3>0
    <3>2. Marks
      BY <3>0
    <3>3. CASE FindChannel(q)
      <4>1. Turns(q, "find", "get")
        BY <1>f, <3>3 DEF FindChannel, Found, Happened
      <4> QED BY <1>7, <3>1, <3>2, <4>1
    <3>4. CASE GetChannel(q)
      <4>1. Turns(q, "get", "lock")
        BY <1>f, <3>4 DEF GetChannel
      <4> QED BY <1>7, <3>1, <3>2, <4>1
    <3>5. CASE AcceptInTransit(q)
      <4>1. Turns(q, "lock", "transit")
        BY <3>5 DEF AcceptInTransit
      <4> QED BY <1>7, <3>1, <3>2, <4>1
    <3>6. CASE TellCloser(q)
      <4>1. Turns(q, "transit", "idle")
        BY <3>6 DEF TellCloser
      <4>2. q = p => being_closed[p]
        BY <1>c, <4>1 DEF Turns
      <4> QED BY <1>7, <3>1, <3>2, <4>1, <4>2
    <3>7. CASE HandlerReplies(q)
      <4>1. \E to \in {"reply", "remove"} : Turns(q, "replies", to)
        BY <3>7 DEF HandlerReplies
      <4> QED BY <1>7, <3>1, <3>2, <4>1
    <3>8. CASE SendOk(q)
      <4>1. Turns(q, "reply", "remove")
        BY <3>8 DEF SendOk
      <4> QED BY <1>7, <3>1, <3>2, <4>1
    <3>9. CASE HandlerRemoves(q)
      <4>1. Turns(q, "remove", "idle") /\ exists' = [exists EXCEPT ![q] = FALSE]
        BY <3>9 DEF HandlerRemoves, RemoveChannel
      <4>2. q = p => being_closed[p] /\ ~exists'[p]
        BY <1>c, <4>1 DEF Turns, Shape
      <4> QED BY <1>7, <3>1, <3>2, <4>1, <4>2
    <3> QED BY <2>0, <3>3, <3>4, <3>5, <3>6, <3>7, <3>8, <3>9
  <2>1. CASE AskHandlers(q) \/ \E close \in BOOLEAN : NotifyClose(q, close)
    <3>1. PICK from \in {"lock", "notified"}, to \in {"replies", "notified"} :
             /\ Turns(q, from, to)
             /\ \A r \in Peers : r # q => being_closed'[r] = being_closed[r]
             /\ being_closed'[q] => being_closed[q] \/ to = "replies"
      BY <1>f, <2>1, AskedOrTold
    <3>2. q = p => Marks
      BY <3>1 DEF Turns, Shape
    <3> QED BY <1>7, <3>1, <3>2
  <2> QED BY <1>8, <2>0, <2>1 DEF Handler
<1>9. ASSUME BreakConnection \/ Quiet \/ UNCHANGED vars PROVE Steps(handler'[p]) /\ Marks
  BY <1>1, <1>9 DEF BreakConnection, Quiet, vars, ends
<1> HIDE DEF Steps, Marks
<1>10. Steps(handler'[p]) /\ Marks
  BY <1>2, <1>3, <1>4, <1>5, <1>6, <1>8, <1>9 DEF Next, Closer
<1> QED BY <1>10 DEF Steps, Marks

\* Only an ok reaches the thread that waits.
LEMMA AnswersOk ==
    ASSUME Shape, [Next]_vars, NEW p \in Peers, NoErrors(p), NoErrors(Other(p))
    PROVE  \A answer \in Range(wait_queue'[p]) : answer = "ok"
<1> DEFINE Fine(q) == \A answer \in Range(q) : answer = "ok"
<1>1. Fine(wait_queue[p])
  BY DEF NoErrors
<1>2. ASSUME wait_queue'[p] = wait_queue[p] PROVE Fine(wait_queue'[p])
  BY <1>1, <1>2
<1>3. ASSUME wait_queue'[p] = Append(wait_queue[p], "ok") PROVE Fine(wait_queue'[p])
  <2>1. Range(Append(wait_queue[p], "ok")) = Range(wait_queue[p]) \cup {"ok"}
    <3>1. wait_queue[p] \in Seq({"ok", "error"}) /\ "ok" \in {"ok", "error"}
      BY DEF Shape
    <3> QED BY <3>1, AppendRange
  <2>2. Fine(Append(wait_queue[p], "ok"))
    BY <1>1, <2>1
  <2> QED BY <1>3, <2>2
<1>4. ASSUME NEW q \in Peers, RecvVerdict(q, "ok") PROVE Fine(wait_queue'[p])
  <2>1. wait_queue' = [wait_queue EXCEPT ![q] = IF Waits(q) THEN Append(@, "ok") ELSE @]
    BY <1>4 DEF RecvVerdict
  <2>2. wait_queue'[p] \in {wait_queue[p], Append(wait_queue[p], "ok")}
    BY <2>1 DEF Shape
  <2> QED BY <1>2, <1>3, <2>2
<1>5. ASSUME NEW q \in Peers, RecvVerdict(q, "error") PROVE Fine(wait_queue'[p])
  <2>1. CASE q # p
    BY <1>2, <1>5, <2>1 DEF RecvVerdict, Shape
  <2>2. CASE q = p
    <3>1. Other(p) \in Peers /\ tcp[Other(p)] # <<>> /\ Head(tcp[Other(p)]).type = "error"
      BY <1>5, <2>2, OtherFacts DEF RecvVerdict, Takes
    <3>2. tcp[Other(p)] \in Seq(AnyFrame)
      BY <3>1 DEF Shape, AnyFrame
    <3>3. Has(tcp[Other(p)], "error")
      BY <3>1, <3>2, HasTail
    <3> QED BY <3>3 DEF NoErrors
  <2> QED BY <2>1, <2>2
<1>6. ASSUME NEW q \in Peers, TakeVerdict(q) PROVE Fine(wait_queue'[p])
  <2>1. wait_queue'[p] = wait_queue[p] \/ wait_queue'[p] = <<>>
    BY <1>6 DEF TakeVerdict, Shape
  <2> QED BY <1>2, <2>1, EmptyRange
<1>7. ASSUME NEW q \in Peers, TellCloser(q) PROVE Fine(wait_queue'[p])
  <2>1. wait_queue'[p] \in {wait_queue[p], Append(wait_queue[p], "ok")}
    BY <1>7 DEF TellCloser, PushOk, Shape
  <2> QED BY <1>2, <1>3, <2>1
<1>8. ASSUME wait_queue' = wait_queue PROVE Fine(wait_queue'[p])
  BY <1>2, <1>8
<1>9. ASSUME NEW q \in Peers, \/ CheckOpen(q) \/ QueueMsg(q) \/ Answer(q) \/ Write0(q) \/ Write(q) \/ Close(q)
                              \/ TimeOut(q) \/ Follow(q) \/ Register(q) \/ RepliesReceived(q) \/ CheckTransit(q)
                              \/ SendClose(q) \/ RepliesSent(q) \/ NoConnection(q) \/ CloserRemoves(q)
                              \/ RecvClose(q) \/ \E type \in {"MSG", "RPY", "ERR"} : RecvOnChannel(q, type)
      PROVE  Fine(wait_queue'[p])
  <2>1. wait_queue' = wait_queue
    BY <1>9 DEF CheckOpen, QueueMsg, Answer, Write0, Write, Close, TimeOut, Follow, Register, RepliesReceived,
                CheckTransit, SendClose, RepliesSent, NoConnection, CloserRemoves, RecvClose, RecvOnChannel, waits
  <2> QED BY <1>8, <2>1
<1>10. ASSUME NEW q \in Peers, Handler(q), ~TellCloser(q) PROVE Fine(wait_queue'[p])
  <2>1. wait_queue' = wait_queue
    BY <1>10 DEF Handler, FindChannel, GetChannel, AcceptInTransit, AskHandlers, NotifyClose, HandlerReplies,
                 SendOk, HandlerRemoves, waits
  <2> QED BY <1>8, <2>1
<1>11. ASSUME BreakConnection \/ Quiet \/ UNCHANGED vars PROVE Fine(wait_queue'[p])
  BY <1>8, <1>11 DEF BreakConnection, Quiet, vars, waits
<1> HIDE DEF Fine
<1>12. Fine(wait_queue'[p])
  BY <1>4, <1>5, <1>6, <1>7, <1>9, <1>10, <1>11 DEF Next, Recv, Closer
<1> QED BY <1>12 DEF Fine

\* As long as nobody says no, a peer that was asked follows.
LEMMA AskStep == Shape /\ ClosingInv /\ ConsentInv /\ AskInv /\ [Next]_vars => AskInv'
<1> SUFFICES ASSUME Shape, ClosingInv, ConsentInv, AskInv, [Next]_vars, Friendly',
                    NEW p \in Peers, NEW o \in Peers, p # o
             PROVE  /\ being_closed'[p] /\ exists'[p] =>
                          closer'[p] # "idle" \/ handler'[p] \in {"replies", "reply", "remove"}
                    /\ closer'[p] \in {"sent", "await", "remove"} \/ ~exists'[p] =>
                          being_closed'[o] \/ handler'[o] # "idle" \/ Asks(p)'
                    /\ Unasked(p)' => handler'[o] = "idle" /\ ~Asks(p)'
                    /\ Asks(p)' => handler'[o] = "idle"
                    /\ handler'[p] # "crashed"
                    /\ Once(p)' /\ NoErrors(p)'
  BY DEF AskInv
<1>f. conn_ok /\ Friendly
  BY Monotone DEF Friendly
<1>o. o = Other(p) /\ p = Other(o)
  BY OtherFacts
<1>p. /\ being_closed[p] /\ exists[p] => closer[p] # "idle" \/ handler[p] \in {"replies", "reply", "remove"}
      /\ closer[p] \in {"sent", "await", "remove"} \/ ~exists[p] =>
            being_closed[o] \/ handler[o] # "idle" \/ Asks(p)
      /\ Unasked(p) => handler[o] = "idle" /\ ~Asks(p)
      /\ Asks(p) => handler[o] = "idle"
      /\ handler[p] # "crashed" /\ Once(p) /\ NoErrors(p)
  BY <1>f DEF AskInv
<1>q. /\ Unasked(o) => handler[p] = "idle" /\ ~Asks(o)
      /\ Asks(o) => handler[p] = "idle"
      /\ Once(o) /\ NoErrors(o)
  BY <1>f DEF AskInv
<1>g. closer[p] = "send" => ~Asks(p)
  BY <1>p DEF Unasked
<1>h. closer[o] = "send" => ~Asks(o)
  BY <1>q DEF Unasked
<1>1. /\ Once(p)' /\ ~Has(pending0'[p], "error") /\ ~Has(tcp'[p], "error")
      /\ Asks(p)' => Asks(p) \/ SendClose(p)
      /\ Asks(p) => Asks(p)' \/ RecvClose(o)
      /\ RecvClose(o) => Asks(p) /\ ~Asks(p)'
  BY <1>p, <1>g, AskGoes
<1>2. RecvClose(p) => Asks(o)
  BY <1>q, <1>h, AskGoes
<1>3. /\ closer[p] # "idle" /\ closer'[p] = "idle" => ~exists'[p]
      /\ closer'[p] \in {"sent", "await", "remove"} =>
            closer[p] \in {"sent", "await", "remove"} \/ SendClose(p) \/ HasOk(p)
      /\ Unasked(p)' => Unasked(p) /\ ~SendClose(p)
  BY <1>p, CloserGoes
<1>4. /\ handler[p] \in {"replies", "reply", "remove"} =>
            handler'[p] \in {"replies", "reply", "remove"} \/ ~exists'[p] \/ RecvClose(p)
      /\ handler[p] # "crashed" => handler'[p] # "crashed"
      /\ being_closed'[p] => being_closed[p] \/ handler'[p] = "replies" \/ closer'[p] # "idle"
  BY HandlerGoes
<1>5. /\ handler[o] # "idle" /\ handler'[o] = "idle" => being_closed[o]
      /\ handler[o] = "idle" /\ handler'[o] # "idle" => RecvClose(o)
      /\ RecvClose(o) => handler'[o] # "idle"
  <2>1. RecvClose(o) => handler'[o] # "idle"
    BY DEF RecvClose, Shape
  <2> QED BY <2>1, HandlerGoes
<1>6. SendClose(p) => closer[p] = "send" /\ Unasked(p) /\ Asks(p)' /\ handler'[o] = handler[o]
  <2> SUFFICES ASSUME SendClose(p) PROVE Unasked(p) /\ Asks(p)' /\ handler'[o] = handler[o] /\ closer[p] = "send"
    OBVIOUS
  <2>1. closer[p] = "send" /\ handler' = handler /\ Queue0(p, "close")
    BY <1>f DEF SendClose, Goes
  <2> DEFINE x == [type |-> "close", no |-> 0]
  <2>2. pending0'[p] = Append(pending0[p], x)
    BY <2>1 DEF Queue0, Shape
  <2>3. x \in Frames0 /\ x.type = "close"
    BY DEF Frames0
  <2>4. pending0[p] \in Seq(Frames0)
    BY DEF Shape
  <2> HIDE DEF x
  <2>5. Has(pending0'[p], "close")
    BY <2>2, <2>3, <2>4, HasAppend
  <2>6. Asks(p)'
    BY <2>5 DEF Asks, Has, Placed
  <2> QED BY <2>1, <2>6 DEF Unasked
<1>7. /\ being_closed[o] => being_closed'[o]
      /\ exists'[p] => exists[p]
  BY Monotone, OnlyRemoved
<1>8. being_closed'[p] /\ exists'[p] =>
         closer'[p] # "idle" \/ handler'[p] \in {"replies", "reply", "remove"}
  <2>1. RecvClose(p) => handler[p] \notin {"replies", "reply", "remove"}
    BY <1>2, <1>q
  <2> QED BY <1>3, <1>4, <1>7, <1>p, <2>1
<1>9. closer'[p] \in {"sent", "await", "remove"} \/ ~exists'[p] =>
         being_closed'[o] \/ handler'[o] # "idle" \/ Asks(p)'
  <2>1. HasOk(p) \/ Taking(p) => being_closed[o]
    BY <1>o DEF ConsentInv, HasOk, Taking
  <2>2. exists[p] /\ ~exists'[p] => closer[p] = "remove" \/ Taking(p)
    BY WhoRemoves DEF Taking
  <2>3. closer[p] \in {"sent", "await", "remove"} \/ ~exists[p] \/ SendClose(p) \/ HasOk(p) \/ Taking(p) =>
           being_closed'[o] \/ handler'[o] # "idle" \/ Asks(p)'
    BY <1>1, <1>5, <1>6, <1>7, <1>p, <2>1
  <2> QED BY <1>3, <2>2, <2>3
<1>10. Unasked(p)' => handler'[o] = "idle" /\ ~Asks(p)'
  BY <1>1, <1>3, <1>5, <1>p
<1>11. Asks(p)' => handler'[o] = "idle"
  <2>1. ASSUME Asks(p)', SendClose(p) PROVE handler'[o] = "idle"
    BY <1>6, <1>p, <2>1
  <2>2. ASSUME Asks(p)', Asks(p) PROVE handler'[o] = "idle"
    BY <1>1, <1>5, <1>p, <2>2
  <2> QED BY <1>1, <2>1, <2>2
<1>12. \A answer \in Range(wait_queue'[p]) : answer = "ok"
  BY <1>p, <1>q, <1>o, AnswersOk
<1>13. NoErrors(p)'
  BY <1>1, <1>12 DEF NoErrors, Has, Placed
<1> QED BY <1>1, <1>4, <1>8, <1>9, <1>10, <1>11, <1>13, <1>p

\* Once nothing is on its way both peers have the channel or none has it: of two peers
\* that close at once, or of one that closes and one that accepts, none keeps a channel
\* the other has let go, unless an application said no or a close came after the channel
\* was gone.
THEOREM BothOrNone == Spec => []Agreement
<1>1. Init => AskInv
  <2> SUFFICES ASSUME Init PROVE AskInv
    OBVIOUS
  <2>1. ~Has(<<>>, "close") /\ ~Has(<<>>, "error") /\ AtMostOne(<<>>)
    BY DEF Has, AtMostOne, Placed
  <2>2. \A p \in Peers : /\ pending0[p] = <<>> /\ tcp[p] = <<>> /\ wait_queue[p] = <<>>
                         /\ closer[p] = "idle" /\ handler[p] = "idle" /\ exists[p] /\ ~being_closed[p]
    BY DEF Init
  <2> QED BY <2>1, <2>2, EmptyRange DEF AskInv, Asks, Once, NoErrors
<1>2. IInv /\ AskInv /\ [Next]_vars => AskInv'
  BY AskStep DEF IInv
<1>3. IInv /\ AskInv => Agreement
  <2> SUFFICES ASSUME IInv, AskInv, AtRest, Friendly
               PROVE  \A p, o \in Peers : p # o /\ ~exists[p] => ~exists[o]
    <3>1. ASSUME \A p, o \in Peers : p # o /\ ~exists[p] => ~exists[o], IInv, NEW p \in Peers
          PROVE  exists[p] = exists[Other(p)]
      <4>1. Other(p) \in Peers /\ Other(p) # p
        BY OtherFacts
      <4>2. exists[p] \in BOOLEAN /\ exists[Other(p)] \in BOOLEAN
        BY <3>1, <4>1 DEF IInv, Shape
      <4> QED BY <3>1, <4>1, <4>2
    <3> QED BY <3>1 DEF Agreement, Friendly
  <2> TAKE p, o \in Peers
  <2> HAVE p # o /\ ~exists[p]
  <2>1. ~Asks(p)
    <3>1. pending0[p] = <<>> /\ tcp[p] = <<>> /\ ~Has(<<>>, "close")
      BY DEF AtRest, Has, Placed
    <3> QED BY <3>1 DEF Asks
  <2>2. being_closed[o] \/ handler[o] # "idle"
    BY <2>1 DEF AskInv
  <2>3. closer[o] = "idle" /\ (handler[o] = "idle" \/ (handler[o] = "notified" /\ ~exists[o]))
    BY DEF AtRest
  <2>4. being_closed[o] /\ exists[o] => closer[o] # "idle" \/ handler[o] \in {"replies", "reply", "remove"}
    BY DEF AskInv
  <2> QED BY <2>2, <2>3, <2>4
<1> QED BY Invariant, <1>1, <1>2, <1>3, PTL DEF Spec

=============================================================================
