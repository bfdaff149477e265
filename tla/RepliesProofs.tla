---------------------------- MODULE RepliesProofs ----------------------------
(***************************************************************************)
(* Proofs about Replies for any number of senders, messages, pieces of an  *)
(* answer and settings: the limit of outstanding messages, the absence of  *)
(* accusations, the numbers of ANS replies, and that a channel implements  *)
(* the ordered exchange of OrderedReplies.                                 *)
(*                                                                         *)
(* The argument: every message number goes through a line of places.  The  *)
(* numbers Answered .. Received - 1 are at the answering side, those from  *)
(* Oldest on are outstanding, and what is on its way in between is a chain *)
(* without gaps: each piece follows the one before it.                     *)
(***************************************************************************)
EXTENDS Replies, FiniteSetTheorems, SequenceTheorems, WellFoundedInduction, TLAPS

-----------------------------------------------------------------------------
(* The inductive invariant. *)

Holding == {"limit", "full", "queue"}
Pending == {t \in Senders : sender[t].at \in {"limit", "full", "waiting", "signalled"}}

\* The number of the piece after f of a MSG.
NextOf(f) == IF f.more THEN f.no ELSE f.no + 1

\* The number that the next piece queued by a sender has, that the next piece
\* on the wire has, and the first one the answering side has not seen.
Entering == IF last_fixed_more_msg_no >= 0 \/ \E t \in Senders : sender[t].at = "queue"
            THEN next_proposed_msgno ELSE next_proposed_msgno + 1
Arriving == IF wire = <<>> THEN Entering ELSE wire[1].no
Received == IF incoming_msg_frame_fragment = -1 THEN Arriving ELSE Arriving + 1

\* The message whose turn it is to be answered, and the oldest outstanding one.
Answered == Received - Len(incoming_msg)
Oldest   == next_proposed_msgno + 1 - Len(outstanding_msg)

\* The pieces handed over for a number, also for one that is not given out yet.
HandedFor(no) == IF no \in Numbers THEN handed[no] ELSE <<>>
SeenOf(no)    == IF no \in Numbers THEN seen[no] ELSE <<>>

\* A piece of the same answer comes after p.
Continues(p, q) ==
    /\ ~Ends(p) /\ p.type # "NUL"
    /\ q.no = p.no /\ (p.type = "RPY" <=> q.type = "RPY")
    /\ PatientParts \/ q.type # "RPY" => q.part = p.part + 1

\* An answer may begin with q.
Begins(q) == q.type # "NUL" /\ (PatientParts \/ q.type # "RPY" => q.part = 1)

\* The pieces that leave the answering side.
Follows(p, q) == Continues(p, q) \/ (Ends(p) /\ Begins(q) /\ q.no = p.no + 1)

\* The pieces an application hands over for a message.
Shape(no, s) ==
    \A i \in 1 .. Len(s) :
        /\ s[i].no = no /\ s[i].part = i /\ (s[i].type = "RPY" \/ ~s[i].more)
        /\ s[i].type = "RPY" <=> s[1].type = "RPY"
        /\ ~Ends(s[i]) => i < MaxParts
        /\ IF i = 1 THEN s[i].type # "NUL" ELSE Continues(s[i - 1], s[i])

\* What is kept of them when their turn has not come.
Kept(s) == IF s # <<>> /\ s[Len(s)].type = "RPY" THEN <<s[Len(s)]>> ELSE s

\* The ANS replies there have been when s is what was handed over.
AnsCount(s) == IF s # <<>> /\ s[Len(s)].type = "ANS" THEN Len(s) ELSE 0

SendInv ==
    /\ send_mutex = "free" => \A t \in Senders : sender[t].at \notin Holding
    /\ \A t, u \in Senders : sender[t].at \in Holding /\ sender[u].at \in Holding => t = u
    /\ last_fixed_more_msg_no \in {-1, next_proposed_msgno}
    /\ \A t \in Senders : sender[t].at = "queue" =>
          /\ sender[t].no = next_proposed_msgno /\ next_proposed_msgno >= 0
          /\ last_fixed_more_msg_no = IF sender[t].more THEN next_proposed_msgno ELSE -1

CallInv ==
    /\ IsFiniteSet(Pending)
    /\ next_proposed_msgno + 1 + Cardinality(Pending) <= calls

OutInv ==
    /\ Oldest >= 0
    /\ \A i \in 1 .. Len(outstanding_msg) : outstanding_msg[i] = Oldest + i - 1

WireInv ==
    /\ \A i \in 1 .. Len(wire) :
          /\ wire[i].no <= next_proposed_msgno
          /\ IF i < Len(wire) THEN wire[i + 1].no = NextOf(wire[i])
             ELSE Entering = NextOf(wire[i])

ArriveInv ==
    /\ incoming_msg_frame_fragment \in {-1, Arriving}
    /\ incoming_msg_frame_fragment <= next_proposed_msgno
    /\ Answered >= 0 /\ Answered <= Arriving
    /\ \A i \in 1 .. Len(incoming_msg) : incoming_msg[i] = Answered + i - 1
    /\ delivered = {no \in Numbers : no < Arriving}

HandedInv ==
    \A no \in Numbers :
        /\ Shape(no, handed[no])
        /\ no \notin delivered => handed[no] = <<>>
        /\ no < Answered => EndsAnswer(handed[no])
        /\ no = Answered => ~EndsAnswer(handed[no])
        /\ stored_replies[no] = IF no <= Answered THEN <<>> ELSE Kept(handed[no])
        /\ PatientParts /\ no > Answered =>
              stored_replies[no] = handed[no] /\ (handed[no] # <<>> => ~handed[no][1].more)

BackInv ==
    /\ \A i \in 1 .. Len(back) :
          LET r == back[i].reply
          IN  /\ r.part \in 1 .. Len(handed[r.no]) /\ r = handed[r.no][r.part]
              /\ r.type = "ANS" => back[i].ansno = r.part - 1
              /\ IF i < Len(back) THEN Follows(r, back[i + 1].reply)
                 ELSE IF Ends(r) THEN Answered = r.no + 1 /\ HandedFor(Answered) = <<>>
                 ELSE Answered = r.no /\ r = handed[r.no][Len(handed[r.no])]
    /\ last_ansno_sent = AnsCount(HandedFor(Answered))

SeenInv ==
    /\ IF back = <<>>
       THEN Oldest = Answered /\ (PatientParts => Len(SeenOf(Oldest)) = Len(HandedFor(Oldest)))
       ELSE Oldest = back[1].reply.no
            /\ (PatientParts => back[1].reply.part = Len(seen[back[1].reply.no]) + 1)
    /\ \A no \in Numbers : no > Oldest => seen[no] = <<>>

Inv ==
    /\ TypeOK /\ SendInv /\ CallInv /\ OutInv /\ WireInv /\ ArriveInv
    /\ HandedInv /\ BackInv /\ SeenInv /\ ~accused

-----------------------------------------------------------------------------
(* Least elements, and induction on an interval as a fact about sets. *)

\* A set of numbers has a least element.
LEMMA LeastElement ==
    ASSUME NEW S, S \subseteq Nat, S # {}
    PROVE  \E m \in S : \A k \in S : m <= k
<1> DEFINE R == OpToRel(<, Nat)
<1>1. IsWellFoundedOn(R, Nat)
  BY NatLessThanWellFounded
<1>2. \A x, y \in Nat : y < x => <<y, x>> \in R
  BY DEF OpToRel
<1> HIDE DEF R
<1>3. PICK m \in S : \A y \in S : ~(<<y, m>> \in R)
  BY <1>1, WFMin
<1>4. ASSUME NEW k \in S PROVE m <= k
  <2>1. k \in Nat /\ m \in Nat /\ ~(<<k, m>> \in R)
    BY <1>3
  <2>2. ~(k < m)
    BY <2>1, <1>2
  <2> QED BY <2>1, <2>2
<1> QED BY <1>4

\* A set that has 0, and the number after each of its own up to n, has them all.
LEMMA UpTo ==
    ASSUME NEW T, NEW n \in Nat, 0 \in T, \A i \in 0 .. n - 1 : i \in T => i + 1 \in T
    PROVE  \A i \in 0 .. n : i \in T
<1> DEFINE B == {i \in 0 .. n : i \notin T}
<1> SUFFICES ASSUME B # {} PROVE FALSE
  OBVIOUS
<1>1. PICK m \in B : \A k \in B : m <= k
  BY LeastElement, B \subseteq Nat
<1>2. m \in 1 .. n /\ m - 1 \notin B
  BY <1>1
<1> QED BY <1>2, <1>1

\* Max of a set of numbers up to n.
LEMMA MaxUpTo ==
    ASSUME NEW n \in Nat, NEW S, S \subseteq 0 .. n, S # {}
    PROVE  Max(S) \in S /\ \A k \in S : Max(S) >= k
<1> DEFINE D == {d \in Nat : \E k \in S : d = n - k}
<1>1. D \subseteq Nat /\ D # {}
  <2>1. PICK k \in S : TRUE
    OBVIOUS
  <2>2. n - k \in Nat
    BY <2>1
  <2> QED BY <2>2
<1>2. PICK d \in D : \A e \in D : d <= e
  BY <1>1, LeastElement
<1>3. PICK m \in S : d = n - m
  BY <1>2
<1>4. ASSUME NEW k \in S PROVE n - k \in D
  OBVIOUS
<1> HIDE DEF D
<1>5. \A k \in S : m >= k
  <2> TAKE k \in S
  <2>1. d <= n - k
    BY <1>2, <1>4
  <2> QED BY <2>1, <1>3
<1> QED BY <1>5, <1>3 DEF Max

\* Min of two numbers.
LEMMA MinOfTwo ==
    ASSUME NEW a \in Int, NEW b \in Int
    PROVE  Min({a, b}) = IF a <= b THEN a ELSE b
BY DEF Min

-----------------------------------------------------------------------------
(* What the recursive functions of the model compute. *)

\* g flattens the first k of the sequences s, as FlattenSeq does.
Flat(g, s, k) == \A i \in 1 .. k : g[i] = IF i = 1 THEN s[i] ELSE g[i - 1] \o s[i]

\* The next step of such a function.
LEMMA FlatStep ==
    ASSUME NEW X, NEW n \in Nat, NEW s \in [1 .. n -> Seq(X)], NEW k \in 0 .. n - 1,
           NEW g \in [1 .. k -> Seq(X)], Flat(g, s, k)
    PROVE  \E h \in [1 .. k + 1 -> Seq(X)] : Flat(h, s, k + 1)
<1> DEFINE last == IF k = 0 THEN s[k + 1] ELSE g[k] \o s[k + 1]
           h == [i \in 1 .. k + 1 |-> IF i = k + 1 THEN last ELSE g[i]]
<1>1. last \in Seq(X)
  <2>1. s[k + 1] \in Seq(X)
    OBVIOUS
  <2>2. CASE k = 0
    BY <2>1, <2>2
  <2>3. CASE k # 0
    <3>1. g[k] \in Seq(X)
      BY <2>3
    <3> QED BY <2>1, <2>3, <3>1
  <2> QED BY <2>2, <2>3
<1>2. h \in [1 .. k + 1 -> Seq(X)]
  <2> HIDE DEF last
  <2> QED BY <1>1
<1>3. h[k + 1] = last /\ \A i \in 1 .. k : h[i] = g[i]
  <2> HIDE DEF last
  <2> QED OBVIOUS
<1> HIDE DEF h
<1>4. ASSUME NEW i \in 1 .. k + 1
      PROVE  h[i] = IF i = 1 THEN s[i] ELSE h[i - 1] \o s[i]
  <2>1. CASE i = k + 1 /\ k = 0
    BY <2>1, <1>3
  <2>2. CASE i = k + 1 /\ k # 0
    <3>1. i - 1 = k /\ k \in 1 .. k /\ i # 1
      BY <2>2
    <3>2. h[k] = g[k]
      BY <3>1, <1>3
    <3> QED BY <2>2, <3>1, <3>2, <1>3
  <2>3. CASE i # k + 1
    <3>1. i \in 1 .. k /\ (i # 1 => i - 1 \in 1 .. k)
      BY <2>3
    <3>2. h[i] = g[i] /\ (i # 1 => h[i - 1] = g[i - 1])
      BY <3>1, <1>3
    <3>3. g[i] = IF i = 1 THEN s[i] ELSE g[i - 1] \o s[i]
      BY <3>1 DEF Flat
    <3> QED BY <3>2, <3>3
  <2> QED BY <2>1, <2>2, <2>3
<1> QED BY <1>2, <1>4 DEF Flat

\* There is one for all of them.
LEMMA FlatExists ==
    ASSUME NEW X, NEW n \in Nat, NEW s \in [1 .. n -> Seq(X)]
    PROVE  \E g \in [1 .. n -> Seq(X)] : Flat(g, s, n)
<1> DEFINE T == {k \in Nat : \E g \in [1 .. k -> Seq(X)] : Flat(g, s, k)}
<1>1. 0 \in T
  <2>1. [i \in 1 .. 0 |-> <<>>] \in [1 .. 0 -> Seq(X)]
    OBVIOUS
  <2>2. Flat([i \in 1 .. 0 |-> <<>>], s, 0)
    BY DEF Flat
  <2> QED BY <2>1, <2>2
<1>2. \A k \in 0 .. n - 1 : k \in T => k + 1 \in T
  <2> TAKE k \in 0 .. n - 1
  <2> HAVE k \in T
  <2>1. PICK g \in [1 .. k -> Seq(X)] : Flat(g, s, k)
    OBVIOUS
  <2>2. \E h \in [1 .. k + 1 -> Seq(X)] : Flat(h, s, k + 1)
    BY <2>1, FlatStep
  <2> QED BY <2>2
<1>3. n \in T
  <2> HIDE DEF T
  <2>1. \A k \in 0 .. n : k \in T
    BY <1>1, <1>2, UpTo
  <2> QED BY <2>1
<1> QED BY <1>3

\* And only one.
LEMMA FlatUnique ==
    ASSUME NEW n \in Nat, NEW s, NEW f, NEW g, Flat(f, s, n), Flat(g, s, n)
    PROVE  \A i \in 1 .. n : f[i] = g[i]
<1> DEFINE T == {k \in Nat : k = 0 \/ f[k] = g[k]}
<1>1. 0 \in T
  OBVIOUS
<1>2. \A k \in 0 .. n - 1 : k \in T => k + 1 \in T
  <2> TAKE k \in 0 .. n - 1
  <2> HAVE k \in T
  <2>1. k + 1 \in 1 .. n /\ k + 1 - 1 = k /\ (k # 0 => f[k] = g[k])
    OBVIOUS
  <2>2. f[k + 1] = IF k + 1 = 1 THEN s[k + 1] ELSE f[k] \o s[k + 1]
    BY <2>1 DEF Flat
  <2>3. g[k + 1] = IF k + 1 = 1 THEN s[k + 1] ELSE g[k] \o s[k + 1]
    BY <2>1 DEF Flat
  <2>4. f[k + 1] = g[k + 1]
    BY <2>1, <2>2, <2>3
  <2> QED BY <2>4
<1>3. \A k \in 0 .. n : k \in T
  <2> HIDE DEF T
  <2> QED BY <1>1, <1>2, UpTo
<1> QED BY <1>3

\* FlattenSeq puts sequences one behind the other, step by step.
LEMMA Flattened ==
    ASSUME NEW X, NEW n \in Nat, NEW s \in [1 .. n -> Seq(X)]
    PROVE  \E f \in [0 .. n -> Seq(X)] :
               /\ f[0] = <<>> /\ \A i \in 1 .. n : f[i] = f[i - 1] \o s[i]
               /\ FlattenSeq(s) = f[n]
<1>1. PICK g \in [1 .. n -> Seq(X)] : Flat(g, s, n)
  BY FlatExists
<1> DEFINE f == [i \in 0 .. n |-> IF i = 0 THEN <<>> ELSE g[i]]
<1>2. f \in [0 .. n -> Seq(X)]
  OBVIOUS
<1>3. f[0] = <<>> /\ \A i \in 1 .. n : f[i] = g[i]
  OBVIOUS
<1> HIDE DEF f
<1>4. ASSUME NEW i \in 1 .. n PROVE f[i] = f[i - 1] \o s[i]
  <2>1. g[i] = IF i = 1 THEN s[i] ELSE g[i - 1] \o s[i]
    BY <1>1 DEF Flat
  <2>2. CASE i = 1
    <3>1. s[1] \in Seq(X) /\ f[i - 1] = <<>> /\ f[i] = s[1]
      BY <2>1, <2>2, <1>3
    <3> QED BY <3>1, <2>2
  <2>3. CASE i # 1
    <3>1. i - 1 \in 1 .. n
      BY <2>3
    <3> QED BY <2>1, <2>3, <3>1, <1>3
  <2> QED BY <2>2, <2>3
<1>5. FlattenSeq(s) = f[n]
  <2>1. Len(s) = n
    OBVIOUS
  <2>2. CASE n = 0
    <3>1. s = <<>>
      BY <2>1, <2>2
    <3> QED BY <3>1, <2>1, <2>2, <1>3 DEF FlattenSeq
  <2>3. CASE n # 0
    <3> DEFINE F == CHOOSE F : F = [i \in 1 .. Len(s) |-> IF i = 1 THEN s[i] ELSE F[i - 1] \o s[i]]
    <3>1. FlattenSeq(s) = F[Len(s)]
      BY <2>1, <2>3 DEF FlattenSeq
    <3>2. g = [i \in 1 .. Len(s) |-> IF i = 1 THEN s[i] ELSE g[i - 1] \o s[i]]
      BY <1>1, <2>1 DEF Flat
    <3>3. F = [i \in 1 .. Len(s) |-> IF i = 1 THEN s[i] ELSE F[i - 1] \o s[i]]
      BY <3>2
    <3> HIDE DEF F
    <3>4. Flat(F, s, n)
      BY <3>3, <2>1 DEF Flat
    <3>5. F[n] = g[n]
      BY <3>4, <1>1, <2>3, FlatUnique
    <3>6. f[n] = g[n]
      BY <1>3, <2>3
    <3> QED BY <3>1, <3>5, <3>6, <2>1
  <2> QED BY <2>2, <2>3
<1> QED BY <1>2, <1>3, <1>4, <1>5

\* NextAnsNo, one kind of reply at a time.
LEMMA NextAnsNoIs ==
    ASSUME NEW a \in Nat, NEW r \in Reply
    PROVE  /\ r.type = "ANS" => NextAnsNo(a, r) = a + 1
           /\ r.type = "NUL" => NextAnsNo(a, r) = 0
           /\ r.type = "RPY" => NextAnsNo(a, r) = a
           /\ NextAnsNo(a, r) \in Nat
<1>1. r.type \in {"RPY", "ANS", "NUL"}
  BY DEF Reply
<1>2. r.type = "ANS" => NextAnsNo(a, r) = a + 1
  BY Zenon DEF NextAnsNo
<1>3. r.type = "NUL" => NextAnsNo(a, r) = 0
  <2> SUFFICES ASSUME r.type = "NUL" PROVE NextAnsNo(a, r) = 0
    OBVIOUS
  <2>1. r.type # "ANS"
    OBVIOUS
  <2> QED BY <2>1, Zenon DEF NextAnsNo
<1>4. r.type = "RPY" => NextAnsNo(a, r) = a
  <2> SUFFICES ASSUME r.type = "RPY" PROVE NextAnsNo(a, r) = a
    OBVIOUS
  <2>1. r.type # "ANS" /\ r.type # "NUL"
    OBVIOUS
  <2> QED BY <2>1, Zenon DEF NextAnsNo
<1> QED BY <1>1, <1>2, <1>3, <1>4

\* g numbers the first k pieces of p from a, as AnsNos does.
Numbered(g, p, a, k) ==
    \A i \in 1 .. k + 1 : g[i] = IF i = 1 THEN a ELSE NextAnsNo(g[i - 1], p[i - 1])

\* The next step of such a function.
LEMMA NumberStep ==
    ASSUME NEW p \in Seq(Reply), NEW a \in Nat, NEW k \in 0 .. Len(p) - 1,
           NEW g \in [1 .. k + 1 -> Nat], Numbered(g, p, a, k)
    PROVE  \E h \in [1 .. k + 2 -> Nat] : Numbered(h, p, a, k + 1)
<1> DEFINE last == NextAnsNo(g[k + 1], p[k + 1])
           h == [i \in 1 .. k + 2 |-> IF i = k + 2 THEN last ELSE g[i]]
<1>1. last \in Nat
  <2>1. g[k + 1] \in Nat /\ p[k + 1] \in Reply
    OBVIOUS
  <2> QED BY <2>1, NextAnsNoIs
<1>2. h \in [1 .. k + 2 -> Nat]
  <2> HIDE DEF last
  <2> QED BY <1>1
<1>3. h[k + 2] = last /\ \A i \in 1 .. k + 1 : h[i] = g[i]
  <2> HIDE DEF last
  <2> QED OBVIOUS
<1> HIDE DEF h
<1>4. ASSUME NEW i \in 1 .. k + 2
      PROVE  h[i] = IF i = 1 THEN a ELSE NextAnsNo(h[i - 1], p[i - 1])
  <2>1. CASE i = k + 2
    <3>1. i - 1 = k + 1 /\ k + 1 \in 1 .. k + 1 /\ i # 1
      BY <2>1
    <3>2. h[k + 1] = g[k + 1]
      BY <3>1, <1>3
    <3> QED BY <2>1, <3>1, <3>2, <1>3
  <2>2. CASE i # k + 2
    <3>1. i \in 1 .. k + 1 /\ (i # 1 => i - 1 \in 1 .. k + 1)
      BY <2>2
    <3>2. h[i] = g[i] /\ (i # 1 => h[i - 1] = g[i - 1])
      BY <3>1, <1>3
    <3>3. g[i] = IF i = 1 THEN a ELSE NextAnsNo(g[i - 1], p[i - 1])
      BY <3>1 DEF Numbered
    <3> QED BY <3>2, <3>3
  <2> QED BY <2>1, <2>2
<1>5. k + 1 + 1 = k + 2
  OBVIOUS
<1>6. Numbered(h, p, a, k + 1)
  BY <1>4, <1>5 DEF Numbered
<1> QED BY <1>2, <1>6

\* AnsNos numbers all of them.
LEMMA AnsNosIs ==
    ASSUME NEW p \in Seq(Reply), last_ansno_sent \in Nat
    PROVE  /\ AnsNos(p) \in [1 .. Len(p) + 1 -> Nat]
           /\ AnsNos(p)[1] = last_ansno_sent
           /\ \A i \in 1 .. Len(p) : AnsNos(p)[i + 1] = NextAnsNo(AnsNos(p)[i], p[i])
<1> DEFINE a == last_ansno_sent
           n == Len(p)
           T == {k \in Nat : \E g \in [1 .. k + 1 -> Nat] : Numbered(g, p, a, k)}
<1>1. 0 \in T
  <2>1. [i \in 1 .. 1 |-> a] \in [1 .. 0 + 1 -> Nat]
    OBVIOUS
  <2>2. Numbered([i \in 1 .. 1 |-> a], p, a, 0)
    BY DEF Numbered
  <2> QED BY <2>1, <2>2
<1>2. \A k \in 0 .. n - 1 : k \in T => k + 1 \in T
  <2> TAKE k \in 0 .. n - 1
  <2> HAVE k \in T
  <2>1. PICK g \in [1 .. k + 1 -> Nat] : Numbered(g, p, a, k)
    OBVIOUS
  <2>2. \E h \in [1 .. k + 2 -> Nat] : Numbered(h, p, a, k + 1)
    BY <2>1, NumberStep
  <2>3. k + 1 + 1 = k + 2
    OBVIOUS
  <2> QED BY <2>2, <2>3
<1>3. n \in T
  <2> HIDE DEF T
  <2>1. n \in Nat
    OBVIOUS
  <2>2. \A k \in 0 .. n : k \in T
    BY <1>1, <1>2, <2>1, UpTo
  <2> QED BY <2>1, <2>2
<1>4. PICK g \in [1 .. n + 1 -> Nat] : Numbered(g, p, a, n)
  BY <1>3
<1>5. g = [i \in 1 .. Len(p) + 1 |->
              IF i = 1 THEN last_ansno_sent ELSE NextAnsNo(g[i - 1], p[i - 1])]
  BY <1>4 DEF Numbered
<1> DEFINE F == CHOOSE F : F = [i \in 1 .. Len(p) + 1 |->
              IF i = 1 THEN last_ansno_sent ELSE NextAnsNo(F[i - 1], p[i - 1])]
<1>6. AnsNos(p) = F
  BY DEF AnsNos
<1>7. F = [i \in 1 .. Len(p) + 1 |->
              IF i = 1 THEN last_ansno_sent ELSE NextAnsNo(F[i - 1], p[i - 1])]
  BY <1>5
<1> HIDE DEF F
<1>8. F[1] = last_ansno_sent
  BY <1>7
<1>9. ASSUME NEW i \in 1 .. Len(p) PROVE F[i + 1] = NextAnsNo(F[i], p[i])
  <2>1. i + 1 \in 1 .. Len(p) + 1 /\ i + 1 # 1 /\ i + 1 - 1 = i
    OBVIOUS
  <2> QED BY <2>1, <1>7
<1>10. \A i \in 1 .. Len(p) + 1 : F[i] \in Nat
  <2> DEFINE S == {k \in Nat : F[k + 1] \in Nat}
  <2>1. 0 \in S
    BY <1>8
  <2>2. \A k \in 0 .. n - 1 : k \in S => k + 1 \in S
    <3> TAKE k \in 0 .. n - 1
    <3> HAVE k \in S
    <3>1. k + 1 \in 1 .. Len(p) /\ p[k + 1] \in Reply /\ F[k + 1] \in Nat
      OBVIOUS
    <3>2. F[k + 1 + 1] \in Nat
      BY <3>1, <1>9, NextAnsNoIs
    <3> QED BY <3>2
  <2>3. \A k \in 0 .. n : k \in S
    <3>1. n \in Nat
      OBVIOUS
    <3> HIDE DEF S, n
    <3> QED BY <2>1, <2>2, <3>1, UpTo
  <2> TAKE i \in 1 .. Len(p) + 1
  <2>4. i - 1 \in 0 .. n /\ i - 1 + 1 = i
    OBVIOUS
  <2> QED BY <2>3, <2>4
<1> QED BY <1>6, <1>7, <1>8, <1>9, <1>10

-----------------------------------------------------------------------------
(* The pieces that leave with a reply in turn. *)

\* The answers that follow: m whole ones, and what there is of the next.
LEMMA FollowingIs ==
    ASSUME NEW w \in Seq(Numbers)
    PROVE  \E m \in 0 .. Len(w) :
               /\ Following(w) = SubSeq(w, 1, IF m < Len(w) THEN m + 1 ELSE m)
               /\ Whole(Following(w)) = m
               /\ \A i \in 1 .. m : EndsAnswer(stored_replies[w[i]])
               /\ m < Len(w) => ~EndsAnswer(stored_replies[w[m + 1]])
<1> DEFINE S == {n \in 0 .. Len(w) : \A i \in 1 .. n : EndsAnswer(stored_replies[w[i]])}
           m == Max(S)
           k == IF m < Len(w) THEN m + 1 ELSE m
           f == SubSeq(w, 1, k)
<1>1. Len(w) \in Nat
  OBVIOUS
<1>2. 0 \in S
  BY <1>1
<1>3. m \in S /\ \A n \in S : m >= n
  <2> HIDE DEF S
  <2>1. S # {} /\ S \subseteq 0 .. Len(w)
    BY <1>2 DEF S
  <2> QED BY <2>1, <1>1, MaxUpTo
<1>4. m \in 0 .. Len(w) /\ \A i \in 1 .. m : EndsAnswer(stored_replies[w[i]])
  BY <1>3
<1>5. m < Len(w) => ~EndsAnswer(stored_replies[w[m + 1]])
  <2> SUFFICES ASSUME m < Len(w), EndsAnswer(stored_replies[w[m + 1]]) PROVE FALSE
    OBVIOUS
  <2> HIDE DEF m
  <2>1. m + 1 \in S
    BY <1>4, <1>1
  <2> QED BY <2>1, <1>3, <1>4
<1>6. Following(w) = SubSeq(w, 1, Min({m + 1, Len(w)}))
  BY DEF Following
<1> HIDE DEF S, m
<1>7. Min({m + 1, Len(w)}) = k
  BY <1>1, <1>4, MinOfTwo
<1>8. k \in 0 .. Len(w) /\ f \in Seq(Numbers) /\ Len(f) = k /\ \A i \in 1 .. k : f[i] = w[i]
  BY <1>1, <1>4
<1>9. Whole(f) = m
  <2> HIDE DEF f
  <2>1. CASE m < Len(w)
    <3>1. k = m + 1 /\ f # <<>> /\ Last(f) = w[m + 1]
      BY <2>1, <1>4, <1>8 DEF Last
    <3> QED BY <3>1, <1>4, <1>5, <1>8, <2>1 DEF Whole
  <2>2. CASE ~(m < Len(w)) /\ m = 0
    <3>1. k = 0 /\ f = <<>>
      BY <2>2, <1>8
    <3> QED BY <3>1, <1>8, <2>2 DEF Whole
  <2>3. CASE ~(m < Len(w)) /\ m # 0
    <3>1. k = m /\ Last(f) = w[m] /\ m \in 1 .. m
      BY <2>3, <1>4, <1>8 DEF Last
    <3> QED BY <3>1, <1>4, <1>8 DEF Whole
  <2> QED BY <2>1, <2>2, <2>3, <1>4
<1> QED BY <1>4, <1>5, <1>6, <1>7, <1>9

\* A piece that was handed over.
Known(q) == q.part \in 1 .. Len(handed[q.no]) /\ q = handed[q.no][q.part]

\* Pieces of the answer to no, from its beginning.
Part(no, s) ==
    /\ s \in Seq(Reply)
    /\ \A i \in 1 .. Len(s) :
          /\ s[i].no = no /\ Known(s[i])
          /\ IF i = 1 THEN Begins(s[i]) ELSE Continues(s[i - 1], s[i])

\* Pieces that follow each other, from r on, which may be new.
Run(g, r) ==
    /\ g \in Seq(Reply) /\ g # <<>> /\ g[1] = r
    /\ \A i \in 2 .. Len(g) : Known(g[i]) /\ Follows(g[i - 1], g[i])

\* A run to the end of the k-th answer after r's.
WholeRun(g, r, k) == Run(g, r) /\ Ends(g[Len(g)]) /\ g[Len(g)].no = r.no + k

\* A run whose last answer is whole goes on with the next answer.
LEMMA RunGoesOn ==
    ASSUME NEW g, NEW r, Run(g, r), NEW no, NEW s, Part(no, s),
           Ends(g[Len(g)]), no = g[Len(g)].no + 1
    PROVE  /\ Run(g \o s, r)
           /\ s # <<>> => (g \o s)[Len(g \o s)] = s[Len(s)]
           /\ s = <<>> => g \o s = g
<1> DEFINE h == g \o s
<1>1. g \in Seq(Reply) /\ g # <<>> /\ Len(g) \in Nat \ {0} /\ s \in Seq(Reply) /\ Len(s) \in Nat
  BY DEF Run, Part
<1>2. /\ h \in Seq(Reply) /\ Len(h) = Len(g) + Len(s)
      /\ \A i \in 1 .. Len(g) : h[i] = g[i]
      /\ \A i \in 1 .. Len(s) : h[Len(g) + i] = s[i]
  BY <1>1
<1>3. s = <<>> => h = g
  BY <1>1
<1>4. s # <<>> => Len(s) # 0 /\ h[Len(h)] = s[Len(s)]
  BY <1>1, <1>2
<1> HIDE DEF h
<1>5. h # <<>> /\ h[1] = r
  BY <1>1, <1>2 DEF Run
<1>6. ASSUME NEW i \in 2 .. Len(h) PROVE Known(h[i]) /\ Follows(h[i - 1], h[i])
  <2>1. CASE i <= Len(g)
    <3>0. i \in 2 .. Len(g) /\ i \in 1 .. Len(g) /\ i - 1 \in 1 .. Len(g)
      BY <2>1, <1>1, <1>2
    <3>1. i \in 2 .. Len(g) /\ h[i] = g[i] /\ h[i - 1] = g[i - 1]
      BY <3>0, <1>2
    <3> QED BY <3>1 DEF Run
  <2>2. CASE i > Len(g)
    <3> DEFINE j == i - Len(g)
    <3>1. j \in 1 .. Len(s) /\ i = Len(g) + j
      BY <2>2, <1>1, <1>2
    <3> HIDE DEF j
    <3>2. h[i] = s[j] /\ Known(s[j]) /\ s[j].no = no
      BY <3>1, <1>2 DEF Part
    <3>3. CASE j = 1
      <4>1. i - 1 = Len(g) /\ h[i - 1] = g[Len(g)]
        BY <3>1, <3>3, <1>1, <1>2
      <4>2. Begins(s[1])
        BY <3>1, <3>3 DEF Part
      <4> QED BY <3>2, <3>3, <4>1, <4>2 DEF Follows
    <3>4. CASE j # 1
      <4>1. i - 1 = Len(g) + (j - 1) /\ j - 1 \in 1 .. Len(s)
        BY <3>1, <3>4, <1>1
      <4>2. h[i - 1] = s[j - 1]
        BY <4>1, <1>2
      <4>3. Continues(s[j - 1], s[j])
        BY <3>1, <3>4 DEF Part
      <4> QED BY <3>2, <4>2, <4>3 DEF Follows
    <3> QED BY <3>3, <3>4
  <2> QED BY <2>1, <2>2, <1>1, <1>2
<1>7. Run(h, r)
  BY <1>2, <1>5, <1>6 DEF Run
<1> QED BY <1>3, <1>4, <1>7 DEF h

\* Putting sequences behind each other is associative.
LEMMA Associative ==
    ASSUME NEW S, NEW a \in Seq(S), NEW b \in Seq(S), NEW c \in Seq(S)
    PROVE  (a \o b) \o c = a \o (b \o c)
OBVIOUS

\* r and the sequences s behind it, put together step by step.
LEMMA Grown ==
    ASSUME NEW r \in Reply, NEW n \in Nat, NEW s \in [1 .. n -> Seq(Reply)]
    PROVE  \E g : /\ g[0] = <<r>>
                  /\ \A k \in 0 .. n - 1 : g[k + 1] = g[k] \o s[k + 1]
                  /\ <<r>> \o FlattenSeq(s) = g[n]
<1>1. PICK f \in [0 .. n -> Seq(Reply)] :
          /\ f[0] = <<>> /\ \A i \in 1 .. n : f[i] = f[i - 1] \o s[i]
          /\ FlattenSeq(s) = f[n]
  BY Flattened
<1>2. PICK one \in Seq(Reply) : one = <<r>>
  <2>1. <<r>> \in Seq(Reply)
    OBVIOUS
  <2> QED BY ONLY <2>1, Zenon
<1>3. \A k \in 0 .. n - 1 :
          /\ k + 1 \in 1 .. n /\ k + 1 - 1 = k /\ k \in 0 .. n /\ k + 1 \in 0 .. n
          /\ f[k] \in Seq(Reply) /\ s[k + 1] \in Seq(Reply)
  OBVIOUS
<1>4. ASSUME NEW k \in 0 .. n - 1 PROVE one \o f[k + 1] = (one \o f[k]) \o s[k + 1]
  <2>1. k + 1 \in 1 .. n /\ (k + 1) - 1 = k
    BY <1>3
  <2>2. f[k + 1] = f[(k + 1) - 1] \o s[k + 1]
    BY <1>1, <2>1
  <2>3. PICK x \in Seq(Reply), y \in Seq(Reply) : x = f[k] /\ y = s[k + 1]
    BY <1>3
  <2>4. (one \o x) \o y = one \o (x \o y)
    BY Associative
  <2> QED BY <2>1, <2>2, <2>3, <2>4
<1>5. one \o f[0] = one
  BY <1>1, <1>2
<1> DEFINE g == [k \in 0 .. n |-> one \o f[k]]
<1>6. \A k \in 0 .. n : g[k] = one \o f[k]
  OBVIOUS
<1> HIDE DEF g
<1>7. g[0] = one /\ g[n] = one \o FlattenSeq(s)
  <2>1. 0 \in 0 .. n /\ n \in 0 .. n
    OBVIOUS
  <2> QED BY <1>1, <1>5, <1>6, <2>1
<1>8. \A k \in 0 .. n - 1 : g[k + 1] = g[k] \o s[k + 1]
  BY <1>3, <1>4, <1>6
<1> QED BY <1>2, <1>7, <1>8

\* What is queued with r, the last piece of its answer, when m whole answers
\* follow.
LEMMA PiecesAre ==
    ASSUME NEW r \in Reply, Ends(r), NEW w \in Seq(Numbers),
           stored_replies \in [Numbers -> Seq(Reply)],
           \A i \in 1 .. Len(w) : w[i] = r.no + i /\ Part(w[i], stored_replies[w[i]]),
           NEW m \in 0 .. Len(w), NEW follow,
           follow = SubSeq(w, 1, IF m < Len(w) THEN m + 1 ELSE m),
           \A i \in 1 .. m : EndsAnswer(stored_replies[w[i]])
    PROVE  LET p == Pieces(r, follow)
           IN  /\ Run(p, r)
               /\ IF m < Len(w) /\ stored_replies[w[m + 1]] # <<>>
                  THEN p[Len(p)] = stored_replies[w[m + 1]][Len(stored_replies[w[m + 1]])]
                  ELSE Ends(p[Len(p)]) /\ p[Len(p)].no = r.no + m
<1> DEFINE n == Len(follow)
           s == [i \in 1 .. n |-> stored_replies[follow[i]]]
<1>1. Len(w) \in Nat /\ m \in Nat /\ m <= Len(w) /\ r.no \in Int
  BY DEF Reply, Numbers
<1>2. n = (IF m < Len(w) THEN m + 1 ELSE m) /\ n \in Nat /\ \A i \in 1 .. n : follow[i] = w[i]
  BY <1>1
<1>3. \A i \in 1 .. n : s[i] = stored_replies[w[i]] /\ i \in 1 .. Len(w)
  BY <1>1, <1>2
<1>4. s \in [1 .. n -> Seq(Reply)]
  BY <1>3
<1>5. Pieces(r, follow) = <<r>> \o FlattenSeq(s)
  BY DEF Pieces
<1> HIDE DEF n, s
<1>6. PICK g : /\ g[0] = <<r>>
               /\ \A k \in 0 .. n - 1 : g[k + 1] = g[k] \o s[k + 1]
               /\ <<r>> \o FlattenSeq(s) = g[n]
  <2>1. n \in Nat
    BY <1>2
  <2> QED BY ONLY <2>1, <1>4, r \in Reply, Grown
<1>7. ASSUME NEW k \in 0 .. n - 1 PROVE g[k + 1] = g[k] \o stored_replies[w[k + 1]]
  <2>1. k + 1 \in 1 .. n
    BY <1>2
  <2> QED BY <2>1, <1>3, <1>6
<1>11. Pieces(r, follow) = g[n]
  BY <1>5, <1>6
<1> DEFINE T == {k \in Nat : k <= m => WholeRun(g[k], r, k)}
<1>8. 0 \in T
  <2>1. <<r>> \in Seq(Reply) /\ <<r>> # <<>> /\ Len(<<r>>) = 1 /\ <<r>>[1] = r
    OBVIOUS
  <2>2. Run(<<r>>, r)
    BY <2>1 DEF Run
  <2>3. WholeRun(g[0], r, 0)
    BY <2>1, <2>2, <1>1, <1>6 DEF WholeRun
  <2> QED BY <2>3
<1>9. ASSUME NEW k \in 0 .. m - 1, WholeRun(g[k], r, k) PROVE WholeRun(g[k + 1], r, k + 1)
  <2> DEFINE a == stored_replies[w[k + 1]]
  <2>1. k + 1 \in 1 .. m /\ k + 1 \in 1 .. Len(w) /\ k \in 0 .. n - 1
    BY <1>1, <1>2
  <2>2. w[k + 1] = g[k][Len(g[k])].no + 1 /\ Part(w[k + 1], a)
    <3>1. w[k + 1] = r.no + (k + 1) /\ Part(w[k + 1], a)
      BY <2>1
    <3>2. g[k][Len(g[k])].no = r.no + k
      BY <1>9 DEF WholeRun
    <3> QED BY <3>1, <3>2, <1>1
  <2>3. a # <<>> /\ Ends(a[Len(a)]) /\ a \in Seq(Reply) /\ Len(a) \in 1 .. Len(a)
    BY <2>1, <2>2 DEF EndsAnswer, Part
  <2>4. g[k + 1] = g[k] \o a
    BY <2>1, <1>7
  <2>5. a[Len(a)].no = r.no + (k + 1)
    BY <2>1, <2>2, <2>3 DEF Part
  <2> HIDE DEF a
  <2>6. Run(g[k] \o a, r) /\ (g[k] \o a)[Len(g[k] \o a)] = a[Len(a)]
    <3>1. Run(g[k], r) /\ Ends(g[k][Len(g[k])])
      BY <1>9 DEF WholeRun
    <3> QED BY ONLY <3>1, <2>2, <2>3, RunGoesOn
  <2> QED BY <2>3, <2>4, <2>5, <2>6 DEF WholeRun
<1>10. WholeRun(g[m], r, m)
  <2>1. \A k \in 0 .. m - 1 : k \in T => k + 1 \in T
    BY <1>9, <1>1
  <2> HIDE DEF T
  <2>2. \A k \in 0 .. m : k \in T
    BY <1>1, <1>8, <2>1, UpTo
  <2>3. m \in T
    BY <2>2
  <2> QED BY <2>3 DEF T
<1>12. CASE m < Len(w)
  <2> DEFINE a == stored_replies[w[m + 1]]
  <2>1. n = m + 1 /\ m + 1 \in 1 .. Len(w) /\ m \in 0 .. n - 1
    BY <1>2, <1>12
  <2>2. w[m + 1] = g[m][Len(g[m])].no + 1 /\ Part(w[m + 1], a)
    BY <2>1, <1>10, <1>1 DEF WholeRun
  <2>3. g[n] = g[m] \o a
    BY <2>1, <1>7
  <2> HIDE DEF a
  <2>4. /\ Run(g[m] \o a, r)
        /\ a # <<>> => (g[m] \o a)[Len(g[m] \o a)] = a[Len(a)]
        /\ a = <<>> => g[m] \o a = g[m]
    BY <1>10, <2>2, RunGoesOn DEF WholeRun
  <2> QED BY <2>3, <2>4, <1>10, <1>11, <1>12 DEF a, WholeRun
<1>13. CASE ~(m < Len(w))
  <2>1. n = m
    BY <1>13, <1>2
  <2> QED BY <2>1, <1>10, <1>11, <1>13 DEF WholeRun
<1> QED BY <1>12, <1>13

\* The numbers of the pieces of a run, when the first has the right one.
LEMMA RunNumbers ==
    ASSUME NEW p, NEW r, Run(p, r), last_ansno_sent \in Nat,
           r.type = "ANS" => last_ansno_sent = r.part - 1,
           r.type = "RPY" => last_ansno_sent = 0
    PROVE  /\ \A i \in 1 .. Len(p) : p[i].type = "ANS" => AnsNos(p)[i] = p[i].part - 1
           /\ AnsNos(p)[Len(p) + 1] = IF p[Len(p)].type = "ANS" THEN p[Len(p)].part ELSE 0
<1>1. p \in Seq(Reply) /\ Len(p) \in Nat \ {0} /\ p[1] = r
  BY DEF Run
<1> DEFINE a == AnsNos(p)
           n == Len(p) - 1
           Right(i) == /\ p[i].type = "ANS" => a[i] = p[i].part - 1
                       /\ a[i + 1] = IF p[i].type = "ANS" THEN p[i].part ELSE 0
           T == {k \in Nat : Right(k + 1)}
<1>2. a \in [1 .. Len(p) + 1 -> Nat] /\ a[1] = last_ansno_sent
  BY <1>1, AnsNosIs
<1>3. ASSUME NEW i \in 1 .. Len(p)
      PROVE  /\ p[i] \in Reply /\ a[i] \in Nat /\ a[i + 1] = NextAnsNo(a[i], p[i])
             /\ p[i].type = "ANS" => a[i + 1] = a[i] + 1
             /\ p[i].type = "NUL" => a[i + 1] = 0
             /\ p[i].type = "RPY" => a[i + 1] = a[i]
             /\ p[i].type \in {"ANS", "NUL", "RPY"} /\ p[i].part \in Int /\ p[i].no \in Int
  <2>1. p[i] \in Reply /\ i \in 1 .. Len(p) + 1
    BY <1>1
  <2>2. a[i] \in Nat
    BY <1>2, <2>1
  <2>3. a[i + 1] = NextAnsNo(a[i], p[i])
    BY <1>1, AnsNosIs
  <2>4. p[i].type \in {"ANS", "NUL", "RPY"} /\ p[i].part \in Int /\ p[i].no \in Int
    BY <2>1 DEF Reply, Numbers
  <2> QED BY <2>1, <2>2, <2>3, <2>4, NextAnsNoIs
<1> HIDE DEF a
<1>4. Right(1)
  <2>1. 1 \in 1 .. Len(p)
    BY <1>1
  <2> QED BY <2>1, <1>1, <1>2, <1>3
<1>5. ASSUME NEW k \in 0 .. n - 1, Right(k + 1) PROVE Right(k + 2)
  <2>1. k + 1 \in 1 .. Len(p) /\ k + 2 \in 2 .. Len(p) /\ k + 2 \in 1 .. Len(p) /\ (k + 2) - 1 = k + 1
    BY <1>1
  <2>2. Follows(p[k + 1], p[k + 2])
    BY <2>1 DEF Run
  <2>3. (k + 1) + 1 = k + 2
    OBVIOUS
  <2> DEFINE x == p[k + 1]
             y == p[k + 2]
  <2>4. a[k + 2] = IF x.type = "ANS" THEN x.part ELSE 0
    BY <1>5, <2>3
  <2>5. /\ y.type = "ANS" => a[(k + 2) + 1] = a[k + 2] + 1
        /\ y.type = "NUL" => a[(k + 2) + 1] = 0
        /\ y.type = "RPY" => a[(k + 2) + 1] = a[k + 2]
        /\ y.type \in {"ANS", "NUL", "RPY"} /\ x.type \in {"ANS", "NUL", "RPY"}
        /\ x.part \in Int /\ y.part \in Int
    BY <1>3, <2>1
  <2> HIDE DEF x, y
  <2>8. /\ y.type = "ANS" => a[k + 2] = y.part - 1
        /\ a[(k + 2) + 1] = IF y.type = "ANS" THEN y.part ELSE 0
    <3>1. CASE Continues(x, y)
      BY <2>4, <2>5, <3>1 DEF Continues
    <3>2. CASE Ends(x) /\ Begins(y)
      BY <2>4, <2>5, <3>2 DEF Begins, Ends
    <3> QED BY <2>2, <3>1, <3>2 DEF Follows, x, y
  <2> QED BY <2>8 DEF y
<1>6. \A k \in 0 .. n : Right(k + 1)
  <2>1. 0 \in T
    BY <1>4
  <2>2. \A k \in 0 .. n - 1 : k \in T => k + 1 \in T
    <3> TAKE k \in 0 .. n - 1
    <3> HAVE k \in T
    <3> HIDE DEF Right
    <3>1. Right(k + 2)
      BY <1>5
    <3>2. (k + 1) + 1 = k + 2 /\ k + 1 \in Nat
      OBVIOUS
    <3> QED BY <3>1, <3>2
  <2>3. \A k \in 0 .. n : k \in T
    <3>1. n \in Nat
      BY <1>1
    <3> HIDE DEF T, n
    <3> QED BY <3>1, <2>1, <2>2, UpTo
  <2> QED BY <2>3
<1>7. ASSUME NEW i \in 1 .. Len(p) PROVE Right(i)
  <2>1. i - 1 \in 0 .. n /\ (i - 1) + 1 = i
    BY <1>1
  <2> HIDE DEF Right
  <2> QED BY <2>1, <1>6
<1>8. Len(p) \in 1 .. Len(p)
  BY <1>1
<1> QED BY <1>7, <1>8 DEF a

-----------------------------------------------------------------------------
(* The places are numbers. *)

LEMMA PlacesAre ==
    ASSUME TypeOK
    PROVE  /\ MaxCalls \in Nat \ {0} /\ Numbers = 0 .. MaxCalls - 1
           /\ next_proposed_msgno \in -1 .. MaxCalls - 1
           /\ Entering \in -1 .. MaxCalls /\ Arriving \in -1 .. MaxCalls
           /\ Received \in Int /\ Answered \in Int /\ Oldest \in Int
           /\ Received >= Arriving /\ Received <= Arriving + 1
           /\ Answered = Received - Len(incoming_msg)
<1>1. MaxCalls \in Nat \ {0} /\ Numbers = 0 .. MaxCalls - 1
  BY RepliesAssumption DEF RepliesAssumption, Numbers
<1>2. next_proposed_msgno \in -1 .. MaxCalls - 1
  BY DEF TypeOK
<1>3. Entering \in -1 .. MaxCalls
  BY <1>1, <1>2 DEF Entering
<1>4. wire # <<>> => wire[1].no \in Numbers
  <2>1. wire \in Seq([no : Numbers, more : BOOLEAN])
    BY DEF TypeOK
  <2>2. wire # <<>> => 1 \in 1 .. Len(wire)
    BY <2>1
  <2>3. \A i \in 1 .. Len(wire) : wire[i] \in [no : Numbers, more : BOOLEAN]
    BY <2>1, ElementOfSeq
  <2> QED BY <2>2, <2>3
<1>5. Arriving \in -1 .. MaxCalls
  BY <1>1, <1>3, <1>4 DEF Arriving
<1>6. Received \in Int /\ Received >= Arriving /\ Received <= Arriving + 1
  BY <1>5, <1>1 DEF Received
<1>7. Len(incoming_msg) \in Nat /\ Len(outstanding_msg) \in Nat
  BY DEF TypeOK
<1>8. Answered \in Int /\ Oldest \in Int
  BY <1>1, <1>2, <1>6, <1>7 DEF Answered, Oldest
<1> QED BY <1>1, <1>2, <1>3, <1>5, <1>6, <1>8 DEF Answered

-----------------------------------------------------------------------------
(* What is handed over and stored. *)

\* What is stored for a message whose turn has not come is a part of its answer
\* that ends where the answer ends.
LEMMA StoredIs ==
    ASSUME TypeOK, HandedInv, NEW no \in Numbers, no > Answered
    PROVE  /\ Part(no, stored_replies[no])
           /\ EndsAnswer(stored_replies[no]) <=> EndsAnswer(handed[no])
           /\ stored_replies[no] = <<>> <=> handed[no] = <<>>
           /\ handed[no] # <<>> =>
                 stored_replies[no][Len(stored_replies[no])] = handed[no][Len(handed[no])]
<1> DEFINE h == handed[no]
           s == stored_replies[no]
<1>1. h \in Seq(Reply) /\ s \in Seq(Reply) /\ Len(h) \in Nat
  BY DEF TypeOK
<1>2. Shape(no, h) /\ s = Kept(h) /\ (PatientParts => s = h)
  <2>1. Answered \in Int /\ no \in Int
    BY PlacesAre
  <2> QED BY <2>1 DEF HandedInv
<1>3. ASSUME NEW i \in 1 .. Len(h) PROVE Known(h[i]) /\ h[i].no = no
  BY <1>2, <1>3 DEF Known, Shape
<1> HIDE DEF h, s
<1>4. CASE h = <<>>
  <2>1. s = <<>>
    BY <1>2, <1>4 DEF Kept
  <2> QED BY <2>1, <1>1, <1>4 DEF Part, EndsAnswer, h, s
<1>5. CASE h # <<>> /\ h[Len(h)].type = "RPY"
  <2>1. s = <<h[Len(h)]>> /\ Len(h) \in 1 .. Len(h)
    BY <1>1, <1>2, <1>5 DEF Kept
  <2>2. Begins(h[Len(h)])
    <3>1. CASE PatientParts
      <4>1. Len(h) = 1
        BY <1>2, <2>1, <3>1
      <4>2. h[1].part = 1
        BY <1>2, <2>1, <4>1 DEF Shape
      <4> QED BY <4>1, <4>2, <1>5 DEF Begins
    <3>2. CASE ~PatientParts
      BY <3>2, <1>5 DEF Begins
    <3> QED BY <3>1, <3>2
  <2>3. Part(no, s)
    BY <2>1, <2>2, <1>1, <1>3 DEF Part
  <2> QED BY <2>1, <2>3, <1>5 DEF EndsAnswer, h, s
<1>6. CASE h # <<>> /\ h[Len(h)].type # "RPY"
  <2>1. s = h /\ Len(h) \in 1 .. Len(h)
    BY <1>1, <1>2, <1>6 DEF Kept
  <2>2. Begins(h[1])
    BY <1>2, <2>1, <1>1 DEF Shape, Begins
  <2>3. Part(no, h)
    BY <1>1, <1>2, <1>3, <2>2 DEF Part, Shape
  <2> QED BY <2>1, <2>3 DEF EndsAnswer, h, s
<1> QED BY <1>4, <1>5, <1>6

\* What the application may hand over next.
LEMMA NextPieceIs ==
    ASSUME TypeOK, HandedInv, NEW no \in Numbers, ~EndsAnswer(handed[no]),
           NEW r \in NextPieces(no)
    PROVE  /\ r \in Reply /\ r.no = no /\ r.part = Len(handed[no]) + 1
           /\ r.type = "RPY" \/ ~r.more
           /\ Shape(no, Append(handed[no], r))
           /\ PatientParts /\ r.more => no = NextReplyNo
           /\ IF handed[no] = <<>> THEN Begins(r) ELSE Continues(handed[no][Len(handed[no])], r)
<1> DEFINE h == handed[no]
           n == Len(h) + 1
<1>1. h \in Seq(Reply) /\ Len(h) \in Nat
  BY DEF TypeOK
<1>2. Shape(no, h)
  BY DEF HandedInv
<1>3. /\ r.no = no /\ r.part = n /\ r.type \in {"RPY", "ANS", "NUL"} /\ r.more \in BOOLEAN
      /\ r.type = "RPY" \/ ~r.more
      /\ ~Ends(r) => n < MaxParts
      /\ PatientParts /\ r.more => no = NextReplyNo
      /\ n = 1 => r.type # "NUL"
      /\ n # 1 => /\ h[n - 1].type = "RPY" => r.type = "RPY"
                  /\ h[n - 1].type = "ANS" => r.type # "RPY"
      /\ r = [no |-> no, type |-> r.type, more |-> r.more, part |-> n]
  <2> DEFINE last == IF n = 1 THEN [type |-> "none", more |-> TRUE] ELSE h[n - 1]
             Piece(type, more) == [no |-> no, type |-> type, more |-> more, part |-> n]
  <2>1. /\ r \in {Piece("RPY", FALSE), Piece("RPY", TRUE), Piece("ANS", FALSE), Piece("NUL", FALSE)}
        /\ last.type \in {"RPY", "none"} => r.type # "NUL"
        /\ last.type = "RPY" => r.type = "RPY"
        /\ last.type = "ANS" => r.type \in {"ANS", "NUL"}
        /\ ~Ends(r) => n < MaxParts
        /\ PatientParts /\ r.more => no = NextReplyNo
    BY DEF NextPieces
  <2>2. n = 1 => last.type = "none"
    OBVIOUS
  <2>3. n # 1 => last = h[n - 1]
    OBVIOUS
  <2> HIDE DEF last, h, n
  <2>4. /\ r.no = no /\ r.part = n /\ r.type \in {"RPY", "ANS", "NUL"} /\ r.more \in BOOLEAN
        /\ r.type = "RPY" \/ ~r.more
        /\ r = [no |-> no, type |-> r.type, more |-> r.more, part |-> n]
    <3>1. \/ r = [no |-> no, type |-> "RPY", more |-> FALSE, part |-> n]
          \/ r = [no |-> no, type |-> "RPY", more |-> TRUE, part |-> n]
          \/ r = [no |-> no, type |-> "ANS", more |-> FALSE, part |-> n]
          \/ r = [no |-> no, type |-> "NUL", more |-> FALSE, part |-> n]
      BY <2>1
    <3>2. CASE r = [no |-> no, type |-> "RPY", more |-> FALSE, part |-> n]
      BY <3>2
    <3>3. CASE r = [no |-> no, type |-> "RPY", more |-> TRUE, part |-> n]
      BY <3>3
    <3>4. CASE r = [no |-> no, type |-> "ANS", more |-> FALSE, part |-> n]
      BY <3>4
    <3>5. CASE r = [no |-> no, type |-> "NUL", more |-> FALSE, part |-> n]
      BY <3>5
    <3> QED BY <3>1, <3>2, <3>3, <3>4, <3>5
  <2> HIDE DEF Piece
  <2> QED BY <2>1, <2>2, <2>3, <2>4
<1> HIDE DEF h, n
<1>4. h # <<>> => /\ Len(h) \in 1 .. Len(h) /\ n # 1 /\ n - 1 = Len(h) /\ h[Len(h)] \in Reply
                  /\ ~Ends(h[Len(h)]) /\ Len(h) < MaxParts /\ h[Len(h)].no = no
                  /\ h[Len(h)].part = Len(h)
                  /\ h[Len(h)].type \in {"RPY", "ANS"}
  <2> SUFFICES ASSUME h # <<>>
               PROVE  /\ Len(h) \in 1 .. Len(h) /\ n # 1 /\ n - 1 = Len(h) /\ h[Len(h)] \in Reply
                      /\ ~Ends(h[Len(h)]) /\ Len(h) < MaxParts /\ h[Len(h)].no = no
                      /\ h[Len(h)].part = Len(h)
                      /\ h[Len(h)].type \in {"RPY", "ANS"}
    OBVIOUS
  <2>1. Len(h) \in 1 .. Len(h) /\ n # 1 /\ n - 1 = Len(h) /\ h[Len(h)] \in Reply
    BY <1>1 DEF n
  <2>2. ~Ends(h[Len(h)])
    BY DEF EndsAnswer, h
  <2>3. Len(h) < MaxParts /\ h[Len(h)].no = no /\ h[Len(h)].part = Len(h)
        /\ (h[Len(h)].type = "RPY" \/ ~h[Len(h)].more)
    BY <2>1, <2>2, <1>2 DEF Shape
  <2>4. h[Len(h)].type \in {"RPY", "ANS"}
    BY <2>1, <2>2, <2>3 DEF Reply, Ends
  <2> QED BY <2>1, <2>2, <2>3, <2>4
<1>5. n \in 1 .. MaxParts
  <2>1. MaxParts \in Nat \ {0} /\ n = Len(h) + 1 /\ (h = <<>> => n = 1)
    BY RepliesAssumption, <1>1 DEF RepliesAssumption, n
  <2> QED BY <2>1, <1>1, <1>4
<1>6. r \in Reply
  BY <1>3, <1>5 DEF Reply
<1>7. IF h = <<>> THEN Begins(r) ELSE Continues(h[Len(h)], r)
  <2>1. CASE h = <<>>
    <3>1. n = 1
      BY <2>1 DEF n
    <3> QED BY <3>1, <2>1, <1>3 DEF Begins
  <2>2. CASE h # <<>>
    <3>1. r.part = h[Len(h)].part + 1
      BY <2>2, <1>1, <1>3, <1>4 DEF n
    <3>2. h[Len(h)].type = "RPY" <=> r.type = "RPY"
      BY <2>2, <1>3, <1>4
    <3> QED BY <2>2, <3>1, <3>2, <1>3, <1>4 DEF Continues
  <2> QED BY <2>1, <2>2
<1>8. Shape(no, Append(h, r))
  <2> DEFINE a == Append(h, r)
  <2>1. /\ Len(a) = n /\ n \in Nat /\ a[n] = r
        /\ \A i \in 1 .. Len(h) : a[i] = h[i]
    BY <1>1 DEF n
  <2> HIDE DEF a
  <2>2. ASSUME NEW i \in 1 .. Len(a)
        PROVE  /\ a[i].no = no /\ a[i].part = i /\ (a[i].type = "RPY" \/ ~a[i].more)
               /\ a[i].type = "RPY" <=> a[1].type = "RPY"
               /\ ~Ends(a[i]) => i < MaxParts
               /\ IF i = 1 THEN a[i].type # "NUL" ELSE Continues(a[i - 1], a[i])
    <3>1. CASE i \in 1 .. Len(h)
      <4>1. a[i] = h[i] /\ a[1] = h[1] /\ (i # 1 => a[i - 1] = h[i - 1])
        BY <3>1, <1>1, <2>1
      <4> QED BY <3>1, <4>1, <1>2 DEF Shape
    <3>2. CASE i \notin 1 .. Len(h)
      <4>1. i = n /\ a[i] = r
        BY <3>2, <2>1, <1>1 DEF n
      <4>2. CASE h = <<>>
        <5>1. n = 1
          BY <4>2 DEF n
        <5> QED BY <5>1, <4>1, <1>3
      <4>3. CASE h # <<>>
        <5>1. n # 1 /\ a[n - 1] = h[Len(h)] /\ a[1] = h[1] /\ Continues(h[Len(h)], r)
          BY <4>3, <1>4, <1>7, <2>1
        <5>2. h[Len(h)].type = "RPY" <=> h[1].type = "RPY"
          BY <4>3, <1>2, <1>4 DEF Shape
        <5>3. r.type = "RPY" <=> a[1].type = "RPY"
          BY <5>1, <5>2 DEF Continues
        <5> QED BY <4>1, <5>1, <5>3, <1>3
      <4> QED BY <4>2, <4>3
    <3> QED BY <3>1, <3>2
  <2>3. Shape(no, a)
    BY <2>2 DEF Shape
  <2> QED BY <2>3 DEF a
<1> QED BY <1>3, <1>6, <1>7, <1>8 DEF h, n

-----------------------------------------------------------------------------
(* Handing over a piece. *)

\* The message whose turn it is, seen by the code: the first that waits.
LEMMA InTurn ==
    ASSUME TypeOK, ArriveInv, HandedInv, NEW no \in delivered, ~EndsAnswer(handed[no])
    PROVE  /\ no \in Numbers /\ Answered <= no /\ no < Arriving
           /\ incoming_msg # <<>> /\ NextReplyNo = Answered
<1>1. no \in Numbers /\ no < Arriving /\ no \in Int
  BY PlacesAre DEF ArriveInv
<1>2. Answered <= no
  <2>1. ~(no < Answered)
    BY <1>1 DEF HandedInv
  <2> QED BY <1>1, <2>1, PlacesAre
<1>3. incoming_msg \in Seq(Numbers)
  BY DEF TypeOK
<1>4. Len(incoming_msg) > 0
  BY <1>1, <1>2, <1>3, PlacesAre
<1>5. 1 \in 1 .. Len(incoming_msg) /\ incoming_msg # <<>> /\ Head(incoming_msg) = incoming_msg[1]
  BY <1>3, <1>4
<1>6. incoming_msg[1] = Answered + 1 - 1
  BY <1>5 DEF ArriveInv
<1>7. NextReplyNo = Answered
  BY <1>5, <1>6, PlacesAre DEF NextReplyNo
<1> QED BY <1>1, <1>2, <1>5, <1>7

\* The first places do not depend on what is answered.
LEMMA PlacesSame ==
    ASSUME UNCHANGED <<sender, last_fixed_more_msg_no, next_proposed_msgno, wire>>
    PROVE  /\ Entering' = Entering /\ Arriving' = Arriving
           /\ UNCHANGED incoming_msg_frame_fragment => Received' = Received
           /\ UNCHANGED <<incoming_msg, incoming_msg_frame_fragment>> => Answered' = Answered
           /\ UNCHANGED outstanding_msg => Oldest' = Oldest
<1>1. Entering' = Entering
  BY DEF Entering
<1>2. Arriving' = Arriving
  BY <1>1 DEF Arriving
<1>3. UNCHANGED incoming_msg_frame_fragment => Received' = Received
  BY <1>2 DEF Received
<1>4. UNCHANGED <<incoming_msg, incoming_msg_frame_fragment>> => Answered' = Answered
  BY <1>3 DEF Answered
<1>5. UNCHANGED outstanding_msg => Oldest' = Oldest
  BY DEF Oldest
<1> QED BY <1>1, <1>2, <1>3, <1>4, <1>5

\* Handing over r adds it behind the pieces of its message.
LEMMA HandedGrows ==
    ASSUME TypeOK, NEW r \in Reply,
           handed' = [handed EXCEPT ![r.no] = Append(@, r)]
    PROVE  /\ handed' \in [Numbers -> Seq(Reply)]
           /\ r.no \in Numbers
           /\ handed'[r.no] = Append(handed[r.no], r)
           /\ \A no \in Numbers : no # r.no => handed'[no] = handed[no]
           /\ Len(handed'[r.no]) = Len(handed[r.no]) + 1
           /\ Len(handed'[r.no]) \in Nat \ {0} /\ handed'[r.no] # <<>>
           /\ handed'[r.no][Len(handed'[r.no])] = r
           /\ \A i \in 1 .. Len(handed[r.no]) : handed'[r.no][i] = handed[r.no][i]
<1>1. r.no \in Numbers /\ handed \in [Numbers -> Seq(Reply)] /\ handed[r.no] \in Seq(Reply)
  BY DEF TypeOK, Reply
<1>2. handed'[r.no] = Append(handed[r.no], r) /\ \A no \in Numbers : no # r.no => handed'[no] = handed[no]
  BY <1>1
<1>3. handed' \in [Numbers -> Seq(Reply)]
  BY <1>1
<1> QED BY <1>1, <1>2, <1>3

\* What was handed over stays.
LEMMA KnownStays ==
    ASSUME TypeOK, NEW r \in Reply,
           handed' = [handed EXCEPT ![r.no] = Append(@, r)],
           NEW q \in Reply, Known(q)
    PROVE  q.part \in 1 .. Len(handed'[q.no]) /\ q = handed'[q.no][q.part]
<1>1. q.no \in Numbers /\ q.part \in 1 .. Len(handed[q.no]) /\ q = handed[q.no][q.part]
  BY DEF Reply, Known
<1>2. handed[q.no] \in Seq(Reply) /\ Len(handed[q.no]) \in Nat
  BY <1>1 DEF TypeOK
<1>3. CASE q.no = r.no
  BY <1>1, <1>2, <1>3, HandedGrows
<1>4. CASE q.no # r.no
  BY <1>1, <1>4, HandedGrows
<1> QED BY <1>3, <1>4

\* The pieces handed over, with r: what HandedInv says of the message of r
\* and its pieces.
LEMMA HandedShapes ==
    ASSUME TypeOK, ArriveInv, HandedInv, NEW no \in delivered, ~EndsAnswer(handed[no]),
           NEW r \in NextPieces(no),
           handed' = [handed EXCEPT ![r.no] = Append(@, r)], delivered' = delivered
    PROVE  /\ r \in Reply /\ r.no = no
           /\ \A x \in Numbers : Shape(x, handed'[x])
           /\ \A x \in Numbers : x \notin delivered' => handed'[x] = <<>>
           /\ \A x \in Numbers : x # no => handed'[x] = handed[x]
           /\ EndsAnswer(handed'[no]) <=> Ends(r)
<1>1. no \in Numbers
  BY InTurn
<1>2. r \in Reply /\ r.no = no /\ Shape(no, Append(handed[no], r))
  BY <1>1, NextPieceIs
<1>3. handed'[no] = Append(handed[no], r) /\ \A x \in Numbers : x # no => handed'[x] = handed[x]
  BY <1>1, <1>2, HandedGrows
<1>4. EndsAnswer(handed'[no]) <=> Ends(r)
  BY <1>1, <1>2, HandedGrows DEF EndsAnswer
<1>5. ASSUME NEW x \in Numbers
      PROVE  Shape(x, handed'[x]) /\ (x \notin delivered' => handed'[x] = <<>>)
  <2>1. CASE x = no
    BY <1>2, <1>3, <2>1
  <2>2. CASE x # no
    BY <1>3, <2>2 DEF HandedInv
  <2> QED BY <2>1, <2>2
<1> QED BY <1>2, <1>3, <1>4, <1>5

\* The first element of a sequence.
LEMMA AppendEmpty ==
    ASSUME NEW e
    PROVE  Append(<<>>, e) = <<e>>
OBVIOUS

\* A piece out of turn is stored as HandedInv says.
LEMMA StoresKept ==
    ASSUME TypeOK, HandedInv, NEW no \in Numbers, no > Answered, ~EndsAnswer(handed[no]),
           NEW r \in NextPieces(no), NextReplyNo = Answered, StoreReply(r)
    PROVE  /\ stored_replies' \in [Numbers -> Seq(Reply)]
           /\ \A x \in Numbers : x # no => stored_replies'[x] = stored_replies[x]
           /\ stored_replies'[no] = Kept(Append(handed[no], r))
           /\ PatientParts => /\ stored_replies'[no] = Append(handed[no], r)
                              /\ ~Append(handed[no], r)[1].more
<1> DEFINE h == handed[no]
           a == Append(h, r)
           there == stored_replies[no]
           new == IF r.type = "RPY" THEN <<r>>
                  ELSE IF there # <<>> /\ (Head(there).type = "RPY" \/ (r.type = "NUL" /\ EndsAnswer(there)))
                       THEN there ELSE Append(there, r)
<1>1. h \in Seq(Reply) /\ Len(h) \in Nat /\ there \in Seq(Reply)
      /\ stored_replies \in [Numbers -> Seq(Reply)]
  BY DEF TypeOK
<1>2. /\ r \in Reply /\ r.no = no /\ r.type \in {"RPY", "ANS", "NUL"} /\ (r.type = "RPY" \/ ~r.more)
      /\ PatientParts => ~r.more
      /\ IF h = <<>> THEN Begins(r) ELSE Continues(h[Len(h)], r)
  <2>1. no # NextReplyNo
    BY PlacesAre
  <2>2. r.more \in BOOLEAN /\ r.type \in {"RPY", "ANS", "NUL"}
    BY NextPieceIs DEF Reply
  <2> QED BY <2>1, <2>2, NextPieceIs
<1>3. Shape(no, h) /\ there = Kept(h) /\ (PatientParts => there = h /\ (h # <<>> => ~h[1].more))
  <2>1. Answered \in Int /\ no \in Int
    BY PlacesAre
  <2> QED BY <2>1 DEF HandedInv
<1>4. stored_replies' = [stored_replies EXCEPT ![no] = new]
  BY <1>2 DEF StoreReply
<1>5. Len(a) = Len(h) + 1 /\ a[Len(a)] = r /\ a # <<>> /\ (h # <<>> => a[1] = h[1])
      /\ (h = <<>> => a = <<r>>) /\ a \in Seq(Reply)
  <2>1. a \in Seq(Reply) /\ Len(a) = Len(h) + 1 /\ a[Len(a)] = r /\ \A i \in 1 .. Len(h) : a[i] = h[i]
    BY <1>1, <1>2
  <2>2. h = <<>> => a = <<r>>
    BY AppendEmpty, Zenon
  <2> HIDE DEF a, h
  <2>3. h # <<>> => 1 \in 1 .. Len(h)
    BY <1>1
  <2>4. a # <<>>
    BY <2>1, <1>1
  <2> QED BY <2>1, <2>2, <2>3, <2>4
<1>6. ~EndsAnswer(h)
  OBVIOUS
<1> HIDE DEF h, there, a
<1>7. new = Kept(a) /\ (PatientParts => new = a /\ ~a[1].more)
  <2>1. CASE r.type = "RPY"
    <3>1. new = <<r>> /\ Kept(a) = <<r>>
      BY <2>1, <1>5 DEF Kept
    <3>2. ASSUME PatientParts PROVE h = <<>>
      <4> SUFFICES ASSUME h # <<>> PROVE FALSE
        OBVIOUS
      <4>1. h[Len(h)].type = "RPY" /\ ~Ends(h[Len(h)])
        BY <1>2, <2>1 DEF Continues
      <4>2. h = <<h[Len(h)]>>
        BY <3>2, <4>1, <1>3 DEF Kept
      <4>3. h[1] = h[Len(h)]
        BY <4>2
      <4> QED BY <3>2, <4>1, <4>3, <1>3 DEF Ends
    <3> QED BY <3>1, <3>2, <1>2, <1>5
  <2>2. CASE r.type # "RPY"
    <3>1. h # <<>> => h[Len(h)].type # "RPY" /\ Len(h) \in 1 .. Len(h)
      BY <1>1, <1>2, <2>2 DEF Continues
    <3>2. there = h
      BY <3>1, <1>3 DEF Kept
    <3>3. h # <<>> => Head(h) = h[1] /\ h[1].type # "RPY"
      BY <3>1, <1>1, <1>3 DEF Shape
    <3>4. new = a
      BY <2>2, <3>2, <3>3, <1>6 DEF a
    <3>5. Kept(a) = a
      BY <2>2, <1>5 DEF Kept
    <3>6. PatientParts => ~a[1].more
      BY <1>2, <1>3, <1>5, <2>2
    <3> QED BY <3>4, <3>5, <3>6
  <2> QED BY <2>1, <2>2
<1>8. new \in Seq(Reply)
  BY <1>1, <1>2 DEF there
<1> HIDE DEF new
<1>9. stored_replies' \in [Numbers -> Seq(Reply)]
      /\ stored_replies'[no] = new
      /\ \A x \in Numbers : x # no => stored_replies'[x] = stored_replies[x]
  BY <1>1, <1>4, <1>8
<1> QED BY <1>7, <1>9 DEF a, h

\* The sending side when only the answering side moves.
LEMMA SenderSame ==
    ASSUME SendInv, CallInv, OutInv, UNCHANGED sendVars
    PROVE  SendInv' /\ CallInv' /\ OutInv' /\ Oldest' = Oldest /\ Entering' = Entering
<1> USE DEF sendVars
<1>1. SendInv'
  BY DEF SendInv
<1>2. CallInv'
  BY DEF CallInv, Pending
<1>3. Oldest' = Oldest
  BY DEF Oldest
<1>4. OutInv'
  BY <1>3 DEF OutInv
<1>5. Entering' = Entering
  BY DEF Entering
<1> QED BY <1>1, <1>2, <1>3, <1>4, <1>5

\* A piece out of turn is stored.
LEMMA StoreStep ==
    ASSUME Inv, NEW no \in delivered, ~EndsAnswer(handed[no]), NEW r \in NextPieces(no),
           CommonRpy(r), NextReplyNo # no
    PROVE  Inv'
<1>1. TypeOK /\ SendInv /\ CallInv /\ OutInv /\ WireInv /\ ArriveInv /\ HandedInv
      /\ BackInv /\ SeenInv /\ ~accused
  BY DEF Inv
<1>2. no \in Numbers /\ NextReplyNo = Answered /\ no > Answered /\ r \in Reply /\ r.no = no
      /\ no \in Int /\ Answered \in Int
  <2>1. no \in Numbers /\ Answered <= no /\ NextReplyNo = Answered
    BY <1>1, InTurn
  <2> QED BY <2>1, <1>1, NextPieceIs, PlacesAre
<1>3. /\ handed' = [handed EXCEPT ![r.no] = Append(@, r)]
      /\ StoreReply(r)
      /\ UNCHANGED <<incoming_msg, last_ansno_sent, back>>
      /\ UNCHANGED <<setting, sendVars, signal, incoming_msg_frame_fragment, delivered,
                     wire, conn_ok, accused, seen>>
  BY <1>2 DEF CommonRpy
<1>4. /\ stored_replies' \in [Numbers -> Seq(Reply)]
      /\ \A x \in Numbers : x # no => stored_replies'[x] = stored_replies[x]
      /\ stored_replies'[no] = Kept(Append(handed[no], r))
      /\ PatientParts => /\ stored_replies'[no] = Append(handed[no], r)
                         /\ ~Append(handed[no], r)[1].more
  BY <1>1, <1>2, <1>3, StoresKept
<1>5. /\ \A x \in Numbers : Shape(x, handed'[x])
      /\ \A x \in Numbers : x \notin delivered' => handed'[x] = <<>>
      /\ \A x \in Numbers : x # no => handed'[x] = handed[x]
  BY <1>1, <1>3, HandedShapes
<1>6. handed' \in [Numbers -> Seq(Reply)] /\ handed'[no] = Append(handed[no], r)
  BY <1>1, <1>2, <1>3, HandedGrows
<1>7. TypeOK'
  BY <1>1, <1>3, <1>4, <1>6 DEF TypeOK, sendVars
<1>8. SendInv' /\ CallInv' /\ OutInv' /\ Oldest' = Oldest /\ Entering' = Entering
  BY <1>1, <1>3, SenderSame
<1>9. Arriving' = Arriving /\ Answered' = Answered
  <2>1. UNCHANGED <<sender, last_fixed_more_msg_no, next_proposed_msgno, wire>>
    BY <1>3 DEF sendVars
  <2> QED BY <2>1, <1>3, PlacesSame
<1>10. WireInv'
  BY <1>1, <1>3, <1>8 DEF WireInv, sendVars
<1>11. ArriveInv'
  BY <1>1, <1>3, <1>9 DEF ArriveInv, sendVars
<1>12. HandedInv'
  <2> SUFFICES ASSUME NEW x \in Numbers
               PROVE  /\ Shape(x, handed'[x])
                      /\ x \notin delivered' => handed'[x] = <<>>
                      /\ x < Answered => EndsAnswer(handed'[x])
                      /\ x = Answered => ~EndsAnswer(handed'[x])
                      /\ stored_replies'[x] = IF x <= Answered THEN <<>> ELSE Kept(handed'[x])
                      /\ PatientParts /\ x > Answered =>
                            stored_replies'[x] = handed'[x] /\ (handed'[x] # <<>> => ~handed'[x][1].more)
    BY <1>9 DEF HandedInv
  <2>1. CASE x = no
    <3>1. ~(x < Answered) /\ x # Answered /\ ~(x <= Answered)
      BY <2>1, <1>2
    <3>2. Shape(x, handed'[x]) /\ (x \notin delivered' => handed'[x] = <<>>)
      BY <1>5
    <3>3. stored_replies'[x] = Kept(handed'[x])
      BY <2>1, <1>4, <1>6
    <3>4. PatientParts => stored_replies'[x] = handed'[x] /\ ~handed'[x][1].more
      BY <2>1, <1>4, <1>6
    <3> QED BY <3>1, <3>2, <3>3, <3>4
  <2>2. CASE x # no
    BY <2>2, <1>1, <1>4, <1>5 DEF HandedInv
  <2> QED BY <2>1, <2>2
<1>13. HandedFor(Answered)' = HandedFor(Answered)
  BY <1>2, <1>5, <1>9 DEF HandedFor
<1>14. BackInv'
  <2>1. ASSUME NEW i \in 1 .. Len(back)
        PROVE  LET q == back[i].reply
               IN  /\ q.part \in 1 .. Len(handed'[q.no]) /\ q = handed'[q.no][q.part]
                   /\ q.type = "ANS" => back[i].ansno = q.part - 1
                   /\ IF i < Len(back) THEN Follows(q, back[i + 1].reply)
                      ELSE IF Ends(q) THEN Answered = q.no + 1 /\ HandedFor(Answered)' = <<>>
                      ELSE Answered = q.no /\ q = handed'[q.no][Len(handed'[q.no])]
    <3> DEFINE q == back[i].reply
    <3>1. q \in Reply
      <4>1. back \in Seq([reply : Reply, ansno : Nat])
        BY <1>1 DEF TypeOK
      <4>2. back[i] \in [reply : Reply, ansno : Nat]
        BY <4>1, ElementOfSeq
      <4> QED BY <4>2
    <3>2. /\ Known(q)
          /\ q.type = "ANS" => back[i].ansno = q.part - 1
          /\ IF i < Len(back) THEN Follows(q, back[i + 1].reply)
             ELSE IF Ends(q) THEN Answered = q.no + 1 /\ HandedFor(Answered) = <<>>
             ELSE Answered = q.no /\ q = handed[q.no][Len(handed[q.no])]
      BY <1>1 DEF BackInv, Known
    <3>3. q.no \in Numbers
      BY <3>1 DEF Reply
    <3> HIDE DEF q
    <3>4. q.part \in 1 .. Len(handed'[q.no]) /\ q = handed'[q.no][q.part]
      BY <1>1, <1>2, <1>3, <3>1, <3>2, KnownStays
    <3>5. Answered = q.no => handed'[q.no] = handed[q.no]
      BY <3>3, <1>2, <1>5
    <3> QED BY <3>2, <3>4, <3>5, <1>13 DEF q
  <2> QED BY <2>1, <1>1, <1>3, <1>9, <1>13 DEF BackInv
<1>15. SeenInv'
  <2>1. SeenOf(Oldest)' = SeenOf(Oldest)
    BY <1>3, <1>8 DEF SeenOf
  <2>2. CASE back = <<>>
    <3>1. Oldest = Answered
      BY <2>2, <1>1 DEF SeenInv
    <3>2. HandedFor(Oldest)' = HandedFor(Oldest)
      BY <3>1, <1>2, <1>5, <1>8, <1>9 DEF HandedFor
    <3> QED BY <2>1, <2>2, <3>1, <3>2, <1>1, <1>3, <1>8, <1>9 DEF SeenInv
  <2>3. CASE back # <<>>
    BY <2>3, <1>1, <1>3, <1>8, <1>9 DEF SeenInv
  <2> QED BY <2>2, <2>3
<1> QED BY <1>1, <1>3, <1>7, <1>8, <1>10, <1>11, <1>12, <1>14, <1>15 DEF Inv

-----------------------------------------------------------------------------
(* A reply in turn. *)

\* A sequence without its first m elements.
LEMMA RestIs ==
    ASSUME NEW S, NEW w \in Seq(S), NEW m \in 0 .. Len(w)
    PROVE  /\ SubSeq(w, m + 1, Len(w)) \in Seq(S)
           /\ Len(SubSeq(w, m + 1, Len(w))) = Len(w) - m
           /\ \A i \in 1 .. Len(w) - m : SubSeq(w, m + 1, Len(w))[i] = w[m + i]
OBVIOUS

\* The set of the elements of a sequence.
LEMMA ElementsAre ==
    ASSUME NEW S, NEW s \in Seq(S), NEW x
    PROVE  x \in ToSet(s) <=> \E i \in 1 .. Len(s) : s[i] = x
BY DEF ToSet

\* What is queued with a reply in turn, how far the turn goes, and what is left.
Sends(r, p) ==
    /\ p \in Seq(Reply) /\ Run(p, r)
    /\ back' = back \o [i \in 1 .. Len(p) |-> [reply |-> p[i], ansno |-> AnsNos(p)[i]]]
    /\ last_ansno_sent' = AnsNos(p)[Len(p) + 1]
    /\ Answered' \in Int /\ Answered <= Answered' /\ Answered' <= Arriving
    /\ Ends(r) <=> Answered < Answered'
    /\ incoming_msg' \in Seq(Numbers)
    /\ \A i \in 1 .. Len(incoming_msg') : incoming_msg'[i] = Answered' + i - 1
    /\ stored_replies' \in [Numbers -> Seq(Reply)]
    /\ \A x \in Numbers :
          /\ stored_replies'[x] = IF x <= Answered' THEN <<>> ELSE stored_replies[x]
          /\ Answered < x /\ x < Answered' => EndsAnswer(stored_replies[x])
    /\ LET l == p[Len(p)]
       IN  IF Ends(l) THEN Answered' = l.no + 1 /\ HandedFor(Answered)' = <<>>
           ELSE Answered' = l.no /\ l = handed'[l.no][Len(handed'[l.no])]

\* A piece that does not end its answer goes alone.
LEMMA SentAlone ==
    ASSUME TypeOK, ArriveInv, HandedInv, NEW no \in delivered, ~EndsAnswer(handed[no]),
           NEW r \in NextPieces(no), NextReplyNo = no, SendReply(r), ~Ends(r),
           handed' = [handed EXCEPT ![r.no] = Append(@, r)],
           UNCHANGED <<sendVars, incoming_msg_frame_fragment, delivered, wire>>
    PROVE  Sends(r, <<r>>)
<1>1. no \in Numbers /\ no < Arriving /\ no = Answered /\ no \in Int /\ incoming_msg # <<>>
  BY InTurn, PlacesAre
<1>2. r \in Reply /\ r.no = no
  BY <1>1, NextPieceIs
<1> DEFINE w == incoming_msg
           follow == Following(w)
           pieces == Pieces(r, follow)
<1>3. w \in Seq(Numbers) /\ Len(w) \in Nat \ {0} /\ w[1] = no
  <2>1. w \in Seq(Numbers) /\ Len(w) \in Nat \ {0}
    BY <1>1 DEF TypeOK
  <2>2. w[1] = Answered + 1 - 1
    BY <2>1 DEF ArriveInv
  <2> QED BY <2>1, <2>2, <1>1
<1>4. stored_replies \in [Numbers -> Seq(Reply)] /\ stored_replies[no] = <<>>
  BY <1>1 DEF TypeOK, HandedInv
<1>5. /\ back' = back \o [i \in 1 .. Len(pieces) |-> [reply |-> pieces[i], ansno |-> AnsNos(pieces)[i]]]
      /\ last_ansno_sent' = AnsNos(pieces)[Len(pieces) + 1]
      /\ incoming_msg' = SubSeq(w, Whole(follow) + 1, Len(w))
      /\ stored_replies' = [x \in Numbers |-> IF x \in ToSet(follow) THEN <<>> ELSE stored_replies[x]]
  BY DEF SendReply
<1> HIDE DEF w
<1>6. Whole(follow) = 0 /\ follow = SubSeq(w, 1, 1)
  <2>1. PICK m \in 0 .. Len(w) :
               /\ follow = SubSeq(w, 1, IF m < Len(w) THEN m + 1 ELSE m)
               /\ Whole(follow) = m
               /\ \A i \in 1 .. m : EndsAnswer(stored_replies[w[i]])
    BY <1>3, FollowingIs
  <2>2. m = 0
    <3> SUFFICES ASSUME m # 0 PROVE FALSE
      OBVIOUS
    <3>1. 1 \in 1 .. m
      BY <1>3
    <3> QED BY <3>1, <2>1, <1>3, <1>4 DEF EndsAnswer
  <2> QED BY <2>1, <2>2, <1>3
<1>7. follow \in Seq(Numbers) /\ Len(follow) = 1 /\ follow[1] = no
  BY <1>3, <1>6
<1> HIDE DEF follow
<1>8. pieces = <<r>>
  <2> DEFINE s == [i \in 1 .. Len(follow) |-> stored_replies[follow[i]]]
  <2>1. s \in [1 .. 1 -> Seq(Reply)] /\ s[1] = <<>>
    BY <1>4, <1>7
  <2>2. pieces = <<r>> \o FlattenSeq(s)
    BY DEF Pieces
  <2> HIDE DEF s
  <2>3. PICK g : /\ g[0] = <<r>>
                 /\ \A k \in 0 .. 1 - 1 : g[k + 1] = g[k] \o s[k + 1]
                 /\ <<r>> \o FlattenSeq(s) = g[1]
    BY <2>1, <1>2, Grown
  <2>4. g[0 + 1] = g[0] \o s[0 + 1]
    <3>1. 0 \in 0 .. 1 - 1
      OBVIOUS
    <3> QED BY <2>3, <3>1, Zenon
  <2>5. g[1] = <<r>> \o <<>>
    BY <2>1, <2>3, <2>4
  <2>6. <<r>> \in Seq(Reply)
    BY <1>2
  <2> QED BY <2>2, <2>3, <2>5, <2>6, ConcatEmptySeq
<1>9. incoming_msg' = incoming_msg
  BY <1>3, <1>5, <1>6 DEF w
<1>10. Answered' = Answered
  <2>1. UNCHANGED <<sender, last_fixed_more_msg_no, next_proposed_msgno, wire>>
    BY DEF sendVars
  <2> QED BY <2>1, <1>9, PlacesSame
<1>11. ASSUME NEW x \in Numbers
       PROVE  /\ stored_replies'[x] = IF x <= Answered' THEN <<>> ELSE stored_replies[x]
              /\ Answered < x /\ x < Answered' => EndsAnswer(stored_replies[x])
  <2>1. x \in ToSet(follow) <=> x = no
    BY <1>7, ElementsAre
  <2>2. stored_replies'[x] = IF x = no THEN <<>> ELSE stored_replies[x]
    BY <1>5, <2>1
  <2>3. x <= Answered => stored_replies[x] = <<>>
    BY DEF HandedInv
  <2>4. x \in Int /\ Answered \in Int
    BY PlacesAre
  <2> QED BY <2>2, <2>3, <2>4, <1>1, <1>10
<1>12. stored_replies' \in [Numbers -> Seq(Reply)]
  BY <1>4, <1>5
<1>13. \A i \in 1 .. Len(incoming_msg') : incoming_msg'[i] = Answered' + i - 1
  BY <1>9, <1>10 DEF ArriveInv
<1>14. Run(<<r>>, r) /\ <<r>> \in Seq(Reply) /\ Len(<<r>>) = 1 /\ <<r>>[1] = r
  BY <1>2 DEF Run
<1>15. r = handed'[r.no][Len(handed'[r.no])]
  BY <1>2, HandedGrows
<1>16. incoming_msg' \in Seq(Numbers)
  BY <1>3, <1>9 DEF w
<1>17. Answered \in Int /\ Answered <= Arriving
  BY PlacesAre DEF ArriveInv
<1> HIDE DEF pieces
<1> QED BY <1>1, <1>2, <1>5, <1>8, <1>10, <1>11, <1>12, <1>13, <1>14, <1>15, <1>16, <1>17 DEF Sends

\* A piece that ends its answer goes with what follows.
LEMMA SentWhole ==
    ASSUME TypeOK, ArriveInv, HandedInv, NEW no \in delivered, ~EndsAnswer(handed[no]),
           NEW r \in NextPieces(no), NextReplyNo = no, SendReply(r), Ends(r),
           handed' = [handed EXCEPT ![r.no] = Append(@, r)],
           UNCHANGED <<sendVars, incoming_msg_frame_fragment, delivered, wire>>
    PROVE  \E p : Sends(r, p)
<1>1. no \in Numbers /\ no < Arriving /\ no = Answered /\ no \in Int /\ incoming_msg # <<>>
  BY InTurn, PlacesAre
<1>2. r \in Reply /\ r.no = no
  BY <1>1, NextPieceIs
<1> DEFINE w == Tail(incoming_msg)
           follow == Following(w)
           pieces == Pieces(r, follow)
<1>3. /\ w \in Seq(Numbers) /\ Len(w) \in Nat /\ Len(w) = Len(incoming_msg) - 1
      /\ \A i \in 1 .. Len(w) : w[i] = Answered + i /\ w[i] \in Numbers
  <2>1. incoming_msg \in Seq(Numbers) /\ Len(incoming_msg) \in Nat \ {0}
    BY <1>1 DEF TypeOK
  <2>2. w \in Seq(Numbers) /\ Len(w) = Len(incoming_msg) - 1
        /\ \A i \in 1 .. Len(w) : w[i] = incoming_msg[i + 1]
    BY <2>1
  <2> HIDE DEF w
  <2>3. ASSUME NEW i \in 1 .. Len(w) PROVE w[i] = Answered + i /\ w[i] \in Numbers
    <3>1. i + 1 \in 1 .. Len(incoming_msg) /\ i \in Int
      BY <2>1, <2>2
    <3>2. incoming_msg[i + 1] = Answered + (i + 1) - 1
      BY <3>1 DEF ArriveInv
    <3>3. incoming_msg[i + 1] \in Numbers
      BY <3>1, <2>1, ElementOfSeq
    <3>4. Answered \in Int
      BY PlacesAre
    <3>5. Answered + (i + 1) - 1 = Answered + i
      BY ONLY <3>1, <3>4
    <3> QED BY ONLY <2>2, <3>2, <3>3, <3>5
  <2> QED BY <2>1, <2>2, <2>3
<1>4. stored_replies \in [Numbers -> Seq(Reply)]
  BY DEF TypeOK
<1>5. /\ back' = back \o [i \in 1 .. Len(pieces) |-> [reply |-> pieces[i], ansno |-> AnsNos(pieces)[i]]]
      /\ last_ansno_sent' = AnsNos(pieces)[Len(pieces) + 1]
      /\ incoming_msg' = SubSeq(w, Whole(follow) + 1, Len(w))
      /\ stored_replies' = [x \in Numbers |-> IF x \in ToSet(follow) THEN <<>> ELSE stored_replies[x]]
  BY DEF SendReply
<1> HIDE DEF w
<1>6. PICK m \in 0 .. Len(w) :
               /\ follow = SubSeq(w, 1, IF m < Len(w) THEN m + 1 ELSE m)
               /\ Whole(follow) = m
               /\ \A i \in 1 .. m : EndsAnswer(stored_replies[w[i]])
               /\ m < Len(w) => ~EndsAnswer(stored_replies[w[m + 1]])
  BY <1>3, FollowingIs
<1> DEFINE k == IF m < Len(w) THEN m + 1 ELSE m
<1>7. follow \in Seq(Numbers) /\ Len(follow) = k /\ \A i \in 1 .. k : follow[i] = w[i] /\ i \in 1 .. Len(w)
  BY <1>3, <1>6
<1> HIDE DEF follow
<1>8. m \in Nat /\ m <= Len(w) /\ k \in Nat /\ k <= Len(w) /\ Answered \in Int
  BY <1>3, PlacesAre
<1>9. incoming_msg' \in Seq(Numbers) /\ Len(incoming_msg') = Len(w) - m
      /\ \A i \in 1 .. Len(w) - m : incoming_msg'[i] = w[m + i]
  <2>1. incoming_msg' = SubSeq(w, m + 1, Len(w))
    BY <1>5, <1>6
  <2> QED BY ONLY <2>1, <1>3, m \in 0 .. Len(w), RestIs
<1>10. Answered' = Answered + 1 + m
  <2>1. UNCHANGED <<sender, last_fixed_more_msg_no, next_proposed_msgno, wire>>
    BY DEF sendVars
  <2>2. Received' = Received
    BY <2>1, PlacesSame
  <2>3. Answered' = Received - Len(incoming_msg')
    BY <2>2 DEF Answered
  <2>4. Answered = Received - Len(incoming_msg) /\ Received \in Int
    BY PlacesAre
  <2> QED BY <2>3, <2>4, <1>3, <1>8, <1>9
<1>11. \A i \in 1 .. Len(incoming_msg') : incoming_msg'[i] = Answered' + i - 1
  <2> TAKE i \in 1 .. Len(incoming_msg')
  <2>1. i \in 1 .. Len(w) - m /\ m + i \in 1 .. Len(w) /\ i \in Int
    BY <1>8, <1>9, <1>3
  <2>2. incoming_msg'[i] = Answered + (m + i)
    BY <2>1, <1>3, <1>9
  <2> QED BY <2>1, <2>2, <1>8, <1>10
<1>12. ASSUME NEW i \in 1 .. Len(w)
       PROVE  /\ Part(w[i], stored_replies[w[i]])
              /\ EndsAnswer(stored_replies[w[i]]) => w[i] < Arriving
  <2>1. w[i] \in Numbers /\ w[i] > Answered
    BY <1>3, <1>8
  <2>2. /\ Part(w[i], stored_replies[w[i]])
        /\ EndsAnswer(stored_replies[w[i]]) <=> EndsAnswer(handed[w[i]])
    BY <2>1, StoredIs
  <2>3. EndsAnswer(handed[w[i]]) => w[i] \in delivered
    BY <2>1 DEF EndsAnswer, HandedInv
  <2> QED BY <2>2, <2>3 DEF ArriveInv
<1>13. Answered' <= Arriving
  <2>1. CASE m = 0
    <3>1. Arriving \in Int
      BY PlacesAre
    <3> QED BY <3>1, <2>1, <1>1, <1>8, <1>10
  <2>2. CASE m # 0
    <3>1. m \in 1 .. m /\ m \in 1 .. Len(w)
      BY <2>2, <1>8
    <3>2. w[m] < Arriving /\ w[m] = Answered + m
      BY <3>1, <1>3, <1>6, <1>12
    <3>3. Arriving \in Int
      BY PlacesAre
    <3> QED BY <3>2, <3>3, <1>8, <1>10
  <2> QED BY <2>1, <2>2
<1>14. ASSUME NEW x \in Numbers, x \notin delivered
       PROVE  handed[x] = <<>> /\ stored_replies[x] = <<>>
  <2>1. handed[x] = <<>>
    BY <1>14 DEF HandedInv
  <2>2. CASE x <= Answered
    BY <2>1, <2>2 DEF HandedInv
  <2>3. CASE ~(x <= Answered)
    <3>1. x > Answered
      BY <2>3, <1>8, PlacesAre
    <3> QED BY <3>1, <2>1, StoredIs
  <2> QED BY <2>1, <2>2, <2>3
<1>15. m = Len(w) => Answered' = Received
  BY <1>3, <1>8, <1>10, PlacesAre
<1>16. m = Len(w) /\ Answered' \in Numbers => Answered' \notin delivered
  <2>1. Received >= Arriving /\ Received \in Int /\ Arriving \in Int
    BY PlacesAre
  <2> QED BY <2>1, <1>15 DEF ArriveInv
<1>17. ASSUME NEW x \in Numbers
       PROVE  /\ stored_replies'[x] = IF x <= Answered' THEN <<>> ELSE stored_replies[x]
              /\ Answered < x /\ x < Answered' => EndsAnswer(stored_replies[x])
  <2>1. x \in Int
    BY PlacesAre
  <2>2. x \in ToSet(follow) <=> Answered < x /\ x <= Answered + k
    <3>1. x \in ToSet(follow) <=> \E i \in 1 .. k : w[i] = x
      <4> HIDE DEF k
      <4>1. x \in ToSet(follow) <=> \E i \in 1 .. k : follow[i] = x
        BY <1>7, ElementsAre
      <4> QED BY <4>1, <1>7
    <3>2. \A i \in 1 .. k : w[i] = Answered + i
      BY <1>3, <1>7
    <3>3. ASSUME Answered < x, x <= Answered + k PROVE \E i \in 1 .. k : w[i] = x
      <4>1. x - Answered \in 1 .. k /\ Answered + (x - Answered) = x
        BY <3>3, <2>1, <1>8
      <4> QED BY <4>1, <3>2
    <3>4. ASSUME NEW i \in 1 .. k, w[i] = x PROVE Answered < x /\ x <= Answered + k
      <4>1. x = Answered + i
        BY <3>2, <3>4
      <4> QED BY <4>1, <1>8
    <3> QED BY <3>1, <3>3, <3>4
  <2>3. stored_replies'[x] = IF Answered < x /\ x <= Answered + k THEN <<>> ELSE stored_replies[x]
    BY <1>5, <2>2
  <2>4. x <= Answered => stored_replies[x] = <<>>
    BY DEF HandedInv
  <2>5. stored_replies'[x] = IF x <= Answered' THEN <<>> ELSE stored_replies[x]
    <3>1. CASE m < Len(w)
      <4>1. k = m + 1
        BY <3>1
      <4> QED BY <4>1, <2>1, <2>3, <2>4, <1>8, <1>10
    <3>2. CASE ~(m < Len(w))
      <4>1. k = m /\ m = Len(w)
        BY <3>2, <1>8
      <4>2. x = Answered' => stored_replies[x] = <<>>
        BY <4>1, <1>14, <1>16
      <4> QED BY <4>1, <4>2, <2>1, <2>3, <2>4, <1>8, <1>10
    <3> QED BY <3>1, <3>2
  <2>6. ASSUME Answered < x, x < Answered' PROVE EndsAnswer(stored_replies[x])
    <3>1. x - Answered \in 1 .. m /\ x - Answered \in 1 .. Len(w) /\ Answered + (x - Answered) = x
      BY <2>6, <2>1, <1>8, <1>10
    <3>2. w[x - Answered] = x
      BY <3>1, <1>3
    <3> QED BY <3>1, <3>2, <1>6
  <2> QED BY <2>5, <2>6
<1>18. stored_replies' \in [Numbers -> Seq(Reply)]
  BY <1>4, <1>5
<1>19. /\ Run(pieces, r)
       /\ IF m < Len(w) /\ stored_replies[w[m + 1]] # <<>>
          THEN pieces[Len(pieces)] = stored_replies[w[m + 1]][Len(stored_replies[w[m + 1]])]
          ELSE Ends(pieces[Len(pieces)]) /\ pieces[Len(pieces)].no = r.no + m
  <2>1. \A i \in 1 .. Len(w) : w[i] = r.no + i /\ Part(w[i], stored_replies[w[i]])
    BY <1>1, <1>2, <1>3, <1>12
  <2>2. follow = SubSeq(w, 1, IF m < Len(w) THEN m + 1 ELSE m)
        /\ \A i \in 1 .. m : EndsAnswer(stored_replies[w[i]])
    BY <1>6
  <2>3. r \in Reply /\ Ends(r) /\ w \in Seq(Numbers) /\ m \in 0 .. Len(w)
    BY <1>2, <1>3
  <2>4. LET p == Pieces(r, follow)
        IN  /\ Run(p, r)
            /\ IF m < Len(w) /\ stored_replies[w[m + 1]] # <<>>
               THEN p[Len(p)] = stored_replies[w[m + 1]][Len(stored_replies[w[m + 1]])]
               ELSE Ends(p[Len(p)]) /\ p[Len(p)].no = r.no + m
    BY ONLY <2>1, <2>2, <2>3, <1>4, PiecesAre
  <2> QED BY <2>4
<1> HIDE DEF pieces
<1>20. \A x \in Numbers : x # no => handed'[x] = handed[x]
  BY <1>2, HandedGrows
<1>21. LET l == pieces[Len(pieces)]
       IN  IF Ends(l) THEN Answered' = l.no + 1 /\ HandedFor(Answered)' = <<>>
           ELSE Answered' = l.no /\ l = handed'[l.no][Len(handed'[l.no])]
  <2>1. CASE m < Len(w) /\ stored_replies[w[m + 1]] # <<>>
    <3> DEFINE x == w[m + 1]
               s == stored_replies[x]
               l == pieces[Len(pieces)]
    <3>1. m + 1 \in 1 .. Len(w) /\ x \in Numbers /\ x = Answered + (m + 1) /\ x # no /\ x > Answered
      BY <2>1, <1>1, <1>3, <1>8
    <3>2. s # <<>> /\ l = s[Len(s)] /\ ~EndsAnswer(s)
      BY <2>1, <1>6, <1>19
    <3>3. Part(x, s) /\ (handed[x] # <<>> => s[Len(s)] = handed[x][Len(handed[x])])
          /\ (s = <<>> <=> handed[x] = <<>>)
      BY <3>1, StoredIs
    <3>4. ~Ends(l)
      BY <3>2 DEF EndsAnswer
    <3>5. Len(s) \in 1 .. Len(s)
      BY <3>2, <3>3 DEF Part
    <3>6. l.no = x
      BY <3>2, <3>3, <3>5 DEF Part
    <3>7. l = handed'[x][Len(handed'[x])]
      BY <3>1, <3>2, <3>3, <1>20
    <3>8. Answered' = x
      BY <3>1, <1>8, <1>10
    <3> QED BY <3>4, <3>6, <3>7, <3>8
  <2>2. CASE ~(m < Len(w) /\ stored_replies[w[m + 1]] # <<>>)
    <3> DEFINE l == pieces[Len(pieces)]
    <3>1. Ends(l) /\ l.no = r.no + m
      BY <2>2, <1>19
    <3>2. Answered' = l.no + 1
      BY <3>1, <1>1, <1>2, <1>8, <1>10
    <3>3. HandedFor(Answered)' = <<>>
      <4> SUFFICES ASSUME Answered' \in Numbers PROVE handed'[Answered'] = <<>>
        BY DEF HandedFor
      <4>1. Answered' # no
        BY <1>1, <1>8, <1>10
      <4>2. handed[Answered'] = <<>>
        <5>1. CASE m < Len(w)
          <6>1. m + 1 \in 1 .. Len(w) /\ w[m + 1] = Answered' /\ Answered' > Answered
            BY <5>1, <1>3, <1>8, <1>10
          <6>2. stored_replies[Answered'] = <<>>
            BY <5>1, <6>1, <2>2
          <6>3. PICK y \in Numbers : y = Answered'
            OBVIOUS
          <6>4. stored_replies[y] = <<>> /\ y > Answered
            BY <6>1, <6>2, <6>3
          <6>5. handed[y] = <<>>
            BY <6>4, StoredIs
          <6> QED BY <6>3, <6>5
        <5>2. CASE ~(m < Len(w))
          <6>1. m = Len(w)
            BY <5>2, <1>8
          <6>2. PICK y \in Numbers : y = Answered'
            OBVIOUS
          <6>3. y \notin delivered
            BY <6>1, <6>2, <1>16
          <6>4. handed[y] = <<>>
            BY <6>3, <1>14
          <6> QED BY <6>2, <6>4
        <5> QED BY <5>1, <5>2
      <4> QED BY <4>1, <4>2, <1>20
    <3> QED BY <3>1, <3>2, <3>3
  <2> QED BY <2>1, <2>2
<1>22. Sends(r, pieces)
  <2>1. pieces \in Seq(Reply)
    BY <1>19 DEF Run
  <2>2. Answered' \in Int /\ Answered < Answered'
    BY <1>8, <1>10
  <2>3. Answered <= Answered'
    BY <2>2, <1>8
  <2> QED BY <2>1, <2>2, <2>3, <1>5, <1>9, <1>11, <1>13, <1>17, <1>18, <1>19, <1>21 DEF Sends
<1> QED BY <1>22
\* Two sequences, one after the other.
LEMMA ConcatIs ==
    ASSUME NEW S, NEW a \in Seq(S), NEW b \in Seq(S)
    PROVE  /\ a \o b \in Seq(S) /\ Len(a \o b) = Len(a) + Len(b)
           /\ \A i \in 1 .. Len(a) : (a \o b)[i] = a[i]
           /\ \A i \in 1 .. Len(b) : (a \o b)[Len(a) + i] = b[i]
OBVIOUS

\* The list of what is queued, element by element.
LEMMA QueuedIs ==
    ASSUME TypeOK, NEW r, NEW p, Sends(r, p)
    PROVE  /\ back' \in Seq([reply : Reply, ansno : Nat])
           /\ Len(back') = Len(back) + Len(p) /\ Len(back) \in Nat /\ Len(p) \in Nat \ {0}
           /\ \A i \in 1 .. Len(back) : back'[i] = back[i]
           /\ \A i \in 1 .. Len(p) : /\ back'[Len(back) + i].reply = p[i]
                                     /\ back'[Len(back) + i].ansno = AnsNos(p)[i]
           /\ last_ansno_sent' \in Nat
<1>1. p \in Seq(Reply) /\ p # <<>> /\ Len(p) \in Nat \ {0}
  BY DEF Sends, Run
<1>2. back \in Seq([reply : Reply, ansno : Nat]) /\ last_ansno_sent \in Nat
  BY DEF TypeOK
<1>3. AnsNos(p) \in [1 .. Len(p) + 1 -> Nat]
  BY <1>1, <1>2, AnsNosIs
<1> DEFINE t == [i \in 1 .. Len(p) |-> [reply |-> p[i], ansno |-> AnsNos(p)[i]]]
<1>4. ASSUME NEW i \in 1 .. Len(p)
      PROVE  [reply |-> p[i], ansno |-> AnsNos(p)[i]] \in [reply : Reply, ansno : Nat]
  <2>1. p[i] \in Reply
    BY <1>1, ElementOfSeq
  <2>2. AnsNos(p)[i] \in Nat
    BY <1>1, <1>3
  <2> QED BY <2>1, <2>2
<1>5. t \in Seq([reply : Reply, ansno : Nat]) /\ Len(t) = Len(p)
  BY <1>1, <1>4
<1>6. \A i \in 1 .. Len(p) : t[i].reply = p[i] /\ t[i].ansno = AnsNos(p)[i]
  OBVIOUS
<1>7. back' = back \o t
  BY DEF Sends
<1> HIDE DEF t
<1> DEFINE B == [reply : Reply, ansno : Nat]
<1>8. /\ back' \in Seq([reply : Reply, ansno : Nat])
      /\ Len(back') = Len(back) + Len(p) /\ Len(back) \in Nat
      /\ \A i \in 1 .. Len(back) : back'[i] = back[i]
      /\ \A i \in 1 .. Len(p) : back'[Len(back) + i] = t[i]
  <2>1. Len(back) \in Nat
    BY <1>2
  <2>2. back \in Seq(B) /\ t \in Seq(B)
    BY <1>2, <1>5
  <2> HIDE DEF B
  <2>3. /\ back \o t \in Seq(B)
        /\ Len(back \o t) = Len(back) + Len(t)
        /\ \A i \in 1 .. Len(back) : (back \o t)[i] = back[i]
        /\ \A i \in 1 .. Len(t) : (back \o t)[Len(back) + i] = t[i]
    BY ONLY <2>2, ConcatIs
  <2> QED BY ONLY <2>1, <2>3, <1>5, <1>7 DEF B
<1>9. last_ansno_sent' \in Nat
  <2>1. Len(p) + 1 \in 1 .. Len(p) + 1
    BY <1>1
  <2> QED BY <2>1, <1>3 DEF Sends
<1> QED BY <1>1, <1>6, <1>8, <1>9

\* A piece in turn, and what follows it, is queued.
LEMMA SendStep ==
    ASSUME Inv, NEW no \in delivered, ~EndsAnswer(handed[no]), NEW r \in NextPieces(no),
           CommonRpy(r), NextReplyNo = no
    PROVE  Inv'
<1>1. TypeOK /\ SendInv /\ CallInv /\ OutInv /\ WireInv /\ ArriveInv /\ HandedInv
      /\ BackInv /\ SeenInv /\ ~accused
  BY DEF Inv
<1>2. no \in Numbers /\ no = Answered /\ no < Arriving
  BY <1>1, InTurn
<1>3. /\ r \in Reply /\ r.no = no /\ r.part = Len(handed[no]) + 1
      /\ IF handed[no] = <<>> THEN Begins(r) ELSE Continues(handed[no][Len(handed[no])], r)
  BY <1>1, <1>2, NextPieceIs
<1>4. /\ handed' = [handed EXCEPT ![r.no] = Append(@, r)]
      /\ SendReply(r)
      /\ UNCHANGED <<setting, sendVars, signal, incoming_msg_frame_fragment, delivered,
                     wire, conn_ok, accused, seen>>
  BY <1>3 DEF CommonRpy
<1>5. PICK p : Sends(r, p)
  <2>1. CASE Ends(r)
    BY <2>1, <1>1, <1>4, SentWhole
  <2>2. CASE ~Ends(r)
    <3>1. Sends(r, <<r>>)
      BY <2>2, <1>1, <1>4, SentAlone
    <3> QED BY <3>1
  <2> QED BY <2>1, <2>2
<1>6. /\ \A x \in Numbers : Shape(x, handed'[x])
      /\ \A x \in Numbers : x \notin delivered' => handed'[x] = <<>>
      /\ \A x \in Numbers : x # no => handed'[x] = handed[x]
      /\ EndsAnswer(handed'[no]) <=> Ends(r)
  BY <1>1, <1>4, HandedShapes
<1>7. /\ handed' \in [Numbers -> Seq(Reply)] /\ handed'[no] = Append(handed[no], r)
      /\ Len(handed'[no]) = Len(handed[no]) + 1
      /\ handed'[no][Len(handed'[no])] = r
      /\ Len(handed[no]) \in Nat
  <2>1. Len(handed[no]) \in Nat
    BY <1>1, <1>2 DEF TypeOK
  <2> QED BY <2>1, <1>1, <1>3, <1>4, HandedGrows
<1>8. /\ back' \in Seq([reply : Reply, ansno : Nat])
      /\ Len(back') = Len(back) + Len(p) /\ Len(back) \in Nat /\ Len(p) \in Nat \ {0}
      /\ \A i \in 1 .. Len(back) : back'[i] = back[i]
      /\ \A i \in 1 .. Len(p) : /\ back'[Len(back) + i].reply = p[i]
                                /\ back'[Len(back) + i].ansno = AnsNos(p)[i]
      /\ last_ansno_sent' \in Nat
  BY <1>1, <1>5, QueuedIs
<1>9. TypeOK'
  BY <1>1, <1>4, <1>5, <1>7, <1>8 DEF TypeOK, sendVars, Sends
<1>10. SendInv' /\ CallInv' /\ OutInv' /\ Oldest' = Oldest /\ Entering' = Entering
  BY <1>1, <1>4, SenderSame
<1>11. Arriving' = Arriving
  <2>1. UNCHANGED <<sender, last_fixed_more_msg_no, next_proposed_msgno, wire>>
    BY <1>4 DEF sendVars
  <2> QED BY <2>1, PlacesSame
<1>12. WireInv'
  BY <1>1, <1>4, <1>10 DEF WireInv, sendVars
<1>13. /\ Answered \in Int /\ Answered' \in Int /\ Answered <= Answered' /\ Answered' <= Arriving
       /\ Ends(r) <=> Answered < Answered'
  BY <1>1, <1>5, PlacesAre DEF Sends
<1>14. ArriveInv'
  <2>1. Answered' >= 0
    BY <1>1, <1>13 DEF ArriveInv
  <2>2. \A i \in 1 .. Len(incoming_msg') : incoming_msg'[i] = Answered' + i - 1
    BY <1>5 DEF Sends
  <2> QED BY <2>1, <2>2, <1>1, <1>4, <1>11, <1>13 DEF ArriveInv, sendVars
<1> DEFINE l == p[Len(p)]
<1>15. /\ IF Ends(l) THEN Answered' = l.no + 1 /\ HandedFor(Answered)' = <<>>
          ELSE Answered' = l.no /\ l = handed'[l.no][Len(handed'[l.no])]
       /\ l \in Reply /\ l.no \in Numbers
  <2>1. p \in Seq(Reply) /\ Len(p) \in 1 .. Len(p)
    BY <1>5, <1>8 DEF Sends
  <2>2. l \in Reply
    BY <2>1, ElementOfSeq
  <2>3. l.no \in Numbers
    BY <2>2 DEF Reply
  <2> QED BY <2>2, <2>3, <1>5 DEF Sends
<1> HIDE DEF l
<1>16. HandedInv'
  <2> SUFFICES ASSUME NEW x \in Numbers
               PROVE  /\ Shape(x, handed'[x])
                      /\ x \notin delivered' => handed'[x] = <<>>
                      /\ x < Answered' => EndsAnswer(handed'[x])
                      /\ x = Answered' => ~EndsAnswer(handed'[x])
                      /\ stored_replies'[x] = IF x <= Answered' THEN <<>> ELSE Kept(handed'[x])
                      /\ PatientParts /\ x > Answered' =>
                            stored_replies'[x] = handed'[x] /\ (handed'[x] # <<>> => ~handed'[x][1].more)
    BY DEF HandedInv
  <2>1. x \in Int
    BY <1>1, PlacesAre
  <2>2. /\ stored_replies'[x] = IF x <= Answered' THEN <<>> ELSE stored_replies[x]
        /\ Answered < x /\ x < Answered' => EndsAnswer(stored_replies[x])
    BY <1>5 DEF Sends
  <2>3. x < Answered' => EndsAnswer(handed'[x])
    <3>1. CASE x = no
      BY <3>1, <1>2, <1>6, <1>13
    <3>2. CASE x < Answered
      BY <3>2, <1>1, <1>2, <1>6 DEF HandedInv
    <3>3. CASE x > Answered
      <4>1. EndsAnswer(stored_replies[x]) <=> EndsAnswer(handed[x])
        BY <3>3, <1>1, StoredIs
      <4>2. handed'[x] = handed[x]
        BY <3>3, <2>1, <1>2, <1>6, <1>13
      <4> QED BY <3>3, <4>1, <4>2, <2>1, <2>2, <1>13
    <3> QED BY <3>1, <3>2, <3>3, <2>1, <1>2, <1>13
  <2>4. x = Answered' => ~EndsAnswer(handed'[x])
    <3>1. CASE Ends(l)
      <4>1. Answered' \in Numbers => handed'[Answered'] = <<>>
        BY <3>1, <1>15 DEF HandedFor
      <4> QED BY <4>1 DEF EndsAnswer
    <3>2. CASE ~Ends(l)
      BY <3>2, <1>15 DEF EndsAnswer
    <3> QED BY <3>1, <3>2
  <2>5. ASSUME x > Answered' PROVE handed'[x] = handed[x] /\ x > Answered /\ ~(x <= Answered')
    <3>1. x > Answered /\ ~(x <= Answered') /\ x # no
      BY <2>5, <2>1, <1>2, <1>13
    <3> QED BY <3>1, <1>6
  <2>6. stored_replies'[x] = IF x <= Answered' THEN <<>> ELSE Kept(handed'[x])
    <3>1. CASE x <= Answered'
      BY <3>1, <2>2
    <3>2. CASE ~(x <= Answered')
      <4>1. x > Answered'
        BY <3>2, <2>1, <1>13
      <4>2. x > Answered /\ ~(x <= Answered) /\ handed'[x] = handed[x]
        BY <4>1, <2>1, <2>5, <1>13
      <4>3. stored_replies[x] = Kept(handed[x])
        BY <4>2, <1>1 DEF HandedInv
      <4> QED BY <3>2, <4>2, <4>3, <2>2
    <3> QED BY <3>1, <3>2
  <2>7. PatientParts /\ x > Answered' =>
            stored_replies'[x] = handed'[x] /\ (handed'[x] # <<>> => ~handed'[x][1].more)
    <3> SUFFICES ASSUME PatientParts, x > Answered'
                 PROVE  stored_replies'[x] = handed'[x] /\ (handed'[x] # <<>> => ~handed'[x][1].more)
      OBVIOUS
    <3>1. handed'[x] = handed[x] /\ x > Answered /\ ~(x <= Answered')
      BY <2>5
    <3>2. stored_replies[x] = handed[x] /\ (handed[x] # <<>> => ~handed[x][1].more)
      BY <3>1, <1>1 DEF HandedInv
    <3> QED BY <3>1, <3>2, <2>2
  <2> QED BY <2>3, <2>4, <2>6, <2>7, <1>6
<1>17. HandedFor(Answered) = handed[no] /\ last_ansno_sent = AnsCount(handed[no])
  BY <1>1, <1>2 DEF HandedFor, BackInv
<1>18. /\ \A i \in 1 .. Len(p) : p[i].type = "ANS" => AnsNos(p)[i] = p[i].part - 1
       /\ AnsNos(p)[Len(p) + 1] = IF l.type = "ANS" THEN l.part ELSE 0
  <2>1. Run(p, r) /\ last_ansno_sent \in Nat
    BY <1>1, <1>5 DEF Sends, TypeOK
  <2>2. r.type = "ANS" => last_ansno_sent = r.part - 1
    <3>1. CASE handed[no] = <<>>
      BY <3>1, <1>3, <1>7, <1>17 DEF AnsCount, Begins
    <3>2. CASE handed[no] # <<>>
      <4> DEFINE q == handed[no][Len(handed[no])]
      <4>1. q \in Reply
        <5>1. handed[no] \in Seq(Reply)
          BY <1>1, <1>2 DEF TypeOK
        <5>2. Len(handed[no]) \in 1 .. Len(handed[no])
          BY <3>2, <5>1
        <5> QED BY <5>1, <5>2, ElementOfSeq
      <4>2. q.type \in {"RPY", "ANS", "NUL"}
        BY <4>1 DEF Reply
      <4>3. Continues(q, r)
        BY <3>2, <1>3
      <4>4. r.type = "ANS" => q.type = "ANS"
        BY <4>2, <4>3 DEF Continues
      <4> QED BY <3>2, <4>4, <1>3, <1>7, <1>17 DEF AnsCount
    <3> QED BY <3>1, <3>2
  <2>3. r.type = "RPY" => last_ansno_sent = 0
    <3>1. CASE handed[no] = <<>>
      BY <3>1, <1>17 DEF AnsCount
    <3>2. CASE handed[no] # <<>>
      BY <3>2, <1>3, <1>17 DEF AnsCount, Continues
    <3> QED BY <3>1, <3>2
  <2> QED BY <2>1, <2>2, <2>3, RunNumbers DEF l
<1>19. ASSUME NEW i \in 1 .. Len(p)
       PROVE  p[i] \in Reply /\ p[i].part \in 1 .. Len(handed'[p[i].no])
              /\ p[i] = handed'[p[i].no][p[i].part]
  <2>1. p[i] \in Reply
    BY <1>5, ElementOfSeq DEF Sends
  <2>2. CASE i = 1
    <3>1. p[i] = r
      BY <2>2, <1>5 DEF Sends, Run
    <3> QED BY <2>1, <3>1, <1>3, <1>7
  <2>3. CASE i # 1
    <3>1. i \in 2 .. Len(p)
      BY <2>3, <1>8
    <3>2. Known(p[i])
      BY <3>1, <1>5 DEF Sends, Run
    <3> QED BY <2>1, <3>2, <1>1, <1>3, <1>4, KnownStays
  <2> QED BY <2>2, <2>3
<1>20. last_ansno_sent' = AnsCount(HandedFor(Answered)')
  <2>1. last_ansno_sent' = IF l.type = "ANS" THEN l.part ELSE 0
    BY <1>5, <1>18 DEF Sends
  <2>2. CASE Ends(l)
    BY <2>1, <2>2, <1>15 DEF Ends, AnsCount
  <2>3. CASE ~Ends(l)
    <3> DEFINE h == handed'[l.no]
    <3>1. HandedFor(Answered)' = h
      BY <2>3, <1>15 DEF HandedFor
    <3>2. l.part \in 1 .. Len(h) /\ h \in Seq(Reply) /\ l = h[Len(h)]
      <4>1. Len(p) \in 1 .. Len(p)
        BY <1>8
      <4> QED BY <4>1, <2>3, <1>7, <1>15, <1>19 DEF l
    <3>3. Len(h) \in 1 .. Len(h) /\ h # <<>>
      BY <3>2
    <3>4. Shape(l.no, h)
      BY <1>6, <1>15
    <3> HIDE DEF h
    <3>5. l.part = Len(h)
      BY <3>2, <3>3, <3>4 DEF Shape
    <3> QED BY <2>1, <3>1, <3>2, <3>3, <3>5 DEF AnsCount
  <2> QED BY <2>2, <2>3
<1>21. ASSUME NEW i \in 1 .. Len(back)
       PROVE  LET q == back'[i].reply
              IN  /\ q.part \in 1 .. Len(handed'[q.no]) /\ q = handed'[q.no][q.part]
                  /\ q.type = "ANS" => back'[i].ansno = q.part - 1
                  /\ Follows(q, back'[i + 1].reply) /\ i < Len(back')
  <2> DEFINE q == back[i].reply
  <2>1. q \in Reply /\ q.no \in Numbers /\ back'[i] = back[i]
    <3>1. back \in Seq([reply : Reply, ansno : Nat])
      BY <1>1 DEF TypeOK
    <3>2. back[i] \in [reply : Reply, ansno : Nat]
      BY <3>1, ElementOfSeq
    <3>3. q \in Reply
      BY <3>2
    <3>4. q.no \in Numbers
      BY <3>3 DEF Reply
    <3> QED BY <3>3, <3>4, <1>8
  <2>2. /\ Known(q)
        /\ q.type = "ANS" => back[i].ansno = q.part - 1
        /\ IF i < Len(back) THEN Follows(q, back[i + 1].reply)
           ELSE IF Ends(q) THEN Answered = q.no + 1 /\ HandedFor(Answered) = <<>>
           ELSE Answered = q.no /\ q = handed[q.no][Len(handed[q.no])]
    BY <1>1 DEF BackInv, Known
  <2>3. q.part \in 1 .. Len(handed'[q.no]) /\ q = handed'[q.no][q.part]
    BY <2>1, <2>2, <1>1, <1>3, <1>4, KnownStays
  <2>4. Follows(q, back'[i + 1].reply)
    <3>1. CASE i < Len(back)
      <4>1. i + 1 \in 1 .. Len(back)
        BY <3>1, <1>8
      <4> QED BY <3>1, <4>1, <2>2, <1>8
    <3>2. CASE ~(i < Len(back))
      <4>1. i = Len(back) /\ 1 \in 1 .. Len(p)
        BY <3>2, <1>8
      <4>2. back'[i + 1].reply = r
        BY <4>1, <1>5, <1>8 DEF Sends, Run
      <4> HIDE DEF q
      <4>3. CASE Ends(q)
        <5>1. Answered = q.no + 1 /\ handed[no] = <<>>
          BY <3>2, <4>3, <2>2, <1>17
        <5> QED BY <4>2, <4>3, <5>1, <1>2, <1>3 DEF Follows
      <4>4. CASE ~Ends(q)
        <5>1. q.no = no /\ q = handed[no][Len(handed[no])]
          BY <3>2, <4>4, <2>2, <1>2
        <5>2. handed[no] # <<>>
          BY <2>2, <5>1 DEF Known
        <5> QED BY <4>2, <5>1, <5>2, <1>3 DEF Follows
      <4> QED BY <4>3, <4>4
    <3> QED BY <3>1, <3>2
  <2>5. i < Len(back')
    BY <1>8
  <2> QED BY <2>1, <2>2, <2>3, <2>4, <2>5
<1>22. ASSUME NEW i \in 1 .. Len(p)
       PROVE  LET j == Len(back) + i
                  q == back'[j].reply
              IN  /\ q.part \in 1 .. Len(handed'[q.no]) /\ q = handed'[q.no][q.part]
                  /\ q.type = "ANS" => back'[j].ansno = q.part - 1
                  /\ IF j < Len(back') THEN Follows(q, back'[j + 1].reply)
                     ELSE IF Ends(q) THEN Answered' = q.no + 1 /\ HandedFor(Answered)' = <<>>
                     ELSE Answered' = q.no /\ q = handed'[q.no][Len(handed'[q.no])]
  <2> DEFINE j == Len(back) + i
  <2>1. back'[j].reply = p[i] /\ back'[j].ansno = AnsNos(p)[i]
    BY <1>8
  <2>2. CASE i < Len(p)
    <3>1. j < Len(back') /\ i + 1 \in 1 .. Len(p) /\ i + 1 \in 2 .. Len(p)
          /\ j + 1 = Len(back) + (i + 1) /\ (i + 1) - 1 = i
      BY <2>2, <1>8
    <3>2. back'[j + 1].reply = p[i + 1]
      BY <3>1, <1>8
    <3>3. Follows(p[(i + 1) - 1], p[i + 1])
      BY <3>1, <1>5 DEF Sends, Run
    <3> QED BY <2>1, <3>1, <3>2, <3>3, <1>18, <1>19
  <2>3. CASE ~(i < Len(p))
    <3>1. i = Len(p) /\ ~(j < Len(back')) /\ p[i] = l
      BY <2>3, <1>8 DEF l
    <3> QED BY <2>1, <3>1, <1>15, <1>18, <1>19
  <2> QED BY <2>2, <2>3
<1>23. BackInv'
  <2> SUFFICES ASSUME NEW j \in 1 .. Len(back')
               PROVE  LET q == back'[j].reply
                      IN  /\ q.part \in 1 .. Len(handed'[q.no]) /\ q = handed'[q.no][q.part]
                          /\ q.type = "ANS" => back'[j].ansno = q.part - 1
                          /\ IF j < Len(back') THEN Follows(q, back'[j + 1].reply)
                             ELSE IF Ends(q) THEN Answered' = q.no + 1 /\ HandedFor(Answered)' = <<>>
                             ELSE Answered' = q.no /\ q = handed'[q.no][Len(handed'[q.no])]
    BY <1>20 DEF BackInv
  <2>1. CASE j <= Len(back)
    <3>1. j \in 1 .. Len(back)
      BY <2>1, <1>8
    <3> QED BY <3>1, <1>21
  <2>2. CASE j > Len(back)
    <3>1. j - Len(back) \in 1 .. Len(p) /\ j = Len(back) + (j - Len(back))
      BY <2>2, <1>8
    <3>2. PICK i \in 1 .. Len(p) : j = Len(back) + i
      BY <3>1
    <3> QED BY <3>2, <1>22
  <2> QED BY <2>1, <2>2, <1>8
<1>24. SeenInv'
  <2>1. back' # <<>>
    BY <1>8
  <2>2. CASE back = <<>>
    <3>1. back'[1].reply = r
      <4>1. Len(back) = 0 /\ 1 \in 1 .. Len(p) /\ Len(back) + 1 = 1
        BY <2>2, <1>8
      <4> QED BY <4>1, <1>5, <1>8 DEF Sends, Run
    <3>2. Oldest = no /\ (PatientParts => Len(seen[no]) = Len(handed[no]))
      BY <2>2, <1>1, <1>2 DEF SeenInv, SeenOf, HandedFor
    <3> QED BY <2>1, <3>1, <3>2, <1>1, <1>3, <1>4, <1>10 DEF SeenInv
  <2>3. CASE back # <<>>
    <3>1. back'[1] = back[1]
      <4>1. back \in Seq([reply : Reply, ansno : Nat])
        BY <1>1 DEF TypeOK
      <4>2. 1 \in 1 .. Len(back)
        BY <2>3, <4>1
      <4> QED BY <4>2, <1>8
    <3> QED BY <2>1, <2>3, <3>1, <1>1, <1>4, <1>10 DEF SeenInv
  <2> QED BY <2>2, <2>3
<1> QED BY <1>1, <1>4, <1>9, <1>10, <1>12, <1>14, <1>16, <1>23, <1>24 DEF Inv

-----------------------------------------------------------------------------
(* The steps of the senders. *)

\* A sender that goes to another place.
LEMMA SenderMoves ==
    ASSUME TypeOK, NEW t \in Senders,
           NEW x \in {"idle", "limit", "full", "waiting", "signalled", "queue"},
           sender' = [sender EXCEPT ![t].at = x]
    PROVE  /\ sender' \in [Senders -> [at : {"idle", "limit", "full", "waiting", "signalled", "queue"},
                                       more : BOOLEAN, no : -1 .. MaxCalls - 1]]
           /\ sender'[t].at = x /\ sender'[t].no = sender[t].no
           /\ sender'[t].more = sender[t].more
           /\ \A u \in Senders : u # t => sender'[u] = sender[u]
<1> DEFINE R == [at : {"idle", "limit", "full", "waiting", "signalled", "queue"},
                 more : BOOLEAN, no : -1 .. MaxCalls - 1]
<1>1. sender \in [Senders -> R] /\ sender[t] \in R
  BY DEF TypeOK
<1>2. [sender[t] EXCEPT !.at = x] \in R
  BY <1>1
<1>3. sender'[t] = [sender[t] EXCEPT !.at = x]
  BY <1>1
<1>4. sender' \in [Senders -> R]
  BY <1>1, <1>2, <1>3
<1> QED BY <1>1, <1>3, <1>4

\* A sender that begins or ends a call.
LEMMA SenderSet ==
    ASSUME TypeOK, NEW t \in Senders,
           NEW x \in [at : {"idle", "limit", "full", "waiting", "signalled", "queue"},
                      more : BOOLEAN, no : -1 .. MaxCalls - 1],
           sender' = [sender EXCEPT ![t] = x]
    PROVE  /\ sender' \in [Senders -> [at : {"idle", "limit", "full", "waiting", "signalled", "queue"},
                                       more : BOOLEAN, no : -1 .. MaxCalls - 1]]
           /\ sender'[t] = x
           /\ \A u \in Senders : u # t => sender'[u] = sender[u]
BY DEF TypeOK

\* How the set of the calls that have no number yet changes with one sender.
LEMMA PendingIs ==
    ASSUME CallInv, NEW t \in Senders,
           \A u \in Senders : u # t => sender'[u] = sender[u]
    PROVE  /\ Cardinality(Pending) \in Nat
           /\ IsFiniteSet(Pending') /\ Cardinality(Pending') \in Nat
           /\ t \in Pending /\ t \in Pending' => Cardinality(Pending') = Cardinality(Pending)
           /\ t \in Pending /\ t \notin Pending' =>
                 Cardinality(Pending') = Cardinality(Pending) - 1
           /\ t \notin Pending /\ t \in Pending' =>
                 Cardinality(Pending') = Cardinality(Pending) + 1
           /\ t \notin Pending /\ t \notin Pending' =>
                 Cardinality(Pending') = Cardinality(Pending)
<1>1. IsFiniteSet(Pending)
  BY DEF CallInv
<1>2. Cardinality(Pending) \in Nat
  BY <1>1, FS_CardinalityType
<1>3. \A u \in Senders : u # t => (u \in Pending' <=> u \in Pending)
  BY DEF Pending
<1>4. Pending \subseteq Senders /\ Pending' \subseteq Senders
  BY DEF Pending
<1>5. CASE t \in Pending <=> t \in Pending'
  <2>1. Pending' = Pending
    BY <1>3, <1>4, <1>5
  <2> QED BY <2>1, <1>1, <1>2, <1>5
<1>6. CASE t \in Pending /\ t \notin Pending'
  <2>1. Pending' = Pending \ {t}
    BY <1>3, <1>4, <1>6
  <2>2. IsFiniteSet(Pending \ {t}) /\ Cardinality(Pending \ {t}) = Cardinality(Pending) - 1
    BY <1>1, <1>6, FS_RemoveElement
  <2>3. Cardinality(Pending \ {t}) \in Nat
    BY <2>2, FS_CardinalityType
  <2> QED BY <2>1, <2>2, <2>3, <1>2, <1>6
<1>7. CASE t \notin Pending /\ t \in Pending'
  <2>1. Pending' = Pending \cup {t}
    BY <1>3, <1>4, <1>7
  <2>2. IsFiniteSet(Pending \cup {t}) /\ Cardinality(Pending \cup {t}) = Cardinality(Pending) + 1
    BY <1>1, <1>7, FS_AddElement
  <2> QED BY <2>1, <2>2, <1>2, <1>7
<1> QED BY <1>5, <1>6, <1>7

\* What every step of a sender keeps.
Carries ==
    /\ TypeOK' /\ SendInv' /\ CallInv' /\ OutInv' /\ WireInv'
    /\ Arriving' = Arriving /\ Oldest' = Oldest
    /\ next_proposed_msgno <= next_proposed_msgno'

\* A step of one sender that gives no number out.
LEMMA SenderAlone ==
    ASSUME TypeOK, SendInv, CallInv, OutInv, WireInv, NEW t \in Senders,
           sender[t].at # "queue", sender'[t].at # "queue",
           \A u \in Senders : u # t => sender'[u] = sender[u],
           UNCHANGED <<next_proposed_msgno, last_fixed_more_msg_no, outstanding_msg, wire>>
    PROVE  /\ OutInv' /\ WireInv' /\ Arriving' = Arriving /\ Oldest' = Oldest
           /\ \A u \in Senders : sender'[u].at = "queue" =>
                 /\ sender[u].at = "queue" /\ sender'[u] = sender[u]
<1>1. \A u \in Senders : sender'[u].at = "queue" <=> sender[u].at = "queue"
  OBVIOUS
<1>2. Entering' = Entering /\ Oldest' = Oldest
  BY <1>1 DEF Entering, Oldest
<1>3. Arriving' = Arriving
  BY <1>2 DEF Arriving
<1>4. OutInv'
  BY <1>2 DEF OutInv
<1>5. WireInv'
  BY <1>2 DEF WireInv
<1> QED BY <1>2, <1>3, <1>4, <1>5

\* A call begins.
LEMMA CallStep ==
    ASSUME TypeOK, SendInv, CallInv, OutInv, WireInv, NEW t \in Senders,
           NEW more \in BOOLEAN, Call(t, more)
    PROVE  Carries
<1>1. /\ sender[t].at = "idle" /\ send_mutex = "free" /\ send_mutex' = "sender"
      /\ calls' = calls + 1 /\ calls' <= MaxCalls
      /\ sender' = [sender EXCEPT ![t] = [at |-> "limit", more |-> more, no |-> -1]]
      /\ UNCHANGED <<setting, next_proposed_msgno, last_fixed_more_msg_no, outstanding_msg,
                     signal, answerVars, wire, back, conn_ok, accused, seen>>
  <2>1. calls + 1 \in Nat /\ MaxCalls \in Nat /\ calls' = calls + 1
    BY RepliesAssumption DEF RepliesAssumption, Call, TypeOK
  <2>2. calls' <= MaxCalls
    <3>1. calls' + (IF more THEN 1 ELSE 0) <= MaxCalls
      BY DEF Call
    <3> QED BY ONLY <2>1, <3>1
  <2> QED BY <2>1, <2>2 DEF Call
<1> DEFINE x == [at |-> "limit", more |-> more, no |-> -1]
<1>2. x \in [at : {"idle", "limit", "full", "waiting", "signalled", "queue"},
             more : BOOLEAN, no : -1 .. MaxCalls - 1]
  BY RepliesAssumption DEF RepliesAssumption
<1>3. x.at = "limit"
  OBVIOUS
<1>4. /\ sender' \in [Senders -> [at : {"idle", "limit", "full", "waiting", "signalled", "queue"},
                                  more : BOOLEAN, no : -1 .. MaxCalls - 1]]
      /\ sender'[t].at = "limit"
      /\ \A u \in Senders : u # t => sender'[u] = sender[u]
  <2> HIDE DEF x
  <2>1. sender' = [sender EXCEPT ![t] = x]
    BY <1>1 DEF x
  <2> QED BY <2>1, <1>2, <1>3, SenderSet
<1> HIDE DEF x
<1>5. /\ OutInv' /\ WireInv' /\ Arriving' = Arriving /\ Oldest' = Oldest
      /\ \A u \in Senders : sender'[u].at = "queue" =>
            /\ sender[u].at = "queue" /\ sender'[u] = sender[u]
  BY <1>1, <1>4, SenderAlone
<1>6. SendInv'
  BY <1>1, <1>4, <1>5 DEF SendInv, Holding
<1>7. CallInv'
  <2>1. t \notin Pending /\ t \in Pending'
    BY <1>1, <1>4 DEF Pending
  <2>2. /\ Cardinality(Pending) \in Nat /\ IsFiniteSet(Pending')
        /\ Cardinality(Pending') = Cardinality(Pending) + 1
    BY <2>1, <1>4, PendingIs
  <2> QED BY <2>2, <1>1 DEF CallInv, TypeOK
<1>8. TypeOK'
  BY <1>1, <1>4 DEF TypeOK, answerVars
<1>9. next_proposed_msgno <= next_proposed_msgno'
  BY <1>1 DEF TypeOK
<1> QED BY <1>5, <1>6, <1>7, <1>8, <1>9 DEF Carries

\* A thread that waits, is signalled, or has the mutex again.
LEMMA WaitStep ==
    ASSUME TypeOK, SendInv, CallInv, OutInv, WireInv, NEW t \in Senders,
           WaitReduced(t) \/ Resume(t)
    PROVE  Carries
<1>1. /\ sender[t].at \in {"full", "signalled"}
      /\ UNCHANGED <<setting, next_proposed_msgno, last_fixed_more_msg_no, outstanding_msg,
                     calls, signal, answerVars, wire, back, conn_ok, accused, seen>>
  BY DEF WaitReduced, Resume
<1>2. PICK x \in {"limit", "waiting"} :
         /\ sender' = [sender EXCEPT ![t].at = x]
         /\ x = "waiting" => sender[t].at = "full" /\ send_mutex' = "free"
         /\ x = "limit" => send_mutex = "free" /\ send_mutex' = "sender"
  BY DEF WaitReduced, Resume
<1>3. /\ sender' \in [Senders -> [at : {"idle", "limit", "full", "waiting", "signalled", "queue"},
                                  more : BOOLEAN, no : -1 .. MaxCalls - 1]]
      /\ sender'[t].at = x
      /\ \A u \in Senders : u # t => sender'[u] = sender[u]
  BY <1>2, SenderMoves
<1>4. /\ OutInv' /\ WireInv' /\ Arriving' = Arriving /\ Oldest' = Oldest
      /\ \A u \in Senders : sender'[u].at = "queue" =>
            /\ sender[u].at = "queue" /\ sender'[u] = sender[u]
  BY <1>1, <1>3, SenderAlone
<1>5. SendInv'
  <2>1. CASE x = "waiting"
    BY <2>1, <1>1, <1>2, <1>3, <1>4 DEF SendInv, Holding
  <2>2. CASE x = "limit"
    BY <2>2, <1>1, <1>2, <1>3, <1>4 DEF SendInv, Holding
  <2> QED BY <2>1, <2>2
<1>6. CallInv'
  <2>1. t \in Pending /\ t \in Pending'
    BY <1>1, <1>3 DEF Pending
  <2>2. IsFiniteSet(Pending') /\ Cardinality(Pending') = Cardinality(Pending)
    BY <2>1, <1>3, PendingIs
  <2> QED BY <2>2, <1>1 DEF CallInv
<1>7. TypeOK'
  BY <1>1, <1>2, <1>3 DEF TypeOK, answerVars
<1>8. next_proposed_msgno <= next_proposed_msgno'
  BY <1>1 DEF TypeOK
<1> QED BY <1>4, <1>5, <1>6, <1>7, <1>8 DEF Carries

\* A waiting thread is signalled, if there is one.
LEMMA SignalStep ==
    ASSUME TypeOK, SendInv, CallInv, OutInv, WireInv, SignalReduced
    PROVE  Carries
<1>1. /\ signal' = FALSE /\ send_mutex = "free"
      /\ UNCHANGED <<setting, next_proposed_msgno, last_fixed_more_msg_no, outstanding_msg,
                     send_mutex, calls, answerVars, wire, back, conn_ok, accused, seen>>
  BY DEF SignalReduced
<1>2. CASE UNCHANGED sender
  <2>1. UNCHANGED sendVars
    BY <1>1, <1>2 DEF sendVars
  <2>2. SendInv' /\ CallInv' /\ OutInv' /\ Oldest' = Oldest /\ Entering' = Entering
    BY <2>1, SenderSame
  <2>3. Arriving' = Arriving
    BY <2>2, <1>1 DEF Arriving
  <2>4. WireInv'
    BY <2>2, <1>1 DEF WireInv
  <2>5. TypeOK'
    BY <1>1, <1>2 DEF TypeOK, answerVars
  <2>6. next_proposed_msgno <= next_proposed_msgno'
    BY <1>1 DEF TypeOK
  <2> QED BY <2>2, <2>3, <2>4, <2>5, <2>6 DEF Carries
<1>3. ASSUME NEW t \in Senders, sender[t].at = "waiting",
             sender' = [sender EXCEPT ![t].at = "signalled"]
      PROVE  Carries
  <2>1. /\ sender' \in [Senders -> [at : {"idle", "limit", "full", "waiting", "signalled", "queue"},
                                    more : BOOLEAN, no : -1 .. MaxCalls - 1]]
        /\ sender'[t].at = "signalled"
        /\ \A u \in Senders : u # t => sender'[u] = sender[u]
    BY <1>3, SenderMoves
  <2>2. /\ OutInv' /\ WireInv' /\ Arriving' = Arriving /\ Oldest' = Oldest
        /\ \A u \in Senders : sender'[u].at = "queue" =>
              /\ sender[u].at = "queue" /\ sender'[u] = sender[u]
    BY <1>1, <1>3, <2>1, SenderAlone
  <2>3. SendInv'
    BY <1>1, <1>3, <2>1, <2>2 DEF SendInv, Holding
  <2>4. CallInv'
    <3>1. t \in Pending /\ t \in Pending'
      BY <1>3, <2>1 DEF Pending
    <3>2. IsFiniteSet(Pending') /\ Cardinality(Pending') = Cardinality(Pending)
      BY <3>1, <2>1, PendingIs
    <3> QED BY <3>2, <1>1 DEF CallInv
  <2>5. TypeOK'
    BY <1>1, <2>1 DEF TypeOK, answerVars
  <2>6. next_proposed_msgno <= next_proposed_msgno'
    BY <1>1 DEF TypeOK
  <2> QED BY <2>2, <2>3, <2>4, <2>5, <2>6 DEF Carries
<1>4. UNCHANGED sender \/ \E t \in Senders : /\ sender[t].at = "waiting"
                                             /\ sender' = [sender EXCEPT ![t].at = "signalled"]
  BY DEF SignalReduced
<1> QED BY <1>2, <1>3, <1>4

\* Append, element by element.
LEMMA AppendIs ==
    ASSUME NEW S, NEW s \in Seq(S), NEW e \in S
    PROVE  /\ Append(s, e) \in Seq(S) /\ Len(s) \in Nat
           /\ Append(s, e) # <<>> /\ Len(Append(s, e)) = Len(s) + 1
           /\ \A i \in 1 .. Len(s) : Append(s, e)[i] = s[i]
           /\ Append(s, e)[Len(s) + 1] = e
OBVIOUS

\* A call at the limit fails or is about to wait.
LEMMA LimitStep ==
    ASSUME TypeOK, SendInv, CallInv, OutInv, WireInv, NEW t \in Senders,
           CheckLimit(t), AtLimit
    PROVE  Carries
<1>1. /\ sender[t].at = "limit"
      /\ \/ sender' = [sender EXCEPT ![t] = Idle] /\ send_mutex' = "free"
         \/ sender' = [sender EXCEPT ![t].at = "full"] /\ UNCHANGED send_mutex
      /\ UNCHANGED <<setting, next_proposed_msgno, last_fixed_more_msg_no, outstanding_msg,
                     calls, signal, answerVars, wire, back, conn_ok, accused, seen>>
  BY DEF CheckLimit
<1>2. Idle \in [at : {"idle", "limit", "full", "waiting", "signalled", "queue"},
                more : BOOLEAN, no : -1 .. MaxCalls - 1] /\ Idle.at = "idle"
  BY RepliesAssumption DEF RepliesAssumption, Idle
<1>3. /\ sender' \in [Senders -> [at : {"idle", "limit", "full", "waiting", "signalled", "queue"},
                                  more : BOOLEAN, no : -1 .. MaxCalls - 1]]
      /\ sender'[t].at = "idle" \/ (sender'[t].at = "full" /\ send_mutex' = send_mutex)
      /\ send_mutex' \in {"free", "sender"}
      /\ \A u \in Senders : u # t => sender'[u] = sender[u]
  <2>1. CASE sender' = [sender EXCEPT ![t] = Idle] /\ send_mutex' = "free"
    <3>1. /\ sender' \in [Senders -> [at : {"idle", "limit", "full", "waiting", "signalled", "queue"},
                                      more : BOOLEAN, no : -1 .. MaxCalls - 1]]
          /\ sender'[t] = Idle
          /\ \A u \in Senders : u # t => sender'[u] = sender[u]
      BY ONLY TypeOK, <2>1, <1>2, SenderSet
    <3> QED BY ONLY <2>1, <3>1, <1>2
  <2>2. CASE sender' = [sender EXCEPT ![t].at = "full"] /\ UNCHANGED send_mutex
    <3>1. send_mutex' \in {"free", "sender"}
      BY <2>2 DEF TypeOK
    <3> QED BY <2>2, <3>1, SenderMoves
  <2> QED BY <1>1, <2>1, <2>2
<1>4. /\ OutInv' /\ WireInv' /\ Arriving' = Arriving /\ Oldest' = Oldest
      /\ \A u \in Senders : sender'[u].at = "queue" =>
            /\ sender[u].at = "queue" /\ sender'[u] = sender[u]
  BY <1>1, <1>3, SenderAlone
<1>5. \A u \in Senders : u # t => sender'[u].at \notin Holding
  BY <1>1, <1>3 DEF SendInv, Holding
<1>6. send_mutex # "free"
  BY <1>1 DEF SendInv, Holding
<1>7. SendInv'
  BY <1>1, <1>3, <1>4, <1>5, <1>6 DEF SendInv, Holding
<1>8. CallInv'
  <2>1. t \in Pending
    BY <1>1 DEF Pending
  <2>2. /\ Cardinality(Pending) \in Nat
        /\ IsFiniteSet(Pending') /\ Cardinality(Pending') \in Nat
        /\ Cardinality(Pending') <= Cardinality(Pending)
    <3>1. /\ Cardinality(Pending) \in Nat
          /\ IsFiniteSet(Pending') /\ Cardinality(Pending') \in Nat
          /\ t \in Pending' => Cardinality(Pending') = Cardinality(Pending)
          /\ t \notin Pending' => Cardinality(Pending') = Cardinality(Pending) - 1
      BY <2>1, <1>3, PendingIs
    <3> QED BY ONLY <3>1
  <2> QED BY <2>2, <1>1 DEF CallInv, TypeOK
<1>9. TypeOK'
  BY <1>1, <1>3 DEF TypeOK, answerVars
<1>10. next_proposed_msgno <= next_proposed_msgno'
  BY <1>1 DEF TypeOK
<1> QED BY <1>4, <1>7, <1>8, <1>9, <1>10 DEF Carries

\* A call below the limit gets its number: that of the message left open, or
\* the next one, which becomes outstanding.
LEMMA NumberGiven ==
    ASSUME TypeOK, SendInv, CallInv, NEW t \in Senders, CheckLimit(t), ~AtLimit
    PROVE  /\ sender[t].at = "limit"
           /\ sender' \in [Senders -> [at : {"idle", "limit", "full", "waiting", "signalled", "queue"},
                                       more : BOOLEAN, no : -1 .. MaxCalls - 1]]
           /\ sender'[t].at = "queue" /\ sender'[t].no = next_proposed_msgno'
           /\ sender'[t].more = sender[t].more
           /\ \A u \in Senders : u # t => sender'[u] = sender[u]
           /\ next_proposed_msgno' \in Numbers
           /\ last_fixed_more_msg_no' = IF sender[t].more THEN next_proposed_msgno' ELSE -1
           /\ Cardinality(Pending) \in Nat \ {0} /\ IsFiniteSet(Pending')
           /\ Cardinality(Pending') = Cardinality(Pending) - 1
           /\ \/ /\ last_fixed_more_msg_no >= 0
                 /\ UNCHANGED <<next_proposed_msgno, outstanding_msg>>
              \/ /\ last_fixed_more_msg_no = -1
                 /\ next_proposed_msgno' = next_proposed_msgno + 1
                 /\ outstanding_msg' = Append(outstanding_msg, next_proposed_msgno + 1)
           /\ UNCHANGED <<setting, send_mutex, calls, signal, answerVars, wire, back, conn_ok,
                          accused, seen>>
<1> DEFINE no == IF last_fixed_more_msg_no >= 0 THEN last_fixed_more_msg_no ELSE NextMsgNo
<1>1. /\ sender[t].at = "limit"
      /\ sender' = [sender EXCEPT ![t].at = "queue", ![t].no = no]
      /\ next_proposed_msgno' = IF last_fixed_more_msg_no >= 0 THEN next_proposed_msgno ELSE no
      /\ last_fixed_more_msg_no' = IF sender[t].more THEN no ELSE -1
      /\ outstanding_msg' = IF last_fixed_more_msg_no >= 0 THEN outstanding_msg
                            ELSE Append(outstanding_msg, no)
      /\ UNCHANGED <<setting, send_mutex, calls, signal, answerVars, wire, back, conn_ok,
                     accused, seen>>
  BY DEF CheckLimit
<1>2. MaxCalls \in Nat /\ Numbers = 0 .. MaxCalls - 1 /\ next_proposed_msgno \in -1 .. MaxCalls - 1
      /\ calls \in 0 .. MaxCalls
      /\ last_fixed_more_msg_no \in {-1, next_proposed_msgno}
  BY RepliesAssumption DEF RepliesAssumption, Numbers, TypeOK, SendInv
<1>3. IsFiniteSet(Pending) /\ t \in Pending
      /\ next_proposed_msgno + 1 + Cardinality(Pending) <= calls
  BY <1>1 DEF CallInv, Pending
<1>4. Cardinality(Pending) \in Nat \ {0}
  <2>1. Cardinality(Pending) \in Nat
    BY <1>3, FS_CardinalityType
  <2>2. Cardinality(Pending) # 0
    BY <1>3, FS_EmptySet
  <2> QED BY <2>1, <2>2
<1>5. no \in Numbers /\ next_proposed_msgno' = no
  <2>1. CASE last_fixed_more_msg_no >= 0
    BY <2>1, <1>1, <1>2
  <2>2. CASE ~(last_fixed_more_msg_no >= 0)
    <3>1. no = next_proposed_msgno + 1
      BY <2>2 DEF NextMsgNo
    <3> HIDE DEF no
    <3>2. no \in Numbers
      BY ONLY <3>1, <1>2, <1>3, <1>4
    <3> QED BY <2>2, <3>2, <1>1
  <2> QED BY <2>1, <2>2
<1>6. \/ /\ last_fixed_more_msg_no >= 0
         /\ UNCHANGED <<next_proposed_msgno, outstanding_msg>>
      \/ /\ last_fixed_more_msg_no = -1
         /\ next_proposed_msgno' = next_proposed_msgno + 1
         /\ outstanding_msg' = Append(outstanding_msg, next_proposed_msgno + 1)
  BY <1>1, <1>2 DEF NextMsgNo
<1> HIDE DEF no
<1>7. /\ sender' \in [Senders -> [at : {"idle", "limit", "full", "waiting", "signalled", "queue"},
                                  more : BOOLEAN, no : -1 .. MaxCalls - 1]]
      /\ sender'[t].at = "queue" /\ sender'[t].no = no
      /\ sender'[t].more = sender[t].more
      /\ \A u \in Senders : u # t => sender'[u] = sender[u]
  <2> DEFINE R == [at : {"idle", "limit", "full", "waiting", "signalled", "queue"},
                   more : BOOLEAN, no : -1 .. MaxCalls - 1]
             x == [sender[t] EXCEPT !.at = "queue", !.no = no]
  <2>1. sender \in [Senders -> R] /\ sender[t] \in R
    BY DEF TypeOK
  <2>2. no \in -1 .. MaxCalls - 1
    BY <1>2, <1>5
  <2>3. x \in R /\ x.at = "queue" /\ x.no = no /\ x.more = sender[t].more
    BY <2>1, <2>2
  <2>4. sender'[t] = x /\ \A u \in Senders : u # t => sender'[u] = sender[u]
    BY <2>1, <1>1
  <2>5. sender' = [sender EXCEPT ![t] = x]
    BY <2>1, <1>1
  <2> HIDE DEF x
  <2>6. sender' \in [Senders -> R]
    BY <2>1, <2>3, <2>5
  <2> QED BY <2>3, <2>4, <2>6
<1>8. IsFiniteSet(Pending') /\ Cardinality(Pending') = Cardinality(Pending) - 1
  <2>1. t \notin Pending'
    BY <1>7 DEF Pending
  <2> QED BY <2>1, <1>3, <1>7, PendingIs
<1> QED BY <1>1, <1>4, <1>5, <1>6, <1>7, <1>8

\* The invariant of the sending side after that.
LEMMA NumberStepKeeps ==
    ASSUME TypeOK, SendInv, CallInv, OutInv, WireInv, NEW t \in Senders,
           CheckLimit(t), ~AtLimit
    PROVE  Carries
<1>1. /\ sender[t].at = "limit"
      /\ sender' \in [Senders -> [at : {"idle", "limit", "full", "waiting", "signalled", "queue"},
                                  more : BOOLEAN, no : -1 .. MaxCalls - 1]]
      /\ sender'[t].at = "queue" /\ sender'[t].no = next_proposed_msgno'
      /\ sender'[t].more = sender[t].more
      /\ \A u \in Senders : u # t => sender'[u] = sender[u]
      /\ next_proposed_msgno' \in Numbers
      /\ last_fixed_more_msg_no' = IF sender[t].more THEN next_proposed_msgno' ELSE -1
      /\ UNCHANGED <<setting, send_mutex, calls, signal, answerVars, wire, back, conn_ok,
                     accused, seen>>
  BY NumberGiven
<1>2. \/ /\ last_fixed_more_msg_no >= 0
         /\ UNCHANGED <<next_proposed_msgno, outstanding_msg>>
      \/ /\ last_fixed_more_msg_no = -1
         /\ next_proposed_msgno' = next_proposed_msgno + 1
         /\ outstanding_msg' = Append(outstanding_msg, next_proposed_msgno + 1)
  BY NumberGiven
<1>3. /\ Cardinality(Pending) \in Nat \ {0} /\ IsFiniteSet(Pending')
      /\ Cardinality(Pending') = Cardinality(Pending) - 1
  BY NumberGiven
<1>4. /\ MaxCalls \in Nat /\ Numbers = 0 .. MaxCalls - 1
      /\ next_proposed_msgno \in -1 .. MaxCalls - 1
      /\ calls \in 0 .. MaxCalls /\ calls' = calls
      /\ outstanding_msg \in Seq(Numbers) /\ Len(outstanding_msg) \in Nat
  BY <1>1, RepliesAssumption DEF RepliesAssumption, Numbers, TypeOK
<1>5. next_proposed_msgno <= next_proposed_msgno'
      /\ next_proposed_msgno' <= next_proposed_msgno + 1
  BY ONLY <1>2, <1>4
<1>6. CallInv'
  <2>1. next_proposed_msgno' + 1 + Cardinality(Pending') <= calls'
    <3>1. next_proposed_msgno + 1 + Cardinality(Pending) <= calls
      BY DEF CallInv
    <3>2. next_proposed_msgno' \in Int
      BY <1>1, <1>4
    <3> QED BY ONLY <3>1, <3>2, <1>3, <1>4, <1>5
  <2> QED BY <2>1, <1>3 DEF CallInv
<1>7. \A u \in Senders : u # t => sender[u].at \notin Holding
  BY <1>1 DEF SendInv, Holding
<1>8. \A u \in Senders : sender[u].at # "queue"
  BY <1>1, <1>7 DEF Holding
<1>9. SendInv'
  <2>1. send_mutex' # "free"
    BY <1>1 DEF SendInv, Holding
  <2>2. \A u \in Senders : sender'[u].at \in Holding => u = t
    BY <1>1, <1>7
  <2>3. last_fixed_more_msg_no' \in {-1, next_proposed_msgno'}
    BY <1>1
  <2>4. next_proposed_msgno' >= 0
    BY <1>1, <1>4
  <2>5. \A u \in Senders : sender'[u].at = "queue" => u = t
    BY <2>2 DEF Holding
  <2> QED BY <2>1, <2>2, <2>3, <2>4, <2>5, <1>1 DEF SendInv
<1>10. Entering' = Entering
  <2>1. Entering' = next_proposed_msgno'
    BY <1>1 DEF Entering
  <2>2. Entering = IF last_fixed_more_msg_no >= 0 THEN next_proposed_msgno
                   ELSE next_proposed_msgno + 1
    BY <1>8 DEF Entering
  <2> QED BY <2>1, <2>2, <1>2
<1>11. Arriving' = Arriving
  BY <1>10, <1>1 DEF Arriving
<1>12. Oldest' = Oldest /\ OutInv' /\ outstanding_msg' \in Seq(Numbers)
  <2>1. CASE UNCHANGED <<next_proposed_msgno, outstanding_msg>>
    BY <2>1, <1>4 DEF Oldest, OutInv
  <2>2. CASE /\ next_proposed_msgno' = next_proposed_msgno + 1
             /\ outstanding_msg' = Append(outstanding_msg, next_proposed_msgno + 1)
    <3> DEFINE e == next_proposed_msgno + 1
               o == outstanding_msg'
    <3>1. e \in Numbers
      BY <2>2, <1>1
    <3>2. /\ o \in Seq(Numbers) /\ Len(o) = Len(outstanding_msg) + 1
          /\ \A i \in 1 .. Len(outstanding_msg) : o[i] = outstanding_msg[i]
          /\ o[Len(outstanding_msg) + 1] = e
      BY <2>2, <3>1, <1>4, AppendIs
    <3>3. Oldest' = Oldest
      <4>1. (next_proposed_msgno + 1) + 1 - (Len(outstanding_msg) + 1)
            = next_proposed_msgno + 1 - Len(outstanding_msg)
        BY <1>4
      <4> QED BY <4>1, <2>2, <3>2 DEF Oldest
    <3>4. ASSUME NEW i \in 1 .. Len(o) PROVE o[i] = Oldest + i - 1
      <4>1. CASE i \in 1 .. Len(outstanding_msg)
        BY <4>1, <3>2 DEF OutInv
      <4>2. CASE i = Len(outstanding_msg) + 1
        <5>1. o[i] = e
          BY <4>2, <3>2
        <5>2. Oldest = e - Len(outstanding_msg) /\ e \in Int
          BY <1>4 DEF Oldest
        <5> HIDE DEF e, o
        <5> QED BY ONLY <5>1, <5>2, <4>2, <1>4
      <4> QED BY <4>1, <4>2, <3>2, <1>4
    <3> HIDE DEF e
    <3>5. Oldest >= 0
      BY DEF OutInv
    <3> QED BY <3>2, <3>3, <3>4, <3>5 DEF OutInv
  <2> QED BY <2>1, <2>2, <1>2
<1>13. WireInv'
  <2> SUFFICES ASSUME NEW i \in 1 .. Len(wire)
               PROVE  /\ wire[i].no <= next_proposed_msgno'
                      /\ IF i < Len(wire) THEN wire[i + 1].no = NextOf(wire[i])
                         ELSE Entering = NextOf(wire[i])
    BY <1>1, <1>10 DEF WireInv, NextOf
  <2>1. wire[i].no \in Int
    <3>1. wire[i] \in [no : Numbers, more : BOOLEAN]
      BY ElementOfSeq DEF TypeOK
    <3> QED BY <3>1, <1>4
  <2>2. /\ wire[i].no <= next_proposed_msgno
        /\ IF i < Len(wire) THEN wire[i + 1].no = NextOf(wire[i])
           ELSE Entering = NextOf(wire[i])
    BY DEF WireInv
  <2>3. next_proposed_msgno' \in Int
    BY <1>1, <1>4
  <2>4. wire[i].no <= next_proposed_msgno'
    BY ONLY <2>1, <2>2, <2>3, <1>4, <1>5
  <2> QED BY <2>2, <2>4
<1>14. TypeOK'
  <2>1. next_proposed_msgno' \in -1 .. MaxCalls - 1 /\ last_fixed_more_msg_no' \in -1 .. MaxCalls - 1
    BY <1>1, <1>4
  <2> QED BY <2>1, <1>1, <1>12 DEF TypeOK, answerVars
<1> QED BY <1>5, <1>6, <1>9, <1>11, <1>12, <1>13, <1>14 DEF Carries

\* A message is queued: it follows what is on its way.
LEMMA QueueStep ==
    ASSUME TypeOK, SendInv, CallInv, OutInv, WireInv, NEW t \in Senders, QueueMsg(t)
    PROVE  Carries
<1> DEFINE f == [no |-> sender[t].no, more |-> sender[t].more]
<1>1. /\ sender[t].at = "queue" /\ wire' = Append(wire, f)
      /\ sender' = [sender EXCEPT ![t] = Idle] /\ send_mutex' = "free"
      /\ UNCHANGED <<setting, next_proposed_msgno, last_fixed_more_msg_no, outstanding_msg,
                     calls, signal, answerVars, back, conn_ok, accused, seen>>
  BY DEF QueueMsg
<1>2. Idle \in [at : {"idle", "limit", "full", "waiting", "signalled", "queue"},
                more : BOOLEAN, no : -1 .. MaxCalls - 1] /\ Idle.at = "idle"
  BY RepliesAssumption DEF RepliesAssumption, Idle
<1>3. /\ sender' \in [Senders -> [at : {"idle", "limit", "full", "waiting", "signalled", "queue"},
                                  more : BOOLEAN, no : -1 .. MaxCalls - 1]]
      /\ sender'[t].at = "idle"
      /\ \A u \in Senders : u # t => sender'[u] = sender[u]
  BY <1>1, <1>2, SenderSet
<1>4. /\ sender[t].no = next_proposed_msgno /\ next_proposed_msgno >= 0
      /\ last_fixed_more_msg_no = IF sender[t].more THEN next_proposed_msgno ELSE -1
      /\ sender[t].more \in BOOLEAN
  BY <1>1 DEF SendInv, TypeOK
<1>5. /\ MaxCalls \in Nat /\ Numbers = 0 .. MaxCalls - 1
      /\ next_proposed_msgno \in -1 .. MaxCalls - 1
  BY RepliesAssumption DEF RepliesAssumption, Numbers, TypeOK
<1>6. f.no = next_proposed_msgno /\ f.more = sender[t].more
      /\ f \in [no : Numbers, more : BOOLEAN]
  <2>1. next_proposed_msgno \in Numbers
    BY <1>4, <1>5
  <2> QED BY <2>1, <1>4
<1>7. \A u \in Senders : sender'[u].at \notin Holding
  BY <1>1, <1>3 DEF SendInv, Holding
<1>8. SendInv'
  BY <1>1, <1>7 DEF SendInv, Holding
<1>9. Entering = next_proposed_msgno
  BY <1>1 DEF Entering
<1>10. Entering' = NextOf(f)
  <2>1. \A u \in Senders : sender'[u].at # "queue"
    BY <1>7 DEF Holding
  <2>2. Entering' = IF last_fixed_more_msg_no >= 0 THEN next_proposed_msgno
                    ELSE next_proposed_msgno + 1
    BY <2>1, <1>1 DEF Entering
  <2> HIDE DEF f
  <2> QED BY <2>2, <1>4, <1>6 DEF NextOf
<1> HIDE DEF f
<1>11. /\ wire' \in Seq([no : Numbers, more : BOOLEAN]) /\ Len(wire) \in Nat
       /\ wire' # <<>> /\ Len(wire') = Len(wire) + 1
       /\ \A i \in 1 .. Len(wire) : wire'[i] = wire[i]
       /\ wire'[Len(wire) + 1] = f
  <2> DEFINE F == [no : Numbers, more : BOOLEAN]
  <2>1. wire \in Seq(F) /\ f \in F
    BY <1>6 DEF TypeOK
  <2> HIDE DEF F
  <2>2. /\ Append(wire, f) \in Seq(F) /\ Len(wire) \in Nat
        /\ Append(wire, f) # <<>> /\ Len(Append(wire, f)) = Len(wire) + 1
        /\ \A i \in 1 .. Len(wire) : Append(wire, f)[i] = wire[i]
        /\ Append(wire, f)[Len(wire) + 1] = f
    BY ONLY <2>1, AppendIs
  <2> QED BY ONLY <2>2, <1>1 DEF F
<1>12. Arriving' = Arriving
  <2>1. CASE wire = <<>>
    <3>1. wire'[1] = f
      BY <2>1, <1>11
    <3> QED BY <2>1, <3>1, <1>6, <1>9, <1>11 DEF Arriving
  <2>2. CASE wire # <<>>
    <3>1. 1 \in 1 .. Len(wire)
      BY <2>2 DEF TypeOK
    <3>2. wire'[1] = wire[1]
      BY <3>1, <1>11
    <3> QED BY <2>2, <3>2, <1>11 DEF Arriving
  <2> QED BY <2>1, <2>2
<1>13. WireInv'
  <2> SUFFICES ASSUME NEW i \in 1 .. Len(wire')
               PROVE  /\ wire'[i].no <= next_proposed_msgno'
                      /\ IF i < Len(wire') THEN wire'[i + 1].no = NextOf(wire'[i])
                         ELSE Entering' = NextOf(wire'[i])
    BY DEF WireInv, NextOf
  <2>1. CASE i = Len(wire) + 1
    <3>1. wire'[i] = f /\ ~(i < Len(wire'))
      BY <2>1, <1>11
    <3> QED BY <3>1, <1>1, <1>5, <1>6, <1>10
  <2>2. CASE i \in 1 .. Len(wire)
    <3>1. wire'[i] = wire[i] /\ wire[i].no <= next_proposed_msgno
          /\ IF i < Len(wire) THEN wire[i + 1].no = NextOf(wire[i])
             ELSE Entering = NextOf(wire[i])
      BY <2>2, <1>11 DEF WireInv
    <3>2. i < Len(wire')
      BY <2>2, <1>11
    <3>3. wire'[i + 1].no = NextOf(wire[i])
      <4>1. CASE i < Len(wire)
        <5>1. i + 1 \in 1 .. Len(wire)
          BY <2>2, <4>1, <1>11
        <5> QED BY <3>1, <4>1, <5>1, <1>11
      <4>2. CASE ~(i < Len(wire))
        <5>1. i = Len(wire)
          BY <2>2, <4>2, <1>11
        <5> QED BY <3>1, <4>2, <5>1, <1>6, <1>9, <1>11
      <4> QED BY <4>1, <4>2
    <3> QED BY <3>1, <3>2, <3>3, <1>1
  <2> QED BY <2>1, <2>2, <1>11
<1>14. CallInv'
  <2>1. t \notin Pending /\ t \notin Pending'
    BY <1>1, <1>3 DEF Pending
  <2>2. IsFiniteSet(Pending') /\ Cardinality(Pending') = Cardinality(Pending)
    BY <2>1, <1>3, PendingIs
  <2> QED BY <2>2, <1>1 DEF CallInv
<1>15. OutInv' /\ Oldest' = Oldest
  BY <1>1 DEF OutInv, Oldest
<1>16. TypeOK'
  BY <1>1, <1>3, <1>11 DEF TypeOK, answerVars
<1>17. next_proposed_msgno <= next_proposed_msgno'
  BY <1>1, <1>5
<1> QED BY <1>8, <1>12, <1>13, <1>14, <1>15, <1>16, <1>17 DEF Carries

\* What the answering side and the replies coming back need of such a step.
LEMMA Carried ==
    ASSUME Inv, Carries, UNCHANGED <<answerVars, back, seen, accused>>
    PROVE  Inv'
<1>1. /\ UNCHANGED <<incoming_msg, incoming_msg_frame_fragment, delivered, stored_replies,
                     last_ansno_sent, handed, back, seen, accused>>
      /\ TypeOK /\ ArriveInv /\ HandedInv /\ BackInv /\ SeenInv /\ ~accused
  BY DEF Inv, answerVars
<1>2. TypeOK' /\ SendInv' /\ CallInv' /\ OutInv' /\ WireInv' /\ Arriving' = Arriving
      /\ Oldest' = Oldest /\ next_proposed_msgno <= next_proposed_msgno'
  BY DEF Carries
<1>3. Answered' = Answered
  BY <1>1, <1>2 DEF Answered, Received
<1>4. incoming_msg_frame_fragment \in Int /\ next_proposed_msgno \in Int
      /\ next_proposed_msgno' \in Int
  BY <1>1, <1>2, RepliesAssumption DEF RepliesAssumption, TypeOK
<1>5. incoming_msg_frame_fragment <= next_proposed_msgno'
  <2>1. incoming_msg_frame_fragment <= next_proposed_msgno
    BY <1>1 DEF ArriveInv
  <2> QED BY ONLY <2>1, <1>2, <1>4
<1>6. ArriveInv'
  BY <1>1, <1>2, <1>3, <1>5 DEF ArriveInv
<1>7. HandedInv'
  BY <1>1, <1>3 DEF HandedInv
<1>8. BackInv'
  BY <1>1, <1>3 DEF BackInv, HandedFor
<1>9. SeenInv'
  BY <1>1, <1>2, <1>3 DEF SeenInv, SeenOf, HandedFor
<1> QED BY <1>1, <1>2, <1>6, <1>7, <1>8, <1>9 DEF Inv

-----------------------------------------------------------------------------
(* The steps of the readers. *)

\* What is left of a sequence without its first element.
LEMMA TailIs ==
    ASSUME NEW S, NEW s \in Seq(S), s # <<>>
    PROVE  /\ Head(s) = s[1] /\ 1 \in 1 .. Len(s) /\ Len(s) \in Nat \ {0}
           /\ Tail(s) \in Seq(S) /\ Len(Tail(s)) = Len(s) - 1
           /\ Tail(s) = <<>> <=> Len(s) = 1
           /\ \A i \in 1 .. Len(s) - 1 : Tail(s)[i] = s[i + 1]
<1>1. Head(s) = s[1] /\ 1 \in 1 .. Len(s) /\ Len(s) \in Nat \ {0}
  OBVIOUS
<1>2. Tail(s) \in Seq(S) /\ Len(Tail(s)) = Len(s) - 1
  OBVIOUS
<1>3. \A t \in Seq(S) : t = <<>> <=> Len(t) = 0
  OBVIOUS
<1>4. \A i \in 1 .. Len(s) - 1 : Tail(s)[i] = s[i + 1]
  OBVIOUS
<1>5. Tail(s) = <<>> <=> Len(s) = 1
  BY ONLY <1>1, <1>2, <1>3
<1> QED BY <1>1, <1>2, <1>4, <1>5

\* A piece on the wire is the one that the answering side waits for.
LEMMA FirstOnWire ==
    ASSUME TypeOK, WireInv, ArriveInv, wire # <<>>
    PROVE  /\ wire[1] \in [no : Numbers, more : BOOLEAN] /\ wire[1].no = Arriving
           /\ wire[1].no \in Int /\ wire[1].no <= next_proposed_msgno
           /\ ~BadMsgNo(wire[1])
<1>1. wire \in Seq([no : Numbers, more : BOOLEAN]) /\ Len(wire) \in Nat \ {0}
  BY DEF TypeOK
<1>2. 1 \in 1 .. Len(wire)
  BY <1>1
<1>3. wire[1] \in [no : Numbers, more : BOOLEAN]
  BY <1>1, <1>2, ElementOfSeq
<1>4. wire[1].no = Arriving /\ wire[1].no <= next_proposed_msgno
  BY <1>2 DEF Arriving, WireInv
<1>5. wire[1].no \in Int
  BY <1>3, RepliesAssumption DEF RepliesAssumption, Numbers
<1>6. ~BadMsgNo(wire[1])
  <2>1. CASE incoming_msg_frame_fragment # -1
    BY <2>1, <1>4 DEF ArriveInv, BadMsgNo
  <2>2. CASE incoming_msg_frame_fragment = -1
    <3>1. Received = Arriving /\ Answered = Arriving - Len(incoming_msg)
      BY <2>2 DEF Received, Answered
    <3>2. incoming_msg \in Seq(Numbers) /\ Len(incoming_msg) \in Nat /\ Arriving \in Int
      BY PlacesAre DEF TypeOK
    <3>3. ASSUME NEW i \in 1 .. Len(incoming_msg) PROVE incoming_msg[i] # wire[1].no
      <4>1. incoming_msg[i] = Answered + i - 1
        BY DEF ArriveInv
      <4> QED BY ONLY <4>1, <3>1, <3>2, <1>4
    <3>4. wire[1].no \notin ToSet(incoming_msg)
      BY <3>2, <3>3, ElementsAre
    <3> QED BY <2>2, <3>4 DEF BadMsgNo
  <2> QED BY <2>1, <2>2
<1> QED BY <1>3, <1>4, <1>5, <1>6

\* The answering reader takes a piece of a message.
LEMMA RecvMsgStep ==
    ASSUME Inv, RecvMsg
    PROVE  Inv'
<1> DEFINE f == wire[1]
<1>1. TypeOK /\ SendInv /\ CallInv /\ OutInv /\ WireInv /\ ArriveInv /\ HandedInv
      /\ BackInv /\ SeenInv /\ ~accused
  BY DEF Inv
<1>2. wire # <<>> /\ wire \in Seq([no : Numbers, more : BOOLEAN])
  BY <1>1 DEF RecvMsg, TypeOK
<1>3. /\ Head(wire) = f /\ Len(wire) \in Nat \ {0}
      /\ Tail(wire) \in Seq([no : Numbers, more : BOOLEAN]) /\ Len(Tail(wire)) = Len(wire) - 1
      /\ Tail(wire) = <<>> <=> Len(wire) = 1
      /\ \A i \in 1 .. Len(wire) - 1 : Tail(wire)[i] = wire[i + 1]
  <2> DEFINE F == [no : Numbers, more : BOOLEAN]
  <2>1. wire \in Seq(F) /\ wire # <<>>
    BY <1>2
  <2> HIDE DEF F
  <2>2. /\ Head(wire) = f /\ Len(wire) \in Nat \ {0}
        /\ Tail(wire) \in Seq(F) /\ Len(Tail(wire)) = Len(wire) - 1
        /\ Tail(wire) = <<>> <=> Len(wire) = 1
        /\ \A i \in 1 .. Len(wire) - 1 : Tail(wire)[i] = wire[i + 1]
    BY ONLY <2>1, TailIs
  <2> QED BY <2>2 DEF F
<1>4. /\ f \in [no : Numbers, more : BOOLEAN] /\ f.no = Arriving
      /\ f.no \in Int /\ f.no <= next_proposed_msgno /\ ~BadMsgNo(f)
  BY <1>1, <1>2, FirstOnWire
<1> HIDE DEF f
<1>5. /\ wire' = Tail(wire)
      /\ incoming_msg_frame_fragment' = IF f.more THEN f.no ELSE -1
      /\ incoming_msg' = IF incoming_msg_frame_fragment # -1 THEN incoming_msg
                         ELSE Append(incoming_msg, f.no)
      /\ delivered' = IF f.more THEN delivered ELSE delivered \cup {f.no}
      /\ UNCHANGED <<conn_ok, accused, setting, sendVars, signal, stored_replies,
                     last_ansno_sent, handed, back, seen>>
  BY <1>3, <1>4 DEF RecvMsg
<1>6. /\ MaxCalls \in Nat /\ Numbers = 0 .. MaxCalls - 1 /\ next_proposed_msgno \in Int
      /\ Arriving \in Int /\ Answered \in Int /\ f.no \in Numbers /\ f.more \in BOOLEAN
      /\ incoming_msg \in Seq(Numbers) /\ Len(incoming_msg) \in Nat
      /\ Answered = Received - Len(incoming_msg)
      /\ incoming_msg_frame_fragment \in Int
  BY <1>1, <1>4, PlacesAre DEF TypeOK
<1>7. SendInv' /\ CallInv' /\ OutInv' /\ Oldest' = Oldest /\ Entering' = Entering
  BY <1>1, <1>5, SenderSame
<1>8. Arriving' = NextOf(f)
  <2>1. 1 \in 1 .. Len(wire)
    BY <1>3
  <2>2. IF 1 < Len(wire) THEN wire[1 + 1].no = NextOf(f) ELSE Entering = NextOf(f)
    BY <2>1, <1>1 DEF WireInv, f
  <2>3. CASE Len(wire) = 1
    BY <2>2, <2>3, <1>3, <1>5, <1>7 DEF Arriving
  <2>4. CASE Len(wire) # 1
    <3>1. 1 \in 1 .. Len(wire) - 1 /\ 1 < Len(wire)
      BY <2>4, <1>3
    <3> QED BY <2>2, <2>4, <3>1, <1>3, <1>5 DEF Arriving
  <2> QED BY <2>3, <2>4
<1>9. Received' = Arriving + 1
  <2>1. f.no # -1
    BY <1>6
  <2>2. CASE f.more
    BY <2>1, <2>2, <1>4, <1>5, <1>8 DEF Received, NextOf
  <2>3. CASE ~f.more
    BY <2>3, <1>4, <1>5, <1>8 DEF Received, NextOf
  <2> QED BY <2>2, <2>3
<1>10. Arriving <= Arriving' /\ Arriving' \in Int
  BY <1>4, <1>6, <1>8 DEF NextOf
<1>11. /\ incoming_msg' \in Seq(Numbers) /\ Answered' = Answered
       /\ \A i \in 1 .. Len(incoming_msg') : incoming_msg'[i] = Answered + i - 1
  <2>1. CASE incoming_msg_frame_fragment # -1
    <3>1. incoming_msg' = incoming_msg /\ Received = Arriving + 1
      BY <2>1, <1>5 DEF Received
    <3>2. Answered' = Answered
      BY <3>1, <1>9 DEF Answered
    <3> QED BY <3>1, <3>2, <1>1, <1>6 DEF ArriveInv
  <2>2. CASE incoming_msg_frame_fragment = -1
    <3>1. incoming_msg' = Append(incoming_msg, f.no) /\ Received = Arriving
      BY <2>2, <1>5 DEF Received
    <3>2. /\ incoming_msg' \in Seq(Numbers) /\ Len(incoming_msg') = Len(incoming_msg) + 1
          /\ \A i \in 1 .. Len(incoming_msg) : incoming_msg'[i] = incoming_msg[i]
          /\ incoming_msg'[Len(incoming_msg) + 1] = f.no
      BY <3>1, <1>6, AppendIs
    <3>3. Answered' = Answered
      <4>1. Answered' = (Arriving + 1) - (Len(incoming_msg) + 1)
        BY <3>2, <1>9 DEF Answered
      <4> QED BY ONLY <4>1, <3>1, <1>6
    <3>4. ASSUME NEW i \in 1 .. Len(incoming_msg') PROVE incoming_msg'[i] = Answered + i - 1
      <4>1. CASE i \in 1 .. Len(incoming_msg)
        BY <4>1, <3>2, <1>1 DEF ArriveInv
      <4>2. CASE i = Len(incoming_msg) + 1
        <5>1. incoming_msg'[i] = Arriving
          BY <4>2, <3>2, <1>4
        <5> QED BY ONLY <5>1, <4>2, <3>1, <1>6
      <4> QED BY <4>1, <4>2, <3>2, <1>6
    <3> QED BY <3>2, <3>3, <3>4
  <2> QED BY <2>1, <2>2
<1>12. delivered' = {no \in Numbers : no < Arriving'}
  <2>1. delivered = {no \in Numbers : no < Arriving}
    BY <1>1 DEF ArriveInv
  <2>2. CASE f.more
    <3>1. delivered' = delivered /\ Arriving' = Arriving
      BY <2>2, <1>4, <1>5, <1>8 DEF NextOf
    <3> QED BY <2>1, <3>1
  <2>3. CASE ~f.more
    <3>1. delivered' = delivered \cup {f.no} /\ Arriving' = f.no + 1
      BY <2>3, <1>5, <1>8 DEF NextOf
    <3>2. \A no \in Numbers : no < f.no + 1 <=> no < f.no \/ no = f.no
      BY <1>4, <1>6
    <3> QED BY <2>1, <3>1, <3>2, <1>4, <1>6
  <2> QED BY <2>2, <2>3
<1>13. ArriveInv'
  <2>1. incoming_msg_frame_fragment' \in {-1, Arriving'}
    BY <1>5, <1>8 DEF NextOf
  <2>2. incoming_msg_frame_fragment' <= next_proposed_msgno'
    BY <1>4, <1>5, <1>6 DEF sendVars
  <2>3. Answered' >= 0 /\ Answered' <= Arriving'
    <3>1. Answered >= 0 /\ Answered <= Arriving
      BY <1>1 DEF ArriveInv
    <3> QED BY ONLY <3>1, <1>6, <1>10, <1>11
  <2> QED BY <2>1, <2>2, <2>3, <1>11, <1>12 DEF ArriveInv
<1>14. WireInv'
  <2> SUFFICES ASSUME NEW i \in 1 .. Len(wire')
               PROVE  /\ wire'[i].no <= next_proposed_msgno'
                      /\ IF i < Len(wire') THEN wire'[i + 1].no = NextOf(wire'[i])
                         ELSE Entering' = NextOf(wire'[i])
    BY DEF WireInv, NextOf
  <2>1. i + 1 \in 1 .. Len(wire) /\ i \in 1 .. Len(wire) - 1 /\ wire'[i] = wire[i + 1]
    BY <1>3, <1>5
  <2>2. /\ wire[i + 1].no <= next_proposed_msgno
        /\ IF i + 1 < Len(wire) THEN wire[(i + 1) + 1].no = NextOf(wire[i + 1])
           ELSE Entering = NextOf(wire[i + 1])
    BY <2>1, <1>1 DEF WireInv
  <2>3. CASE i < Len(wire')
    <3>1. i + 1 \in 1 .. Len(wire) - 1 /\ i + 1 < Len(wire)
      BY <2>3, <1>3, <1>5
    <3>2. wire'[i + 1] = wire[(i + 1) + 1]
      BY <3>1, <1>3, <1>5
    <3> QED BY <2>1, <2>2, <2>3, <3>1, <3>2, <1>5 DEF sendVars
  <2>4. CASE ~(i < Len(wire'))
    <3>1. ~(i + 1 < Len(wire))
      BY <2>4, <1>3, <1>5
    <3> QED BY <2>1, <2>2, <2>4, <3>1, <1>5, <1>7 DEF sendVars
  <2> QED BY <2>3, <2>4
<1>15. HandedInv'
  <2>1. delivered \subseteq delivered'
    BY <1>5
  <2> QED BY <2>1, <1>1, <1>5, <1>11 DEF HandedInv
<1>16. BackInv'
  BY <1>1, <1>5, <1>11 DEF BackInv, HandedFor
<1>17. SeenInv'
  BY <1>1, <1>5, <1>7, <1>11 DEF SeenInv, SeenOf, HandedFor
<1>18. TypeOK'
  <2>1. wire' \in Seq([no : Numbers, more : BOOLEAN])
    BY <1>3, <1>5
  <2>2. delivered' \subseteq Numbers
    BY <1>12
  <2>3. incoming_msg_frame_fragment' \in -1 .. MaxCalls - 1
    BY <1>5, <1>6
  <2> QED BY <2>1, <2>2, <2>3, <1>1, <1>5, <1>11 DEF TypeOK, sendVars
<1> QED BY <1>1, <1>5, <1>7, <1>13, <1>14, <1>15, <1>16, <1>17, <1>18 DEF Inv

\* The first reply on its way back is to the oldest outstanding message, which
\* is at the head of the list.
LEMMA FirstBack ==
    ASSUME Inv, back # <<>>
    PROVE  LET r == back[1].reply
           IN  /\ r \in Reply /\ r.no \in Numbers /\ r.no = Oldest
               /\ r.part \in 1 .. Len(handed[r.no]) /\ r = handed[r.no][r.part]
               /\ back[1] \in [reply : Reply, ansno : Nat]
               /\ outstanding_msg # <<>> /\ Head(outstanding_msg) = r.no
               /\ outstanding_msg[1] = r.no
<1> DEFINE r == back[1].reply
<1>1. TypeOK /\ OutInv /\ WireInv /\ ArriveInv /\ HandedInv /\ BackInv /\ SeenInv /\ SendInv
  BY DEF Inv
<1>2. 1 \in 1 .. Len(back) /\ back \in Seq([reply : Reply, ansno : Nat])
  BY <1>1 DEF TypeOK
<1>3. back[1] \in [reply : Reply, ansno : Nat]
  BY <1>2, ElementOfSeq
<1>4. r \in Reply
  BY <1>3
<1>5. r.no \in Numbers
  BY <1>4 DEF Reply
<1>6. r.part \in 1 .. Len(handed[r.no]) /\ r = handed[r.no][r.part]
  BY <1>1, <1>2 DEF BackInv
<1>7. r.no = Oldest
  BY <1>1 DEF SeenInv
<1> HIDE DEF r
<1>8. r.no < Arriving
  <2>1. handed[r.no] # <<>>
    BY <1>6
  <2>2. r.no \in delivered
    BY <2>1, <1>1, <1>5 DEF HandedInv
  <2> QED BY <2>2, <1>1 DEF ArriveInv
<1>9. Arriving <= next_proposed_msgno + 1
  <2>1. next_proposed_msgno \in Int
    BY <1>1, PlacesAre
  <2>2. CASE wire = <<>>
    BY <2>1, <2>2 DEF Arriving, Entering
  <2>3. CASE wire # <<>>
    <3>1. Arriving \in Int /\ Arriving <= next_proposed_msgno
      BY <2>3, <1>1, FirstOnWire
    <3> QED BY ONLY <2>1, <3>1
  <2> QED BY <2>2, <2>3
<1>10. outstanding_msg # <<>>
  <2> SUFFICES ASSUME outstanding_msg = <<>> PROVE FALSE
    OBVIOUS
  <2>1. Len(outstanding_msg) = 0 /\ next_proposed_msgno \in Int /\ Arriving \in Int
    BY <1>1, PlacesAre
  <2>2. Oldest = next_proposed_msgno + 1 - Len(outstanding_msg)
    BY DEF Oldest
  <2> QED BY ONLY <2>1, <2>2, <1>7, <1>8, <1>9
<1>11. outstanding_msg[1] = r.no /\ Head(outstanding_msg) = outstanding_msg[1]
  <2>1. outstanding_msg \in Seq(Numbers)
    BY <1>1 DEF TypeOK
  <2>2. Head(outstanding_msg) = outstanding_msg[1] /\ 1 \in 1 .. Len(outstanding_msg)
    BY <2>1, <1>10
  <2>3. outstanding_msg[1] = Oldest + 1 - 1 /\ Oldest \in Int
    BY <2>2, <1>1, PlacesAre DEF OutInv
  <2> QED BY <2>2, <2>3, <1>7
<1> QED BY <1>3, <1>4, <1>5, <1>6, <1>7, <1>10, <1>11 DEF r

\* The reader takes a reply: it is to the oldest message, and the next one on
\* its way follows it.
LEMMA RecvReplyStep ==
    ASSUME Inv, RecvReply
    PROVE  Inv'
<1> DEFINE r == back[1].reply
           no == r.no
<1>1. TypeOK /\ SendInv /\ CallInv /\ OutInv /\ WireInv /\ ArriveInv /\ HandedInv
      /\ BackInv /\ SeenInv /\ ~accused
  BY DEF Inv
<1>2. back # <<>>
  BY DEF RecvReply
<1>3. /\ r \in Reply /\ no \in Numbers /\ no = Oldest
      /\ r.part \in 1 .. Len(handed[no]) /\ r = handed[no][r.part]
      /\ outstanding_msg # <<>> /\ Head(outstanding_msg) = no
      /\ back[1] \in [reply : Reply, ansno : Nat]
  BY <1>2, FirstBack
<1>4. /\ Head(back) = back[1] /\ Len(back) \in Nat \ {0} /\ 1 \in 1 .. Len(back)
      /\ Tail(back) \in Seq([reply : Reply, ansno : Nat]) /\ Len(Tail(back)) = Len(back) - 1
      /\ Tail(back) = <<>> <=> Len(back) = 1
      /\ \A i \in 1 .. Len(back) - 1 : Tail(back)[i] = back[i + 1]
  <2> DEFINE B == [reply : Reply, ansno : Nat]
  <2>1. back \in Seq(B) /\ back # <<>>
    BY <1>1, <1>2 DEF TypeOK
  <2> HIDE DEF B
  <2>2. /\ Head(back) = back[1] /\ Len(back) \in Nat \ {0} /\ 1 \in 1 .. Len(back)
        /\ Tail(back) \in Seq(B) /\ Len(Tail(back)) = Len(back) - 1
        /\ Tail(back) = <<>> <=> Len(back) = 1
        /\ \A i \in 1 .. Len(back) - 1 : Tail(back)[i] = back[i + 1]
    BY ONLY <2>1, TailIs
  <2> QED BY <2>2 DEF B
<1>5. /\ back' = Tail(back)
      /\ seen' = [seen EXCEPT ![no] = Append(@, r)]
      /\ outstanding_msg' = IF Ends(r) THEN Tail(outstanding_msg) ELSE outstanding_msg
      /\ signal' = Ends(r)
      /\ UNCHANGED <<conn_ok, accused, setting, next_proposed_msgno, last_fixed_more_msg_no,
                     send_mutex, sender, calls, answerVars, wire>>
  BY <1>3, <1>4 DEF RecvReply
<1>6. /\ r.type \in {"RPY", "ANS", "NUL"} /\ r.more \in BOOLEAN /\ r.part \in Int
      /\ Ends(r) \in BOOLEAN
  BY <1>3, RepliesAssumption DEF Reply, Ends, RepliesAssumption
<1> HIDE DEF r
<1>7. /\ MaxCalls \in Nat /\ Numbers = 0 .. MaxCalls - 1 /\ next_proposed_msgno \in Int
      /\ Oldest \in Int /\ Answered \in Int /\ no \in Int
      /\ outstanding_msg \in Seq(Numbers) /\ Len(outstanding_msg) \in Nat
      /\ seen \in [Numbers -> Seq(Reply)] /\ handed \in [Numbers -> Seq(Reply)]
  <2>1. /\ MaxCalls \in Nat /\ Numbers = 0 .. MaxCalls - 1 /\ next_proposed_msgno \in Int
        /\ Oldest \in Int /\ Answered \in Int
    BY <1>1, PlacesAre
  <2>2. no \in Int
    BY <2>1, <1>3
  <2> QED BY <2>1, <2>2, <1>1 DEF TypeOK
<1>8. /\ UNCHANGED <<incoming_msg, incoming_msg_frame_fragment, delivered, stored_replies,
                     last_ansno_sent, handed>>
      /\ Entering' = Entering /\ Arriving' = Arriving /\ Answered' = Answered
  BY <1>5, PlacesSame DEF answerVars
<1>9. /\ outstanding_msg' \in Seq(Numbers) /\ OutInv'
      /\ Oldest' = IF Ends(r) THEN no + 1 ELSE no
  <2>1. CASE ~Ends(r)
    <3>1. outstanding_msg' = outstanding_msg /\ next_proposed_msgno' = next_proposed_msgno
      BY <2>1, <1>5
    <3> QED BY <2>1, <3>1, <1>1, <1>3, <1>7 DEF OutInv, Oldest
  <2>2. CASE Ends(r)
    <3>1. outstanding_msg' = Tail(outstanding_msg) /\ next_proposed_msgno' = next_proposed_msgno
      BY <2>2, <1>5
    <3>2. /\ Len(outstanding_msg) \in Nat \ {0} /\ outstanding_msg' \in Seq(Numbers)
          /\ Len(outstanding_msg') = Len(outstanding_msg) - 1
          /\ \A i \in 1 .. Len(outstanding_msg) - 1 : outstanding_msg'[i] = outstanding_msg[i + 1]
      BY <3>1, <1>3, <1>7, TailIs
    <3>3. Oldest' = Oldest + 1
      <4>1. Oldest' = next_proposed_msgno + 1 - (Len(outstanding_msg) - 1)
        BY <3>1, <3>2 DEF Oldest
      <4>2. Oldest = next_proposed_msgno + 1 - Len(outstanding_msg)
        BY DEF Oldest
      <4> QED BY ONLY <4>1, <4>2, <1>7
    <3>4. ASSUME NEW i \in 1 .. Len(outstanding_msg')
          PROVE  outstanding_msg'[i] = Oldest' + i - 1
      <4>1. i \in 1 .. Len(outstanding_msg) - 1 /\ i + 1 \in 1 .. Len(outstanding_msg)
        BY <3>2
      <4>2. outstanding_msg'[i] = Oldest + (i + 1) - 1
        BY <4>1, <3>2, <1>1 DEF OutInv
      <4> QED BY ONLY <4>1, <4>2, <3>3, <1>7
    <3>5. Oldest >= 0
      BY <1>1 DEF OutInv
    <3>6. Oldest' >= 0
      BY ONLY <3>3, <3>5, <1>7
    <3> QED BY <2>2, <3>2, <3>3, <3>4, <3>6, <1>3 DEF OutInv
  <2> QED BY <2>1, <2>2
<1>10. SendInv' /\ CallInv'
  BY <1>1, <1>5 DEF SendInv, CallInv, Pending
<1>11. WireInv' /\ ArriveInv' /\ HandedInv'
  BY <1>1, <1>5, <1>8 DEF WireInv, ArriveInv, HandedInv
<1>12. /\ seen' \in [Numbers -> Seq(Reply)]
       /\ seen'[no] = Append(seen[no], r) /\ Len(seen'[no]) = Len(seen[no]) + 1
       /\ Len(seen[no]) \in Nat
       /\ \A x \in Numbers : x # no => seen'[x] = seen[x]
  <2>1. seen[no] \in Seq(Reply)
    BY <1>3, <1>7
  <2>2. Append(seen[no], r) \in Seq(Reply) /\ Len(Append(seen[no], r)) = Len(seen[no]) + 1
        /\ Len(seen[no]) \in Nat
    BY ONLY <2>1, <1>3, AppendIs
  <2> QED BY <2>2, <1>3, <1>5, <1>7
<1>13. ASSUME NEW i \in 1 .. Len(back')
       PROVE  i + 1 \in 1 .. Len(back) /\ back'[i] = back[i + 1]
              /\ (i < Len(back') <=> i + 1 < Len(back))
              /\ (i < Len(back') => back'[i + 1] = back[(i + 1) + 1])
  <2>1. i \in 1 .. Len(back) - 1 /\ i + 1 \in 1 .. Len(back) /\ Len(back') = Len(back) - 1
    BY <1>4, <1>5
  <2>2. i < Len(back') => i + 1 \in 1 .. Len(back) - 1
    BY <2>1, <1>4
  <2> QED BY <2>1, <2>2, <1>4, <1>5
<1>14. BackInv'
  <2> SUFFICES ASSUME NEW i \in 1 .. Len(back')
               PROVE  LET q == back'[i].reply
                      IN  /\ q.part \in 1 .. Len(handed'[q.no]) /\ q = handed'[q.no][q.part]
                          /\ q.type = "ANS" => back'[i].ansno = q.part - 1
                          /\ IF i < Len(back') THEN Follows(q, back'[i + 1].reply)
                             ELSE IF Ends(q) THEN Answered' = q.no + 1 /\ HandedFor(Answered)' = <<>>
                             ELSE Answered' = q.no /\ q = handed'[q.no][Len(handed'[q.no])]
    BY <1>1, <1>8 DEF BackInv, HandedFor
  <2> DEFINE q == back[i + 1].reply
  <2>1. /\ q.part \in 1 .. Len(handed[q.no]) /\ q = handed[q.no][q.part]
        /\ q.type = "ANS" => back[i + 1].ansno = q.part - 1
        /\ IF i + 1 < Len(back) THEN Follows(q, back[(i + 1) + 1].reply)
           ELSE IF Ends(q) THEN Answered = q.no + 1 /\ HandedFor(Answered) = <<>>
           ELSE Answered = q.no /\ q = handed[q.no][Len(handed[q.no])]
    BY <1>1, <1>13 DEF BackInv
  <2>2. HandedFor(Answered)' = HandedFor(Answered)
    BY <1>8 DEF HandedFor
  <2> QED BY <2>1, <2>2, <1>8, <1>13
<1>15. \A x \in Numbers : x > Oldest' => seen'[x] = <<>>
  <2> SUFFICES ASSUME NEW x \in Numbers, x > Oldest' PROVE seen'[x] = <<>>
    OBVIOUS
  <2>1. x \in Int
    BY <1>7
  <2>2. x > no
    BY ONLY x > Oldest', <2>1, <1>6, <1>7, <1>9
  <2>3. seen[x] = <<>>
    BY <2>2, <1>1, <1>3 DEF SeenInv
  <2>4. x # no
    BY ONLY <2>1, <2>2, <1>7
  <2> QED BY <2>3, <2>4, <1>12
<1>16. PatientParts => r.part = Len(seen[no]) + 1
  BY <1>1, <1>2 DEF SeenInv, r
<1>17. \A x \in Numbers : x > no => seen'[x] = <<>>
  <2> SUFFICES ASSUME NEW x \in Numbers, x > no PROVE seen'[x] = <<>>
    OBVIOUS
  <2>1. x # no
    BY <1>7
  <2>2. seen[x] = <<>>
    BY <1>1, <1>3 DEF SeenInv
  <2> QED BY <2>1, <2>2, <1>12
<1>18. ASSUME back' = <<>> PROVE SeenInv'
  <2>1. Len(back) = 1
    BY <1>4, <1>5, <1>18
  <2>2. IF Ends(r) THEN Answered = no + 1 /\ HandedFor(Answered) = <<>>
        ELSE Answered = no /\ r = handed[no][Len(handed[no])]
    BY <2>1, <1>1 DEF BackInv, r
  <2>3. Oldest' = Answered'
    BY <2>2, <1>8, <1>9
  <2>4. PatientParts => Len(SeenOf(Oldest)') = Len(HandedFor(Oldest)')
    <3>1. CASE Ends(r)
      <4>1. Oldest' = no + 1 /\ no + 1 > no
        BY <3>1, <1>7, <1>9
      <4>2. SeenOf(Oldest)' = <<>>
        BY <4>1, <1>17 DEF SeenOf
      <4>3. HandedFor(Oldest)' = <<>>
        BY <3>1, <2>2, <4>1, <1>8 DEF HandedFor
      <4> QED BY <4>2, <4>3
    <3>2. CASE ~Ends(r)
      <4>1. Oldest' = no
        BY <3>2, <1>9
      <4>2. SeenOf(Oldest)' = seen'[no] /\ HandedFor(Oldest)' = handed[no]
        BY <4>1, <1>3, <1>8 DEF SeenOf, HandedFor
      <4>3. Shape(no, handed[no]) /\ Len(handed[no]) \in 1 .. Len(handed[no])
        <5>1. handed[no] \in Seq(Reply) /\ Len(handed[no]) \in Nat
          BY <1>3, <1>7
        <5> QED BY <5>1, <1>1, <1>3 DEF HandedInv
      <4>4. r.part = Len(handed[no])
        BY <3>2, <2>2, <4>3 DEF Shape
      <4> QED BY <4>2, <4>4, <1>12, <1>16
    <3> QED BY <3>1, <3>2
  <2> QED BY <2>3, <2>4, <1>15, <1>18 DEF SeenInv
<1>19. ASSUME back' # <<>> PROVE SeenInv'
  <2> DEFINE q == back[2].reply
  <2>1. 1 \in 1 .. Len(back') /\ 2 \in 1 .. Len(back) /\ 1 < Len(back)
    <3>1. Len(back') = Len(back) - 1 /\ Len(back) \in Nat \ {0} /\ Len(back) # 1
      BY <1>4, <1>5, <1>19
    <3> QED BY ONLY <3>1
  <2>2. back'[1].reply = q
    <3>1. back'[1] = back[1 + 1]
      BY <2>1, <1>13
    <3> QED BY <3>1
  <2>3. Follows(r, q)
    <3>1. Follows(r, back[1 + 1].reply)
      BY <2>1, <1>1 DEF BackInv, r
    <3> QED BY <3>1
  <2> HIDE DEF q
  <2>4. Oldest' = q.no
    BY <2>3, <1>9 DEF Follows, Continues
  <2>5. PatientParts => q.part = Len(seen'[q.no]) + 1
    <3> SUFFICES ASSUME PatientParts PROVE q.part = Len(seen'[q.no]) + 1
      OBVIOUS
    <3>1. CASE Ends(r)
      <4>1. q.no = no + 1 /\ q.part = 1 /\ q.no > no
        BY <3>1, <2>3, <1>7 DEF Follows, Continues, Begins
      <4>2. q.no \in Numbers
        <5>1. back[2] \in [reply : Reply, ansno : Nat]
          <6>1. back \in Seq([reply : Reply, ansno : Nat])
            BY <1>1 DEF TypeOK
          <6> QED BY <6>1, <2>1, ElementOfSeq
        <5>2. q \in Reply
          BY <5>1 DEF q
        <5> QED BY <5>2 DEF Reply
      <4>3. seen'[q.no] = <<>>
        BY <4>1, <4>2, <1>17
      <4> QED BY <4>1, <4>3
    <3>2. CASE ~Ends(r)
      <4>1. q.no = no /\ q.part = r.part + 1
        BY <3>2, <2>3 DEF Follows, Continues
      <4> QED BY <4>1, <1>12, <1>16
    <3> QED BY <3>1, <3>2
  <2> QED BY <2>2, <2>4, <2>5, <1>15, <1>19 DEF SeenInv
<1>20. TypeOK'
  <2>1. back' \in Seq([reply : Reply, ansno : Nat])
    BY <1>4, <1>5
  <2>2. signal' \in BOOLEAN
    BY <1>5, <1>6
  <2> QED BY <2>1, <2>2, <1>1, <1>5, <1>8, <1>9, <1>12 DEF TypeOK
<1> QED BY <1>1, <1>5, <1>9, <1>10, <1>11, <1>14, <1>18, <1>19, <1>20 DEF Inv

-----------------------------------------------------------------------------
(* The invariant, and what follows from it. *)

\* A piece that is handed over in turn goes out, another one is stored.
LEMMA AnswerStep ==
    ASSUME Inv, NEW no \in Numbers, Answer(no)
    PROVE  Inv'
<1>1. no \in delivered /\ ~EndsAnswer(handed[no])
  BY DEF Answer
<1>2. PICK r \in NextPieces(no) : CommonRpy(r)
  BY DEF Answer
<1>3. CASE NextReplyNo = no
  BY <1>1, <1>2, <1>3, SendStep
<1>4. CASE NextReplyNo # no
  BY <1>1, <1>2, <1>4, StoreStep
<1> QED BY <1>3, <1>4

\* A step that only touches the connection, or nothing.
LEMMA RestStep ==
    ASSUME Inv, UNCHANGED <<setting, sendVars, signal, answerVars, wire, back, accused, seen>>,
           conn_ok' \in BOOLEAN
    PROVE  Inv'
<1>1. TypeOK /\ SendInv /\ CallInv /\ OutInv /\ WireInv
  BY DEF Inv
<1>2. SendInv' /\ CallInv' /\ OutInv' /\ Oldest' = Oldest /\ Entering' = Entering
  BY <1>1, SenderSame
<1>3. UNCHANGED <<setting, sendVars, next_proposed_msgno, last_fixed_more_msg_no,
                  outstanding_msg, send_mutex, sender, calls, signal, answerVars,
                  incoming_msg, incoming_msg_frame_fragment, delivered, stored_replies,
                  last_ansno_sent, handed, wire, back, accused, seen>>
  BY DEF sendVars, answerVars
<1>4. TypeOK'
  BY <1>1, <1>3 DEF TypeOK
<1>5. Arriving' = Arriving
  BY <1>2, <1>3 DEF Arriving
<1>6. WireInv'
  BY <1>1, <1>2, <1>3 DEF WireInv
<1>7. next_proposed_msgno <= next_proposed_msgno'
  BY <1>1, <1>3 DEF TypeOK
<1>8. Carries
  BY <1>2, <1>4, <1>5, <1>6, <1>7 DEF Carries
<1> QED BY <1>3, <1>8, Carried

\* Inv holds at the start.
LEMMA Start ==
    ASSUME Init
    PROVE  Inv
<1>1. /\ setting \in Settings
      /\ next_proposed_msgno = -1 /\ last_fixed_more_msg_no = -1 /\ outstanding_msg = <<>>
      /\ send_mutex = "free" /\ sender = [t \in Senders |-> Idle] /\ calls = 0
      /\ signal = FALSE
      /\ incoming_msg = <<>> /\ incoming_msg_frame_fragment = -1 /\ delivered = {}
      /\ stored_replies = [no \in Numbers |-> <<>>] /\ last_ansno_sent = 0
      /\ wire = <<>> /\ back = <<>> /\ conn_ok = TRUE /\ accused = FALSE
      /\ handed = [no \in Numbers |-> <<>>] /\ seen = [no \in Numbers |-> <<>>]
  BY DEF Init
<1>2. MaxCalls \in Nat \ {0} /\ Numbers = 0 .. MaxCalls - 1
      /\ setting \in [limit : Nat, fail : BOOLEAN, more : BOOLEAN]
  BY <1>1, RepliesAssumption DEF RepliesAssumption, Numbers
<1>3. \A t \in Senders : sender[t].at = "idle"
  BY <1>1 DEF Idle
<1>4. sender \in [Senders -> [at : {"idle", "limit", "full", "waiting", "signalled", "queue"},
                              more : BOOLEAN, no : -1 .. MaxCalls - 1]]
  <2>1. Idle \in [at : {"idle", "limit", "full", "waiting", "signalled", "queue"},
                  more : BOOLEAN, no : -1 .. MaxCalls - 1]
    BY <1>2 DEF Idle
  <2> QED BY <2>1, <1>1
<1>5. TypeOK
  <2>1. <<>> \in Seq(Numbers) /\ <<>> \in Seq(Reply) /\ <<>> \in Seq([no : Numbers, more : BOOLEAN])
        /\ <<>> \in Seq([reply : Reply, ansno : Nat])
    OBVIOUS
  <2> QED BY <2>1, <1>1, <1>2, <1>4 DEF TypeOK
<1>6. Entering = 0 /\ Arriving = 0 /\ Received = 0 /\ Answered = 0 /\ Oldest = 0
  <2> Len(outstanding_msg) = 0 /\ Len(incoming_msg) = 0
    BY <1>1
  <2>1. Entering = 0 /\ Oldest = 0
    <3>1. Entering = 0
      BY <1>1, <1>3 DEF Entering
    <3>2. Oldest = 0
      BY <1>1 DEF Oldest
    <3> QED BY <3>1, <3>2
  <2>2. Arriving = 0
    BY <2>1, <1>1 DEF Arriving
  <2>3. Received = 0
    BY <2>2, <1>1 DEF Received
  <2>4. Answered = 0
    BY <2>3, <1>1 DEF Answered
  <2> QED BY <2>1, <2>2, <2>3, <2>4
<1>7. Pending = {}
  BY <1>3 DEF Pending
<1>8. SendInv /\ CallInv
  BY <1>1, <1>3, <1>7, FS_EmptySet DEF SendInv, CallInv, Holding
<1>9. OutInv /\ WireInv
  BY <1>1, <1>6 DEF OutInv, WireInv
<1>10. ArriveInv
  BY <1>1, <1>2, <1>6 DEF ArriveInv
<1>11. HandedInv
  <2>1. \A no \in Numbers : handed[no] = <<>> /\ stored_replies[no] = <<>> /\ ~(no < 0)
    BY <1>1, <1>2
  <2>2. Kept(<<>>) = <<>> /\ ~EndsAnswer(<<>>) /\ \A no : Shape(no, <<>>)
    BY DEF Kept, EndsAnswer, Shape
  <2> QED BY <2>1, <2>2, <1>6 DEF HandedInv
<1>12. \A no : HandedFor(no) = <<>> /\ SeenOf(no) = <<>>
  BY <1>1 DEF HandedFor, SeenOf
<1>13. BackInv
  BY <1>1, <1>12 DEF BackInv, AnsCount
<1>14. SeenInv
  BY <1>1, <1>6, <1>12 DEF SeenInv
<1> QED BY <1>1, <1>5, <1>8, <1>9, <1>10, <1>11, <1>13, <1>14 DEF Inv

\* Every step keeps Inv.
LEMMA Step ==
    ASSUME Inv, [Next]_vars
    PROVE  Inv'
<1>1. TypeOK /\ SendInv /\ CallInv /\ OutInv /\ WireInv
  BY DEF Inv
<1>2. ASSUME NEW t \in Senders, CheckLimit(t) PROVE Inv'
  <2>1. Carries
    BY <1>1, <1>2, LimitStep, NumberStepKeeps
  <2>2. UNCHANGED <<answerVars, back, seen, accused>>
    BY <1>2 DEF CheckLimit
  <2> QED BY <2>1, <2>2, Carried
<1>3. ASSUME NEW t \in Senders, WaitReduced(t) \/ Resume(t) PROVE Inv'
  <2>1. Carries
    BY <1>1, <1>3, WaitStep
  <2>2. UNCHANGED <<answerVars, back, seen, accused>>
    BY <1>3 DEF WaitReduced, Resume
  <2> QED BY <2>1, <2>2, Carried
<1>4. ASSUME NEW t \in Senders, QueueMsg(t) PROVE Inv'
  <2>1. Carries
    BY <1>1, <1>4, QueueStep
  <2>2. UNCHANGED <<answerVars, back, seen, accused>>
    BY <1>4 DEF QueueMsg
  <2> QED BY <2>1, <2>2, Carried
<1>5. ASSUME NEW t \in Senders, NEW more \in BOOLEAN, Call(t, more) PROVE Inv'
  <2>1. Carries
    BY <1>1, <1>5, CallStep
  <2>2. UNCHANGED <<answerVars, back, seen, accused>>
    BY <1>5 DEF Call
  <2> QED BY <2>1, <2>2, Carried
<1>6. CASE SignalReduced
  <2>1. Carries
    BY <1>1, <1>6, SignalStep
  <2>2. UNCHANGED <<answerVars, back, seen, accused>>
    BY <1>6 DEF SignalReduced
  <2> QED BY <2>1, <2>2, Carried
<1>7. CASE RecvMsg
  BY <1>7, RecvMsgStep
<1>8. CASE RecvReply
  BY <1>8, RecvReplyStep
<1>9. ASSUME NEW no \in Numbers, Answer(no) PROVE Inv'
  BY <1>9, AnswerStep
<1>10. CASE BreakConnection
  BY <1>10, RestStep DEF BreakConnection
<1>11. CASE Quiet \/ UNCHANGED vars
  <2>1. UNCHANGED <<setting, sendVars, signal, answerVars, wire, back, conn_ok, accused, seen>>
    BY <1>11 DEF Quiet, vars
  <2>2. conn_ok' \in BOOLEAN
    BY <2>1, <1>1 DEF TypeOK
  <2> QED BY <2>1, <2>2, RestStep
<1> QED BY <1>2, <1>3, <1>4, <1>5, <1>6, <1>7, <1>8, <1>9, <1>10, <1>11 DEF Next, Proceed

\* The invariant holds in every state, and with it whatever follows from it.
LEMMA Always == Spec => []Inv
<1>1. Init => Inv
  BY Start
<1>2. Inv /\ [Next]_vars => Inv'
  BY Step
<1> QED BY <1>1, <1>2, PTL DEF Spec

\* Every variable keeps the shape of the C field or local it stands for: a
\* message number never goes beyond the calls that were made.
THEOREM Types == Spec => []TypeOK
<1>1. Inv => TypeOK
  BY DEF Inv
<1> QED BY <1>1, Always, PTL

\* Neither vortex_channel_check_msg_no nor the expected reply number of
\* __vortex_reader_process_socket ever closes the connection between two
\* Vortex peers, whatever the order the application answers in.
THEOREM NobodyAccused == Spec => []NoAccusation
<1>1. Inv => NoAccusation
  BY DEF Inv, NoAccusation
<1> QED BY <1>1, Always, PTL

\* The ANS replies on their way back are numbered from 0 for each message, in
\* the order they were handed over: last_ansno_sent is right when stored
\* replies of one message leave behind those of another.
THEOREM NumbersFromZero == Spec => []AnsNumbered
<1>1. Inv => AnsNumbered
  BY DEF Inv, BackInv, AnsNumbered
<1> QED BY <1>1, Always, PTL

\* How the list of outstanding messages moves.
LEMMA OutstandingMoves ==
    ASSUME Inv, [Next]_vars
    PROVE  /\ setting' = setting
           /\ \/ outstanding_msg' = outstanding_msg
              \/ /\ ~AtLimit
                 /\ outstanding_msg' = Append(outstanding_msg, next_proposed_msgno + 1)
              \/ outstanding_msg # <<>> /\ outstanding_msg' = Tail(outstanding_msg)
<1>1. TypeOK /\ SendInv /\ CallInv
  BY DEF Inv
<1>2. ASSUME NEW t \in Senders, CheckLimit(t)
      PROVE  /\ setting' = setting
             /\ \/ outstanding_msg' = outstanding_msg
                \/ /\ ~AtLimit
                   /\ outstanding_msg' = Append(outstanding_msg, next_proposed_msgno + 1)
  <2>1. CASE AtLimit
    BY <2>1, <1>2 DEF CheckLimit
  <2>2. CASE ~AtLimit
    BY <2>2, <1>1, <1>2, NumberGiven
  <2> QED BY <2>1, <2>2
<1>3. ASSUME NEW t \in Senders, NEW more \in BOOLEAN,
             WaitReduced(t) \/ QueueMsg(t) \/ Resume(t) \/ Call(t, more)
      PROVE  UNCHANGED <<setting, outstanding_msg>>
  BY <1>3 DEF WaitReduced, QueueMsg, Resume, Call
<1>4. ASSUME RecvMsg \/ SignalReduced \/ BreakConnection \/ Quiet \/ UNCHANGED vars
      PROVE  UNCHANGED <<setting, outstanding_msg>>
  <2>1. CASE RecvMsg
    BY <2>1 DEF RecvMsg, sendVars
  <2>2. CASE SignalReduced
    BY <2>2 DEF SignalReduced
  <2>3. CASE BreakConnection
    BY <2>3 DEF BreakConnection, sendVars
  <2>4. CASE Quiet \/ UNCHANGED vars
    BY <2>4 DEF Quiet, vars, sendVars
  <2> QED BY <1>4, <2>1, <2>2, <2>3, <2>4
<1>5. ASSUME NEW no \in Numbers, Answer(no)
      PROVE  UNCHANGED <<setting, outstanding_msg>>
  BY <1>5 DEF Answer, CommonRpy, sendVars
<1>6. ASSUME RecvReply
      PROVE  /\ setting' = setting
             /\ \/ outstanding_msg' = outstanding_msg
                \/ outstanding_msg # <<>> /\ outstanding_msg' = Tail(outstanding_msg)
  BY <1>6 DEF RecvReply
<1> QED BY <1>2, <1>3, <1>4, <1>5, <1>6 DEF Next, Proceed

\* The limit of vortex_channel_set_outstanding_limit holds: nothing comes
\* between the look at the list and the number that is added to it, although
\* the reader reduces it without the send mutex.
THEOREM Limited == Spec => []WithinLimit
<1>1. Init => WithinLimit
  <2> SUFFICES ASSUME Init PROVE WithinLimit
    OBVIOUS
  <2>1. Inv /\ outstanding_msg = <<>>
    BY Start DEF Init
  <2>2. setting.limit \in Nat /\ Len(outstanding_msg) = 0
    BY <2>1 DEF Inv, TypeOK
  <2> QED BY <2>2 DEF WithinLimit
<1>2. Inv /\ WithinLimit /\ [Next]_vars => WithinLimit'
  <2> SUFFICES ASSUME Inv, WithinLimit, [Next]_vars PROVE WithinLimit'
    OBVIOUS
  <2>1. /\ outstanding_msg \in Seq(Numbers) /\ Len(outstanding_msg) \in Nat
        /\ setting.limit \in Nat /\ outstanding_msg' \in Seq(Numbers)
    <3>1. TypeOK /\ TypeOK'
      BY Step DEF Inv
    <3> QED BY <3>1 DEF TypeOK
  <2>2. setting' = setting
    BY OutstandingMoves
  <2>3. CASE outstanding_msg' = outstanding_msg
    BY <2>2, <2>3 DEF WithinLimit
  <2>4. CASE ~AtLimit /\ outstanding_msg' = Append(outstanding_msg, next_proposed_msgno + 1)
    <3>1. Len(outstanding_msg') = Len(outstanding_msg) + 1
      BY <2>1, <2>4
    <3>2. setting.limit > 0 => Len(outstanding_msg) < setting.limit
      BY <2>1, <2>4 DEF AtLimit
    <3> QED BY <3>1, <3>2, <2>1, <2>2 DEF WithinLimit
  <2>5. CASE outstanding_msg # <<>> /\ outstanding_msg' = Tail(outstanding_msg)
    <3>1. Len(outstanding_msg') = Len(outstanding_msg) - 1
      BY <2>1, <2>5, TailIs
    <3> QED BY <3>1, <2>1, <2>2 DEF WithinLimit
  <2> QED BY <2>3, <2>4, <2>5, OutstandingMoves
<1> QED BY <1>1, <1>2, Always, PTL DEF Spec

-----------------------------------------------------------------------------
(* A channel implements the ordered exchange. *)

\* The turn to be answered is never behind what comes back.
LEMMA TurnIsAhead ==
    ASSUME Inv
    PROVE  Oldest <= Answered
<1>1. TypeOK /\ BackInv /\ SeenInv
  BY DEF Inv
<1>2. Oldest \in Int /\ Answered \in Int
  BY <1>1, PlacesAre
<1>3. CASE back = <<>>
  BY <1>1, <1>2, <1>3 DEF SeenInv
<1>4. CASE back # <<>>
  <2> DEFINE L == Len(back)
             n == L - 1
             T == {k \in 0 .. n : back[L - k].reply.no <= Answered}
  <2>1. L \in Nat \ {0} /\ n \in Nat
    BY <1>1, <1>4 DEF TypeOK
  <2>2. \A i \in 1 .. L : back[i].reply.no \in Int
    <3> SUFFICES ASSUME NEW i \in 1 .. L PROVE back[i].reply.no \in Int
      OBVIOUS
    <3>1. back[i] \in [reply : Reply, ansno : Nat]
      BY <1>1, ElementOfSeq DEF TypeOK
    <3>2. back[i].reply.no \in Numbers
      BY <3>1 DEF Reply
    <3> QED BY <3>2, RepliesAssumption DEF RepliesAssumption, Numbers
  <2>3. 0 \in T
    <3>1. L \in 1 .. Len(back) /\ ~(L < Len(back)) /\ L - 0 = L
      BY <2>1
    <3>2. Answered = back[L].reply.no \/ Answered = back[L].reply.no + 1
      BY <3>1, <1>1 DEF BackInv
    <3>3. back[L].reply.no \in Int
      BY <2>2, <3>1
    <3>4. back[L].reply.no <= Answered
      BY ONLY <3>2, <3>3, <1>2
    <3> QED BY <3>1, <3>4, <2>1
  <2>4. \A k \in 0 .. n - 1 : k \in T => k + 1 \in T
    <3> SUFFICES ASSUME NEW k \in 0 .. n - 1, k \in T PROVE k + 1 \in T
      OBVIOUS
    <3> DEFINE i == L - (k + 1)
               p == back[i].reply
               q == back[i + 1].reply
    <3>1. i \in 1 .. Len(back) /\ i < Len(back) /\ i + 1 = L - k /\ k + 1 \in 0 .. n
          /\ i + 1 \in 1 .. Len(back)
      BY <2>1
    <3>2. Follows(p, q)
      BY <3>1, <1>1 DEF BackInv
    <3>3. p.no \in Int /\ q.no \in Int
      BY <2>2, <3>1
    <3>4. q.no <= Answered
      BY <3>1
    <3> HIDE DEF p, q
    <3>5. p.no <= q.no
      BY <3>2, <3>3 DEF Follows, Continues
    <3>6. p.no <= Answered
      BY ONLY <3>3, <3>4, <3>5, <1>2
    <3> QED BY <3>1, <3>6 DEF p
  <2>5. n \in T
    <3> HIDE DEF T, n
    <3>1. \A k \in 0 .. n : k \in T
      BY <2>1, <2>3, <2>4, UpTo
    <3>2. n \in 0 .. n
      BY <2>1
    <3> QED BY <3>1, <3>2
  <2>6. back[1].reply.no <= Answered
    <3>1. L - n = 1
      BY <2>1
    <3> QED BY <2>5, <3>1
  <2>7. Oldest = back[1].reply.no
    BY <1>1, <1>4 DEF SeenInv
  <2> QED BY <2>6, <2>7
<1> QED BY <1>3, <1>4

\* The outstanding messages are those from the oldest to the last given out.
LEMMA OutstandingAre ==
    ASSUME TypeOK, OutInv, NEW no \in Numbers
    PROVE  no \in {outstanding_msg[i] : i \in 1 .. Len(outstanding_msg)} <=>
               Oldest <= no /\ no <= next_proposed_msgno
<1>1. /\ next_proposed_msgno \in Int /\ Oldest \in Int /\ no \in Int
      /\ Len(outstanding_msg) \in Nat
      /\ Oldest = next_proposed_msgno + 1 - Len(outstanding_msg)
  <2>1. next_proposed_msgno \in Int /\ Oldest \in Int /\ no \in Int
    BY PlacesAre
  <2>2. Len(outstanding_msg) \in Nat
    BY DEF TypeOK
  <2> QED BY <2>1, <2>2 DEF Oldest
<1>2. \A i \in 1 .. Len(outstanding_msg) : outstanding_msg[i] = Oldest + i - 1
  BY DEF OutInv
<1>3. ASSUME Oldest <= no, no <= next_proposed_msgno
      PROVE  no \in {outstanding_msg[i] : i \in 1 .. Len(outstanding_msg)}
  <2>1. no - Oldest + 1 \in 1 .. Len(outstanding_msg)
    BY ONLY <1>1, <1>3
  <2>2. outstanding_msg[no - Oldest + 1] = Oldest + (no - Oldest + 1) - 1
    BY <1>2, <2>1
  <2>3. outstanding_msg[no - Oldest + 1] = no
    BY ONLY <1>1, <2>2
  <2> QED BY <2>1, <2>3
<1>4. ASSUME NEW i \in 1 .. Len(outstanding_msg), no = outstanding_msg[i]
      PROVE  Oldest <= no /\ no <= next_proposed_msgno
  <2>1. no = Oldest + i - 1
    BY <1>2, <1>4
  <2> QED BY ONLY <1>1, <2>1
<1> QED BY <1>3, <1>4

\* Nothing is beyond the last number that was given out.
LEMMA ArrivingIs ==
    ASSUME Inv
    PROVE  Arriving \in Int /\ next_proposed_msgno \in Int /\ Arriving <= next_proposed_msgno + 1
<1>1. TypeOK /\ WireInv /\ ArriveInv
  BY DEF Inv
<1>2. Arriving \in Int /\ next_proposed_msgno \in Int
  BY <1>1, PlacesAre
<1>3. CASE wire = <<>>
  BY <1>2, <1>3 DEF Arriving, Entering
<1>4. CASE wire # <<>>
  <2>1. Arriving <= next_proposed_msgno
    BY <1>1, <1>4, FirstOnWire
  <2> QED BY ONLY <1>2, <2>1
<1> QED BY <1>2, <1>3, <1>4

\* A new message is asked about: nothing has come back for it.
LEMMA AskStep ==
    ASSUME Inv, PatientParts, NEW t \in Senders, CheckLimit(t), ~AtLimit,
           outstanding_msg' # outstanding_msg
    PROVE  \E n \in Numbers : Exchange!Ask(n)
<1> DEFINE n == next_proposed_msgno + 1
<1>1. TypeOK /\ SendInv /\ CallInv /\ OutInv /\ WireInv /\ ArriveInv /\ HandedInv /\ SeenInv
  BY DEF Inv
<1>2. /\ n \in Numbers /\ outstanding_msg' = Append(outstanding_msg, n)
      /\ UNCHANGED <<handed, seen>>
  <2>1. /\ next_proposed_msgno' = n /\ outstanding_msg' = Append(outstanding_msg, n)
        /\ next_proposed_msgno' \in Numbers /\ UNCHANGED <<answerVars, seen>>
    BY <1>1, NumberGiven
  <2> QED BY <2>1 DEF answerVars
<1>3. next_proposed_msgno \in Int /\ Oldest \in Int /\ Arriving \in Int /\ n \in Int
      /\ Arriving <= n /\ ~(n <= next_proposed_msgno)
  <2>1. next_proposed_msgno \in Int /\ Oldest \in Int /\ Arriving \in Int
        /\ Arriving <= next_proposed_msgno + 1
    BY <1>1, PlacesAre, ArrivingIs
  <2> QED BY <2>1
<1>4. n \notin {outstanding_msg[i] : i \in 1 .. Len(outstanding_msg)}
  BY <1>1, <1>2, <1>3, OutstandingAre
<1>5. seen[n] = <<>>
  <2>1. handed[n] = <<>>
    <3>1. n \notin delivered
      BY <1>1, <1>2, <1>3 DEF ArriveInv
    <3> QED BY <3>1, <1>1, <1>2 DEF HandedInv
  <2>2. CASE n > Oldest
    BY <2>2, <1>1, <1>2 DEF SeenInv
  <2>3. CASE ~(n > Oldest)
    <3>1. n = Oldest
      <4>1. Oldest = next_proposed_msgno + 1 - Len(outstanding_msg) /\ Len(outstanding_msg) \in Nat
        BY <1>1 DEF Oldest, TypeOK
      <4> QED BY <2>3, <4>1, <1>3
    <3>2. back = <<>>
      <4> SUFFICES ASSUME back # <<>> PROVE FALSE
        OBVIOUS
      <4>1. Oldest \in Numbers /\ handed[Oldest] # <<>>
        BY FirstBack
      <4> QED BY <4>1, <3>1, <2>1
    <3>3. Len(seen[n]) = Len(handed[n])
      BY <3>1, <3>2, <1>1, <1>2 DEF SeenInv, SeenOf, HandedFor
    <3>4. seen[n] \in Seq(Reply) /\ Len(seen[n]) = 0
      BY <3>3, <2>1, <1>1, <1>2 DEF TypeOK
    <3> QED BY <3>4
  <2> QED BY <2>2, <2>3
<1> HIDE DEF n
<1> QED BY <1>2, <1>4, <1>5 DEF Exchange!Ask

\* A piece is handed over for a message that is outstanding.
LEMMA HandStep ==
    ASSUME Inv, NEW no \in Numbers, Answer(no)
    PROVE  Exchange!HandOver(no)
<1>1. TypeOK /\ OutInv /\ ArriveInv /\ HandedInv
  BY DEF Inv
<1>2. no \in delivered /\ ~EndsAnswer(handed[no])
  BY DEF Answer
<1>3. PICK r \in NextPieces(no) : CommonRpy(r)
  BY DEF Answer
<1>4. r \in Reply /\ r.no = no
  BY <1>1, <1>2, NextPieceIs
<1>5. /\ handed' = [handed EXCEPT ![r.no] = Append(@, r)]
      /\ UNCHANGED <<outstanding_msg, seen>>
  BY <1>3 DEF CommonRpy, sendVars
<1>6. Len(handed'[no]) = Len(handed[no]) + 1 /\ handed'[no][Len(handed[no]) + 1] = r
  BY <1>1, <1>4, <1>5, HandedGrows
<1>7. no \in {outstanding_msg[i] : i \in 1 .. Len(outstanding_msg)}
  <2>1. Answered <= no /\ no < Arriving
    BY <1>1, <1>2, InTurn
  <2>2. Oldest <= Answered /\ Oldest \in Int /\ Answered \in Int /\ no \in Int
    BY <1>1, TurnIsAhead, PlacesAre
  <2>3. Arriving \in Int /\ next_proposed_msgno \in Int /\ Arriving <= next_proposed_msgno + 1
    BY ArrivingIs
  <2>4. Oldest <= no /\ no <= next_proposed_msgno
    BY ONLY <2>1, <2>2, <2>3
  <2> QED BY <2>4, <1>1, OutstandingAre
<1>8. handed' = [handed EXCEPT ![no] = Append(@, handed'[no][Len(@) + 1])]
  BY <1>4, <1>5, <1>6
<1> QED BY <1>5, <1>6, <1>7, <1>8 DEF Exchange!HandOver

\* A piece comes back: the next one of the oldest message.
LEMMA BackStep ==
    ASSUME Inv, PatientParts, RecvReply
    PROVE  Exchange!ComesBack
<1> DEFINE r == back[1].reply
           n == r.no
           k == Len(seen[n]) + 1
<1>1. TypeOK /\ SeenInv /\ back # <<>>
  BY DEF Inv, RecvReply
<1>2. /\ r \in Reply /\ n \in Numbers
      /\ r.part \in 1 .. Len(handed[n]) /\ r = handed[n][r.part]
      /\ outstanding_msg # <<>> /\ Head(outstanding_msg) = n
  BY <1>1, FirstBack
<1>3. r.part = k
  BY <1>1 DEF SeenInv
<1>4. Head(back) = back[1]
  BY <1>1 DEF TypeOK
<1>5. /\ seen' = [seen EXCEPT ![n] = Append(@, r)]
      /\ outstanding_msg' = IF Ends(r) THEN Tail(outstanding_msg) ELSE outstanding_msg
      /\ UNCHANGED handed
  BY <1>2, <1>4 DEF RecvReply, answerVars
<1> HIDE DEF r
<1>6. k <= Len(handed[n]) /\ handed[n][k] = r
  BY <1>2, <1>3
<1> QED BY <1>2, <1>5, <1>6 DEF Exchange!ComesBack

\* Under PatientParts, every step of the channel is one of the exchange, or
\* none: pieces stored out of turn and released together come back whole, once
\* and in order.
THEOREM Ordered ==
    ASSUME PatientParts
    PROVE  Spec => ImplementsExchange
<1>1. Init => Exchange!ExchangeInit
  BY DEF Init, Exchange!ExchangeInit
<1>2. Inv /\ [Next]_vars => [Exchange!ExchangeNext]_(Exchange!exchange)
  <2> SUFFICES ASSUME Inv, [Next]_vars
               PROVE  Exchange!ExchangeNext \/ UNCHANGED <<outstanding_msg, handed, seen>>
    BY DEF Exchange!exchange
  <2>1. ASSUME NEW t \in Senders, CheckLimit(t)
        PROVE  Exchange!ExchangeNext \/ UNCHANGED <<outstanding_msg, handed, seen>>
    <3>1. UNCHANGED <<handed, seen>>
      BY <2>1 DEF CheckLimit, answerVars
    <3>2. CASE outstanding_msg' = outstanding_msg
      BY <3>1, <3>2
    <3>3. CASE outstanding_msg' # outstanding_msg
      <4>1. ~AtLimit
        BY <2>1, <3>3 DEF CheckLimit
      <4> QED BY <2>1, <3>3, <4>1, AskStep DEF Exchange!ExchangeNext
    <3> QED BY <3>2, <3>3
  <2>2. ASSUME NEW t \in Senders, NEW more \in BOOLEAN,
               WaitReduced(t) \/ QueueMsg(t) \/ Resume(t) \/ Call(t, more)
        PROVE  UNCHANGED <<outstanding_msg, handed, seen>>
    BY <2>2 DEF WaitReduced, QueueMsg, Resume, Call, answerVars
  <2>3. ASSUME RecvMsg \/ SignalReduced \/ BreakConnection \/ Quiet \/ UNCHANGED vars
        PROVE  UNCHANGED <<outstanding_msg, handed, seen>>
    <3>1. CASE RecvMsg
      BY <3>1 DEF RecvMsg, sendVars
    <3>2. CASE SignalReduced
      BY <3>2 DEF SignalReduced, answerVars
    <3>3. CASE BreakConnection
      BY <3>3 DEF BreakConnection, sendVars, answerVars
    <3>4. CASE Quiet \/ UNCHANGED vars
      BY <3>4 DEF Quiet, vars, sendVars, answerVars
    <3> QED BY <2>3, <3>1, <3>2, <3>3, <3>4
  <2>4. ASSUME NEW no \in Numbers, Answer(no) PROVE Exchange!ExchangeNext
    BY <2>4, HandStep DEF Exchange!ExchangeNext
  <2>5. CASE RecvReply
    BY <2>5, BackStep DEF Exchange!ExchangeNext
  <2> QED BY <2>1, <2>2, <2>3, <2>4, <2>5 DEF Next, Proceed
<1> QED BY <1>1, <1>2, Always, PTL DEF Spec, ImplementsExchange, Exchange!Exchange
=============================================================================
