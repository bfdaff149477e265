--------------------------- MODULE OrderedReplies ---------------------------
(***************************************************************************)
(* What a channel promises to an application that sends messages on it:    *)
(* the application at the other end may answer them in any order, each     *)
(* answer in one or several pieces; the pieces come back whole, once, in   *)
(* the order they were handed over, and the answers in the order of the    *)
(* messages.                                                               *)
(***************************************************************************)
EXTENDS Integers, Sequences

CONSTANTS Numbers, Last(_)  \* message numbers; the piece that ends an answer

VARIABLES
    asked,      \* messages not completely answered, oldest first
    handed,     \* the pieces handed over for each message
    seen        \* the pieces that came back for each message

exchange == <<asked, handed, seen>>

ExchangeInit ==
    /\ asked = <<>>
    /\ handed = [n \in Numbers |-> <<>>] /\ seen = [n \in Numbers |-> <<>>]

Ask(n) ==
    /\ n \notin {asked[i] : i \in 1 .. Len(asked)} /\ seen[n] = <<>>
    /\ asked' = Append(asked, n)
    /\ UNCHANGED <<handed, seen>>

HandOver(n) ==
    /\ n \in {asked[i] : i \in 1 .. Len(asked)}
    /\ Len(handed'[n]) = Len(handed[n]) + 1
    /\ handed' = [handed EXCEPT ![n] = Append(@, handed'[n][Len(@) + 1])]
    /\ UNCHANGED <<asked, seen>>

ComesBack ==
    /\ asked # <<>>
    /\ LET n == Head(asked)
           k == Len(seen[n]) + 1
       IN  /\ k <= Len(handed[n])
           /\ seen' = [seen EXCEPT ![n] = Append(@, handed[n][k])]
           /\ asked' = IF Last(handed[n][k]) THEN Tail(asked) ELSE asked
    /\ UNCHANGED handed

ExchangeNext == ComesBack \/ \E n \in Numbers : Ask(n) \/ HandOver(n)

Exchange == ExchangeInit /\ [][ExchangeNext]_exchange
=============================================================================
