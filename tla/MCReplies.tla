------------------------------ MODULE MCReplies ------------------------------
(* Instances of Replies for TLC. *)
EXTENDS Replies

\* Senders that block at one outstanding message, that fail at two, and that
\* send messages in parts without a limit.
MixedSettings ==
    {[limit |-> 1, fail |-> FALSE, more |-> FALSE],
     [limit |-> 2, fail |-> TRUE,  more |-> FALSE],
     [limit |-> 0, fail |-> FALSE, more |-> TRUE]}

\* Messages in parts under a limit of one.
LimitedParts == {[limit |-> 1, fail |-> FALSE, more |-> TRUE]}
=============================================================================
