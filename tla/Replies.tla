------------------------------ MODULE Replies ------------------------------
(***************************************************************************)
(* Messages and replies of one channel.  Application threads send MSG      *)
(* (vortex_channel_send_msg_common), possibly limited in how many may be   *)
(* outstanding; the peer's reader checks and delivers them, the peer's     *)
(* application answers them in any order (__vortex_channel_common_rpy      *)
(* stores what is out of turn), and the reader of the first peer checks    *)
(* the replies and wakes blocked senders.                                  *)
(*                                                                         *)
(* The frames of a channel leave in the order they are queued (Sequencer), *)
(* and are here one per call; a message sent in several frames looks like  *)
(* one sent with vortex_channel_send_msg_more.  ERR takes the paths of RPY.*)
(***************************************************************************)
EXTENDS Integers, Sequences, FiniteSets, FiniteSetsExt, SequencesExt

CONSTANTS
    Senders,        \* application threads that send
    MaxCalls,       \* bound: calls to send a message
    MaxParts,       \* bound: pieces of one answer
    Settings,       \* outstanding_limit, fail_on_limit and whether the
                    \* application uses vortex_channel_send_msg_more
    PatientParts,   \* vortex_channel_send_rpy_more is only used for the
                    \* message whose turn it is
    MayBreak        \* the connection may break

RepliesAssumption ==
    /\ MaxCalls \in Nat \ {0} /\ MaxParts \in Nat \ {0}
    /\ Settings \subseteq [limit : Nat, fail : BOOLEAN, more : BOOLEAN]
    /\ PatientParts \in BOOLEAN /\ MayBreak \in BOOLEAN
ASSUME RepliesAssumption

VARIABLES
    setting,
    \* sending side
    next_proposed_msgno, last_fixed_more_msg_no, outstanding_msg,
    send_mutex, sender, calls, signal,
    \* answering side
    incoming_msg, incoming_msg_frame_fragment, delivered, stored_replies,
    last_ansno_sent,
    \* between them
    wire, back, conn_ok, accused,
    \* histories
    handed, seen

sendVars   == <<next_proposed_msgno, last_fixed_more_msg_no, outstanding_msg,
                send_mutex, sender, calls>>
answerVars == <<incoming_msg, incoming_msg_frame_fragment, delivered, stored_replies,
                last_ansno_sent, handed>>
vars == <<setting, sendVars, signal, answerVars, wire, back, conn_ok, accused, seen>>

Numbers == 0 .. MaxCalls - 1
Reply == [no : Numbers, type : {"RPY", "ANS", "NUL"}, more : BOOLEAN, part : 1 .. MaxParts]

\* The piece that ends an answer.
Ends(r) == r.type # "ANS" /\ ~r.more
EndsAnswer(pieces) == pieces # <<>> /\ Ends(pieces[Len(pieces)])

-----------------------------------------------------------------------------
(* Sending *)

Idle == [at |-> "idle", more |-> FALSE, no |-> -1]

\* A thread calls vortex_channel_send_msg or _more and takes the send mutex.
\* One call is kept for the end of a message that is open.
Call(t, more) ==
    /\ conn_ok /\ sender[t].at = "idle" /\ send_mutex = "free"
    /\ more => setting.more
    /\ calls' = calls + 1 /\ calls' + (IF more THEN 1 ELSE 0) <= MaxCalls
    /\ send_mutex' = "sender"
    /\ sender' = [sender EXCEPT ![t] = [at |-> "limit", more |-> more, no |-> -1]]
    /\ UNCHANGED <<setting, next_proposed_msgno, last_fixed_more_msg_no, outstanding_msg,
                   signal, answerVars, wire, back, conn_ok, accused, seen>>

\* Mutant: one message more than the limit.
AboveLimit == setting.limit > 0 /\ Len(outstanding_msg) > setting.limit

\* outstanding_limit is set and reached.
AtLimit == setting.limit > 0 /\ Len(outstanding_msg) >= setting.limit

\* vortex_channel_get_next_msg_no
NextMsgNo == next_proposed_msgno + 1

\* The limit comes first: at it, the call fails or is about to wait.  Then the
\* number: of the message left open, or a new one, which becomes outstanding.
CheckLimit(t) ==
    /\ sender[t].at = "limit"
    /\ IF AtLimit
       THEN /\ IF setting.fail
               THEN sender' = [sender EXCEPT ![t] = Idle] /\ send_mutex' = "free"
               ELSE sender' = [sender EXCEPT ![t].at = "full"] /\ UNCHANGED send_mutex
            /\ UNCHANGED <<next_proposed_msgno, last_fixed_more_msg_no, outstanding_msg>>
       ELSE LET open == last_fixed_more_msg_no >= 0
                no   == IF open THEN last_fixed_more_msg_no ELSE NextMsgNo
            IN  /\ sender' = [sender EXCEPT ![t].at = "queue", ![t].no = no]
                /\ next_proposed_msgno' = IF open THEN next_proposed_msgno ELSE no
                /\ last_fixed_more_msg_no' = IF sender[t].more THEN no ELSE -1
                /\ outstanding_msg' = IF open THEN outstanding_msg
                                      ELSE Append(outstanding_msg, no)
                /\ UNCHANGED send_mutex
    /\ UNCHANGED <<setting, calls, signal, answerVars, wire, back, conn_ok, accused, seen>>

\* VORTEX_COND_WAIT lets go of the mutex.
WaitReduced(t) ==
    /\ sender[t].at = "full"
    /\ sender' = [sender EXCEPT ![t].at = "waiting"] /\ send_mutex' = "free"
    /\ UNCHANGED <<setting, next_proposed_msgno, last_fixed_more_msg_no, outstanding_msg,
                   calls, signal, answerVars, wire, back, conn_ok, accused, seen>>

\* A signalled thread has the mutex again and looks at the limit again.
Resume(t) ==
    /\ sender[t].at = "signalled" /\ send_mutex = "free"
    /\ sender' = [sender EXCEPT ![t].at = "limit"] /\ send_mutex' = "sender"
    /\ UNCHANGED <<setting, next_proposed_msgno, last_fixed_more_msg_no, outstanding_msg,
                   calls, signal, answerVars, wire, back, conn_ok, accused, seen>>

\* vortex_sequencer_queue_data, and the end of the call
QueueMsg(t) ==
    /\ sender[t].at = "queue"
    /\ wire' = Append(wire, [no |-> sender[t].no, more |-> sender[t].more])
    /\ sender' = [sender EXCEPT ![t] = Idle] /\ send_mutex' = "free"
    /\ UNCHANGED <<setting, next_proposed_msgno, last_fixed_more_msg_no, outstanding_msg,
                   calls, signal, answerVars, back, conn_ok, accused, seen>>

-----------------------------------------------------------------------------
(* Answering *)

\* vortex_channel_check_msg_no refuses a fragment of another message and a
\* number that is not answered yet.
BadMsgNo(f) ==
    IF incoming_msg_frame_fragment # -1
    THEN incoming_msg_frame_fragment # f.no
    ELSE f.no \in ToSet(incoming_msg)

\* The answering reader takes a MSG frame; a complete message goes to a
\* thread of the pool.
RecvMsg ==
    /\ conn_ok /\ wire # <<>>
    /\ wire' = Tail(wire)
    /\ LET f == Head(wire)
       IN  IF BadMsgNo(f)
           THEN /\ conn_ok' = FALSE /\ accused' = TRUE
                /\ UNCHANGED <<incoming_msg, incoming_msg_frame_fragment, delivered>>
           ELSE /\ incoming_msg_frame_fragment' = IF f.more THEN f.no ELSE -1
                /\ incoming_msg' = IF incoming_msg_frame_fragment # -1 THEN incoming_msg
                                   ELSE Append(incoming_msg, f.no)
                /\ delivered' = IF f.more THEN delivered ELSE delivered \cup {f.no}
                /\ UNCHANGED <<conn_ok, accused>>
    /\ UNCHANGED <<setting, sendVars, signal, stored_replies, last_ansno_sent, handed,
                   back, seen>>

\* Mutant: whatever is delivered may be answered at once.
NextReplyAny == IF delivered = {} THEN -1 ELSE Max(delivered)

\* vortex_channel_get_next_reply_no
NextReplyNo == IF incoming_msg = <<>> THEN -1 ELSE Head(incoming_msg)

\* A reply out of turn is stored: ANS and NUL are added to the list of their
\* message, a RPY takes the place of what is there.
StoreReply(r) ==
    LET there   == stored_replies[r.no]
        refused == there # <<>> /\ \/ Head(there).type = "RPY"
                                   \/ r.type = "NUL" /\ EndsAnswer(there)
    IN  stored_replies' = [stored_replies EXCEPT ![r.no] =
            IF r.type = "RPY" THEN <<r>> ELSE IF refused THEN there ELSE Append(there, r)]

\* Mutant: the first stored answer follows, whole or not, and no other.
FollowingOne(waiting) == SubSeq(waiting, 1, Min({1, Len(waiting)}))

\* The stored answers that follow when the messages waiting are now in turn:
\* whole ones first, then as much as there is of the next.
Following(waiting) ==
    LET whole == Max({n \in 0 .. Len(waiting) :
                        \A i \in 1 .. n : EndsAnswer(stored_replies[waiting[i]])})
    IN  SubSeq(waiting, 1, Min({whole + 1, Len(waiting)}))

\* last_ansno_sent after a reply is queued
NextAnsNo(ansno, r) ==
    CASE r.type = "ANS" -> ansno + 1 [] r.type = "NUL" -> 0 [] OTHER -> ansno

\* What is queued with a reply in turn: it and the stored ones that follow.
Pieces(r, follow) ==
    <<r>> \o FlattenSeq([i \in 1 .. Len(follow) |-> stored_replies[follow[i]]])

\* Mutant: the stored replies that follow all take the counter as it was before.
AnsNosAtOnce(pieces) ==
    LET ansno[i \in 1 .. Len(pieces) + 1] ==
            IF i = 1 THEN last_ansno_sent ELSE NextAnsNo(ansno[i - 1], pieces[i - 1])
    IN  [i \in DOMAIN ansno |-> IF i \in DOMAIN pieces THEN last_ansno_sent ELSE ansno[i]]

\* The ansno of each piece that is queued, and the next.
AnsNos(pieces) ==
    LET ansno[i \in 1 .. Len(pieces) + 1] ==
            IF i = 1 THEN last_ansno_sent ELSE NextAnsNo(ansno[i - 1], pieces[i - 1])
    IN  ansno

\* How many of the answers that follow are whole.
Whole(follow) == IF follow # <<>> /\ ~EndsAnswer(stored_replies[Last(follow)])
                 THEN Len(follow) - 1 ELSE Len(follow)

\* A reply in turn is queued, and the stored ones that are in turn after it, in
\* one critical section.  An answer that is whole takes the first pending
\* message number away.
SendReply(r) ==
    LET waiting == IF Ends(r) THEN Tail(incoming_msg) ELSE incoming_msg
        follow  == Following(waiting)
        pieces  == Pieces(r, follow)
    IN  /\ back' = back \o [i \in 1 .. Len(pieces) |->
                               [reply |-> pieces[i], ansno |-> AnsNos(pieces)[i]]]
        /\ last_ansno_sent' = AnsNos(pieces)[Len(pieces) + 1]
        /\ incoming_msg' = SubSeq(waiting, Whole(follow) + 1, Len(waiting))
        /\ stored_replies' = [no \in Numbers |-> IF no \in ToSet(follow) THEN <<>>
                                                 ELSE stored_replies[no]]

\* What an application that answers a message once may hand over next.
NextPieces(no) ==
    LET n == Len(handed[no]) + 1
        last == IF n = 1 THEN [type |-> "none", more |-> TRUE] ELSE handed[no][n - 1]
        Piece(type, more) == [no |-> no, type |-> type, more |-> more, part |-> n]
    IN  {r \in {Piece("RPY", FALSE), Piece("RPY", TRUE), Piece("ANS", FALSE),
                Piece("NUL", FALSE)} :
            /\ last.type \in {"RPY", "none"} => r.type # "NUL"
            /\ last.type = "RPY" => r.type = "RPY"
            /\ last.type = "ANS" => r.type \in {"ANS", "NUL"}
            /\ ~Ends(r) => n < MaxParts
            /\ PatientParts /\ r.more => no = NextReplyNo}

\* __vortex_channel_common_rpy, from any thread that has the message
CommonRpy(r) ==
    /\ conn_ok
    /\ handed' = [handed EXCEPT ![r.no] = Append(@, r)]
    /\ IF NextReplyNo # r.no
       THEN StoreReply(r) /\ UNCHANGED <<incoming_msg, last_ansno_sent, back>>
       ELSE SendReply(r)
    /\ UNCHANGED <<setting, sendVars, signal, incoming_msg_frame_fragment, delivered,
                   wire, conn_ok, accused, seen>>

Answer(no) ==
    /\ no \in delivered /\ ~EndsAnswer(handed[no])
    /\ \E r \in NextPieces(no) : CommonRpy(r)

-----------------------------------------------------------------------------
(* Replies come back *)

\* The reader takes a reply: it must be to the oldest message, which is no
\* longer outstanding after its last piece.
RecvReply ==
    /\ conn_ok /\ ~signal /\ back # <<>>
    /\ back' = Tail(back)
    /\ LET r == Head(back).reply
       IN  IF outstanding_msg = <<>> \/ Head(outstanding_msg) # r.no
           THEN /\ conn_ok' = FALSE /\ accused' = TRUE
                /\ UNCHANGED <<outstanding_msg, signal, seen>>
           ELSE /\ seen' = [seen EXCEPT ![r.no] = Append(@, r)]
                /\ outstanding_msg' = IF Ends(r) THEN Tail(outstanding_msg)
                                      ELSE outstanding_msg
                /\ signal' = Ends(r)
                /\ UNCHANGED <<conn_ok, accused>>
    /\ UNCHANGED <<setting, next_proposed_msgno, last_fixed_more_msg_no, send_mutex,
                   sender, calls, answerVars, wire>>

\* Mutant: the list is reduced and nobody is told.
SignalNobody ==
    /\ signal /\ send_mutex = "free"
    /\ signal' = FALSE
    /\ UNCHANGED <<setting, sendVars, answerVars, wire, back, conn_ok, accused, seen>>

\* ... then it signals one thread that waits, holding the send mutex.
SignalReduced ==
    /\ signal /\ send_mutex = "free"
    /\ signal' = FALSE
    /\ LET waiters == {t \in Senders : sender[t].at = "waiting"}
       IN  IF waiters = {} THEN UNCHANGED sender
           ELSE \E t \in waiters : sender' = [sender EXCEPT ![t].at = "signalled"]
    /\ UNCHANGED <<setting, next_proposed_msgno, last_fixed_more_msg_no, outstanding_msg,
                   send_mutex, calls, answerVars, wire, back, conn_ok, accused, seen>>

-----------------------------------------------------------------------------

\* The connection breaks; threads inside a call go on.
BreakConnection ==
    /\ MayBreak /\ conn_ok /\ conn_ok' = FALSE
    /\ UNCHANGED <<setting, sendVars, signal, answerVars, wire, back, accused, seen>>

\* Nobody has anything to do.
Quiet ==
    /\ ~conn_ok \/ (calls = MaxCalls /\ outstanding_msg = <<>>)
    /\ UNCHANGED vars

Init ==
    /\ setting \in Settings
    /\ next_proposed_msgno = -1 /\ last_fixed_more_msg_no = -1 /\ outstanding_msg = <<>>
    /\ send_mutex = "free" /\ sender = [t \in Senders |-> Idle] /\ calls = 0
    /\ signal = FALSE
    /\ incoming_msg = <<>> /\ incoming_msg_frame_fragment = -1 /\ delivered = {}
    /\ stored_replies = [no \in Numbers |-> <<>>] /\ last_ansno_sent = 0
    /\ wire = <<>> /\ back = <<>> /\ conn_ok = TRUE /\ accused = FALSE
    /\ handed = [no \in Numbers |-> <<>>] /\ seen = [no \in Numbers |-> <<>>]

Proceed(t) == CheckLimit(t) \/ WaitReduced(t) \/ QueueMsg(t)

Next ==
    \/ \E t \in Senders : Proceed(t) \/ Resume(t) \/ \E more \in BOOLEAN : Call(t, more)
    \/ RecvMsg \/ RecvReply \/ SignalReduced
    \/ \E no \in Numbers : Answer(no)
    \/ BreakConnection \/ Quiet

\* Threads run and get the mutex they wait for.  Applications end what they
\* begin: an open message gets its last part, each message its answer.
CloseMessage == last_fixed_more_msg_no >= 0 /\ \E t \in Senders : Call(t, FALSE)

Fairness ==
    /\ WF_vars(\E t \in Senders : Proceed(t)) /\ \A t \in Senders : SF_vars(Resume(t))
    /\ WF_vars(RecvMsg) /\ WF_vars(RecvReply) /\ SF_vars(SignalReduced)
    /\ WF_vars(\E no \in Numbers : Answer(no))
    /\ SF_vars(CloseMessage)

Spec == Init /\ [][Next]_vars /\ Fairness

-----------------------------------------------------------------------------
(* Properties *)

\* Every variable has the shape of the C field or local it stands for.
TypeOK ==
    /\ setting \in [limit : Nat, fail : BOOLEAN, more : BOOLEAN]
    /\ next_proposed_msgno \in -1 .. MaxCalls - 1
    /\ last_fixed_more_msg_no \in -1 .. MaxCalls - 1
    /\ outstanding_msg \in Seq(Numbers) /\ send_mutex \in {"free", "sender"}
    /\ sender \in [Senders -> [at : {"idle", "limit", "full", "waiting", "signalled", "queue"},
                               more : BOOLEAN, no : -1 .. MaxCalls - 1]]
    /\ calls \in 0 .. MaxCalls /\ signal \in BOOLEAN
    /\ incoming_msg \in Seq(Numbers) /\ incoming_msg_frame_fragment \in -1 .. MaxCalls - 1
    /\ delivered \subseteq Numbers /\ stored_replies \in [Numbers -> Seq(Reply)]
    /\ last_ansno_sent \in Nat
    /\ wire \in Seq([no : Numbers, more : BOOLEAN])
    /\ back \in Seq([reply : Reply, ansno : Nat])
    /\ conn_ok \in BOOLEAN /\ accused \in BOOLEAN
    /\ handed \in [Numbers -> Seq(Reply)] /\ seen \in [Numbers -> Seq(Reply)]

\* Two Vortex peers never accuse each other over a message or reply number:
\* neither vortex_channel_check_msg_no nor the expected reply number of
\* __vortex_reader_process_socket ever closes the connection, whatever the
\* order the application answers in.
NoAccusation == ~accused

\* The limit of vortex_channel_set_outstanding_limit holds although the list is
\* looked at, reduced and waited on by different threads.
WithinLimit == setting.limit > 0 => Len(outstanding_msg) <= setting.limit

\* The ANS replies of a message are numbered from 0 in the order they were
\* handed over, stored before or not (last_ansno_sent).
AnsNumbered ==
    \A i \in 1 .. Len(back) :
        back[i].reply.type = "ANS" => back[i].ansno = back[i].reply.part - 1

\* A send operation that is blocked by the limit returns "until some reply is
\* answered" (vortex_channel_set_outstanding_limit), unless the connection breaks.
CallReturns ==
    \A t \in Senders : sender[t].at = "full" ~> (sender[t].at = "idle" \/ ~conn_ok)

Exchange == INSTANCE OrderedReplies WITH asked <- outstanding_msg, Last <- Ends

\* The channel is an ordered exchange of messages and answers.
ImplementsExchange == Exchange!Exchange
=============================================================================
