---------------------------- MODULE FrameWriter ----------------------------
(***************************************************************************)
(* vortex_frame_send_raw: frames written on the non-blocking socket of a   *)
(* connection.  Two threads of a context call it, each with its own frame: *)
(* the sequencer, and the reader when a frame it took makes it send a SEQ  *)
(* frame (vortex_sequencer_direct_send from                                *)
(* __vortex_reader_update_incoming_buffer_and_notify).  Nothing in the     *)
(* code makes one wait for the other: sends are the only synchronisation.  *)
(***************************************************************************)
EXTENDS Integers, Sequences

CONSTANTS
    Writers,        \* threads that write frames
    FrameOctets,    \* octets of a frame, enough to be written in several goes
    Tries,          \* conn_close_on_write_timeout, 3 by default
    MaxFrames       \* bound: frames of each thread

VARIABLES
    at,         \* where each thread is: out of the function, sending, waiting
    total,      \* octets of its frame already written
    tries,      \* what is left of them
    frames,     \* frames each thread has begun
    stream,     \* octets the socket took: <<thread, frame, octet>>
    conn_ok

vars == <<at, total, tries, frames, stream, conn_ok>>

\* The n octets of the frame of w that follow those already written.
Octets(w, n) == [i \in 1 .. n |-> [writer |-> w, frame |-> frames[w], octet |-> total[w] + i]]

Leave(w) == at' = [at EXCEPT ![w] = "out"]

\* The function is entered; it does nothing on a closed connection.
Begin(w) ==
    /\ at[w] = "out" /\ conn_ok /\ frames[w] < MaxFrames
    /\ at' = [at EXCEPT ![w] = "send"]
    /\ total' = [total EXCEPT ![w] = 0] /\ tries' = [tries EXCEPT ![w] = Tries]
    /\ frames' = [frames EXCEPT ![w] = @ + 1]
    /\ UNCHANGED <<stream, conn_ok>>

\* The socket takes some octets.  A short write costs a try and, at the last
\* one, the function returns.
Write(w) ==
    /\ at[w] = "send" /\ conn_ok
    /\ \E n \in 1 .. FrameOctets - total[w] :
         /\ stream' = stream \o Octets(w, n)
         /\ total' = [total EXCEPT ![w] = @ + n]
         /\ IF total[w] + n = FrameOctets
            THEN Leave(w) /\ UNCHANGED tries
            ELSE /\ tries' = [tries EXCEPT ![w] = @ - 1]
                 /\ at' = [at EXCEPT ![w] = IF tries[w] = 1 THEN "out" ELSE "wait"]
    /\ UNCHANGED <<frames, conn_ok>>

\* The socket buffer is full.
WouldBlock(w) ==
    /\ at[w] = "send" /\ conn_ok
    /\ at' = [at EXCEPT ![w] = "wait"]
    /\ UNCHANGED <<total, tries, frames, stream, conn_ok>>

\* The send fails, because the peer has gone or another thread shut the
\* connection down.
SendError(w) ==
    /\ at[w] = "send"
    /\ conn_ok' = FALSE /\ Leave(w)
    /\ UNCHANGED <<total, tries, frames, stream>>

\* The wait for the socket ends with the socket ready.
Writable(w) ==
    /\ at[w] = "wait"
    /\ at' = [at EXCEPT ![w] = "send"]
    /\ UNCHANGED <<total, tries, frames, stream, conn_ok>>

\* The wait for the socket ends by its timeout: a try less, and at the last one
\* the connection is shut down.
Timeout(w) ==
    /\ at[w] = "wait"
    /\ tries' = [tries EXCEPT ![w] = @ - 1]
    /\ IF tries[w] = 1 THEN conn_ok' = FALSE /\ Leave(w)
       ELSE at' = [at EXCEPT ![w] = "send"] /\ UNCHANGED conn_ok
    /\ UNCHANGED <<total, frames, stream>>

Init ==
    /\ at = [w \in Writers |-> "out"] /\ total = [w \in Writers |-> 0]
    /\ tries = [w \in Writers |-> Tries] /\ frames = [w \in Writers |-> 0]
    /\ stream = <<>> /\ conn_ok = TRUE

Next ==
    \E w \in Writers : \/ Begin(w) \/ Write(w) \/ WouldBlock(w) \/ SendError(w)
                       \/ Writable(w) \/ Timeout(w)

Spec == Init /\ [][Next]_vars

-----------------------------------------------------------------------------
(* Properties *)

\* The peer reads whole frames, one after the other.  The reader thread takes
\* its SEQ frame for a message that is queued: "Queue the vortex writer message
\* to be sent with higher priority"
\* (__vortex_reader_update_incoming_buffer_and_notify).
FramesWhole ==
    \A i \in 2 .. Len(stream) :
        IF stream[i].octet = 1
        THEN stream[i - 1].octet = FrameOctets
        ELSE stream[i - 1] = [stream[i] EXCEPT !.octet = @ - 1]

=============================================================================
