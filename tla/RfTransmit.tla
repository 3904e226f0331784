----------------------------- MODULE RfTransmit -----------------------------
(***************************************************************************)
(* The last step to a TNC: two senders, the outbound worker                *)
(* (services/outbound_runtime.py) and the dispatcher of routed frames      *)
(* (services/rf_tx_dispatcher.py), share the link that the traffic monitor *)
(* (services/traffic.py) keeps to it, under a lock; a sender that fails    *)
(* there takes a connection of its own.                                    *)
(*                                                                         *)
(* One TNC: the dispatcher has a queue and a task for each.  Whether a     *)
(* frame is too old, or its interface disabled, is a choice, and so is     *)
(* whether an operation on a connection succeeds.  The module gives the    *)
(* actions; Station composes them with the jobs of the worker.             *)
(***************************************************************************)
EXTENDS Integers, Sequences, SequencesExt

CONSTANT RfQueueMax    \* RF_TX_QUEUE_MAX_FRAMES

ASSUME RfAssumption == RfQueueMax \in Nat \ {0}

VARIABLES
    rfQueue,       \* number of frames in the dispatcher's queue
    pc,            \* pc[s]: where sender s is
    lock,          \* _tnc_write_lock: its holder and those who wait for it, in order
    link,          \* the monitor's connection: down, up, or lost and not yet given up
    tncWriter,     \* is _tnc_writer set?
    written        \* history: written[s]: has the frame of s gone out?

rf == <<rfQueue, pc, lock, link, tncWriter, written>>

Senders == {"digi", "outbound"}

Goto(s, to) == pc' = [pc EXCEPT ![s] = to]
Move(s, from, to) == pc[s] = from /\ Goto(s, to)
Writes(s, outcome) == written' = [written EXCEPT ![s] = outcome]
Holds(s) == lock # <<>> /\ Head(lock) = s
Release == lock' = Tail(lock)

\* A frame waits in drain(); it is cut if the link has been given up meanwhile.
Drains(s) == pc[s] \in {"draining", "cut"}

-----------------------------------------------------------------------------
(* The dispatcher's queue; a frame that finds it full is lost.             *)

EnqueueDigiTx ==
    /\ rfQueue < RfQueueMax
    /\ rfQueue' = rfQueue + 1
    /\ UNCHANGED <<pc, lock, link, tncWriter, written>>

NextFrame ==
    /\ rfQueue > 0
    /\ Move("digi", "idle", "gap")
    /\ rfQueue' = rfQueue - 1
    /\ UNCHANGED <<lock, link, tncWriter, written>>

\* The worker has claimed a job.
BeginJob ==
    /\ Move("outbound", "idle", "gap")
    /\ UNCHANGED <<rfQueue, lock, link, tncWriter, written>>

\* The frame is too old, its content no longer active, its interface disabled or its TX
\* blocked; a job of the worker may be paced.
GiveUp(s) ==
    /\ Move(s, "gap", "idle")
    /\ UNCHANGED <<rfQueue, lock, link, tncWriter, written>>

-----------------------------------------------------------------------------
(* send_outbound_frame and _forward_client_chunk_to_tnc.                   *)

\* The gap since the last frame of this sender is over.
RequestLink(s) ==
    /\ Move(s, "gap", "waiting")
    /\ lock' = Append(lock, s)
    /\ UNCHANGED <<rfQueue, link, tncWriter, written>>

\* The monitor runs for no interface or another one.
NoRuntime(s) ==
    /\ Move(s, "gap", "fallback")
    /\ UNCHANGED <<rfQueue, lock, link, tncWriter, written>>

WriteToTnc(s) ==
    /\ Holds(s) /\ tncWriter
    /\ Move(s, "waiting", "draining")
    /\ Writes(s, "perhaps")
    /\ UNCHANGED <<rfQueue, lock, link, tncWriter>>

NoLink(s) ==
    /\ Holds(s) /\ ~tncWriter
    /\ Move(s, "waiting", "fallback")
    /\ Release
    /\ UNCHANGED <<rfQueue, link, tncWriter, written>>

DrainReturns(s) ==
    /\ Drains(s) /\ Goto(s, "sent")
    /\ Release
    /\ Writes(s, "yes")
    /\ UNCHANGED <<rfQueue, link, tncWriter>>

\* An OSError: the lock is released, and taken again for _recover_from_tx_error.
\* Variant: the error is handled with the lock held.
DrainFailsInside(s) ==
    /\ Drains(s) /\ Goto(s, "recovering")
    /\ lock' = Append(lock, s)
    /\ link' = IF pc[s] = "cut" THEN link ELSE "lost"
    /\ UNCHANGED <<rfQueue, tncWriter, written>>

DrainFails(s) ==
    /\ Drains(s) /\ Goto(s, "recovering")
    /\ lock' = Append(Tail(lock), s)
    /\ link' = IF pc[s] = "cut" THEN link ELSE "lost"
    /\ UNCHANGED <<rfQueue, tncWriter, written>>

\* Variant: recovery does not wait for the lock.
RecoverUnlocked(s) ==
    /\ Move(s, "recovering", "fallback")
    /\ lock' = RemoveFirst(lock, s)
    /\ tncWriter' = FALSE
    /\ link' = IF tncWriter /\ link = "up" THEN "lost" ELSE link
    /\ UNCHANGED <<rfQueue, written>>

\* Variant: the frame counts as sent after the recovery.
RecoverAsSent(s) ==
    /\ Holds(s)
    /\ Move(s, "recovering", "sent")
    /\ Release
    /\ tncWriter' = FALSE
    /\ link' = IF tncWriter /\ link = "up" THEN "lost" ELSE link
    /\ UNCHANGED <<rfQueue, written>>

Recover(s) ==
    /\ Holds(s)
    /\ Move(s, "recovering", "fallback")
    /\ Release
    /\ tncWriter' = FALSE
    /\ link' = IF tncWriter /\ link = "up" THEN "lost" ELSE link
    /\ UNCHANGED <<rfQueue, written>>

-----------------------------------------------------------------------------
(* The fallback: a TCP connection of the sender's own; none for a serial   *)
(* TNC.                                                                    *)

FallbackSends(s) ==
    /\ Move(s, "fallback", "sent")
    /\ Writes(s, "yes")
    /\ UNCHANGED <<rfQueue, lock, link, tncWriter>>

FallbackFails(s) ==
    /\ Move(s, "fallback", "failed")
    /\ UNCHANGED <<rfQueue, lock, link, tncWriter, written>>

\* The outcome is stored or logged.
EndTransmission(s) ==
    /\ pc[s] \in {"sent", "failed"}
    /\ Goto(s, "idle")
    /\ Writes(s, "no")
    /\ UNCHANGED <<rfQueue, lock, link, tncWriter>>

Transmit(s) ==
    \/ RequestLink(s) \/ NoRuntime(s) \/ WriteToTnc(s) \/ NoLink(s)
    \/ DrainReturns(s) \/ DrainFails(s) \/ Recover(s)
    \/ FallbackSends(s) \/ FallbackFails(s)

-----------------------------------------------------------------------------
(* _run_kiss_tcp_endpoint and _consume_connection.                         *)

Connect ==
    /\ link = "down"
    /\ link' = "up" /\ tncWriter' = TRUE
    /\ UNCHANGED <<rfQueue, pc, lock, written>>

LinkBreaks ==
    /\ link = "up"
    /\ link' = "lost"
    /\ UNCHANGED <<rfQueue, pc, lock, tncWriter, written>>

\* After the delay, the loop gives its writer up and closes it.
GiveLinkUp ==
    /\ link = "lost"
    /\ link' = "down" /\ tncWriter' = FALSE
    /\ pc' = [s \in Senders |-> IF pc[s] = "draining" THEN "cut" ELSE pc[s]]
    /\ UNCHANGED <<rfQueue, lock, written>>

-----------------------------------------------------------------------------
\* Cancelling the worker's task releases the lock; its link stays as it is.
CancelOutbound ==
    /\ Goto("outbound", "idle")
    /\ lock' = RemoveFirst(lock, "outbound")
    /\ Writes("outbound", "no")
    /\ UNCHANGED <<rfQueue, link, tncWriter>>

\* The process ends.
Down ==
    /\ rfQueue' = 0
    /\ pc' = [s \in Senders |-> "idle"]
    /\ lock' = <<>>
    /\ link' = "down" /\ tncWriter' = FALSE
    /\ written' = [s \in Senders |-> "no"]

RfInit ==
    /\ rfQueue = 0
    /\ pc = [s \in Senders |-> "idle"]
    /\ lock = <<>>
    /\ link = "down" /\ tncWriter = FALSE
    /\ written = [s \in Senders |-> "no"]

-----------------------------------------------------------------------------
RfTypeOK ==
    /\ rfQueue \in 0 .. RfQueueMax
    /\ pc \in [Senders -> {"idle", "gap", "waiting", "draining", "cut", "recovering",
                           "fallback", "sent", "failed"}]
    /\ lock \in Seq(Senders) /\ Len(lock) <= 2
    /\ link \in {"down", "up", "lost"} /\ tncWriter \in BOOLEAN
    /\ link = "up" => tncWriter
    /\ written \in [Senders -> {"no", "perhaps", "yes"}]

\* A frame is reported as sent when a connection has taken it, and as failed when
\* none has.
OutcomeTrue ==
    \A s \in Senders : /\ pc[s] = "sent" => written[s] = "yes"
                       /\ pc[s] = "failed" => written[s] # "yes"

\* A sender that has to recover never closes a live link on which the other sender
\* is writing.
CutsNoFrame ==
    [][\A s \in Senders : pc[s] = "draining" /\ tncWriter /\ ~tncWriter' =>
         link = "lost" \/ pc'[s] = "idle"]_rf
=============================================================================
