---------------------------- MODULE AprsisUplink ----------------------------
(***************************************************************************)
(* The connection to one APRS-IS server: the dispatcher of frames to send  *)
(* (services/aprsis_tx_dispatcher.py), the client that keeps the           *)
(* connection (AprsisClientService in services/aprsis.py) and the          *)
(* dispatcher of the side effects of received lines                        *)
(* (services/rx_side_effect_dispatcher.py).                                *)
(*                                                                         *)
(* The sender, the client's loop, the reader of each connection and stop() *)
(* are tasks of one event loop that take turns under _connection_lock.     *)
(* Between two awaits a task is not interrupted: that is one action.  A    *)
(* reader is named by its connection.                                      *)
(***************************************************************************)
EXTENDS Integers, Sequences, SequencesExt

CONSTANTS
    Connections,         \* connections; one is free when a new one is opened
    NoConnection,        \* stands for no connection
    QueueMax,            \* APRSIS_TX_QUEUE_MAX_FRAMES
    RxQueueMax,          \* RX_SIDE_EFFECT_QUEUE_MAX_FRAMES
    MaxNotifyFailures    \* bound: exceptions from on_result

ASSUME UplinkAssumption ==
    /\ QueueMax \in Nat \ {0} /\ RxQueueMax \in Nat \ {0}
    /\ MaxNotifyFailures \in Nat
    /\ NoConnection \notin Connections
    /\ {"sender", "run", "stop"} \cap (Connections \cup {NoConnection}) = {}

VARIABLES
    service,       \* on, stopping (waits for the lock), draining (side effects) or off
    enabled,       \* the interface is enabled in the database
    config,        \* its configuration there
    polled,        \* the configuration that _run has read
    used,          \* _connected_config
    lock,          \* _connection_lock: its holder and those who wait for it, in order
    conn,          \* the connection of _writer and _reader_task
    reader,        \* reader[c]: none, reading or leaving (wants to disconnect)
    run,           \* where the loop of the client is
    backoff,       \* is it earlier than _retry_not_before?
    queue,         \* number of frames in the TX queue
    sender,        \* where the TX worker is with its frame, or has been stopped with it
    crossed,       \* history: the call of send_tnc2_line had no connection, or has lost it
    notifyFailures,
    rxQueue,       \* number of received lines in the side-effect queue
    rxBusy         \* is one of them processed?

settings == <<enabled, config>>
client == <<polled, used, conn, reader, run, backoff>>
tx == <<queue, sender, crossed, notifyFailures>>
rx == <<rxQueue, rxBusy>>
vars == <<service, settings, lock, client, tx, rx>>

Configs == {"old", "new"}

Tasks == {"sender", "run", "stop"} \cup Connections

Holds(t) == lock # <<>> /\ Head(lock) = t

\* _disconnect_locked, by the holder t of the lock: the reader is cancelled and awaited
\* unless it is t.  Variant: the reader is forgotten.
DisconnectOnly(t) ==
    /\ Holds(t)
    /\ lock' = Tail(lock)
    /\ conn' = NoConnection
    /\ reader' = [c \in Connections |-> IF c = t THEN "none" ELSE reader[c]]
    /\ crossed' = (crossed \/ (conn # NoConnection /\ sender = "waiting"))

\* Variant: the reader is awaited and not cancelled.
DisconnectAwaiting(t) ==
    /\ Holds(t)
    /\ t # conn /\ conn # NoConnection => reader[conn] = "none"
    /\ lock' = Tail(lock)
    /\ conn' = NoConnection
    /\ reader' = [c \in Connections |-> IF c = conn THEN "none" ELSE reader[c]]
    /\ crossed' = (crossed \/ (conn # NoConnection /\ sender = "waiting"))

Disconnect(t) ==
    /\ Holds(t)
    /\ lock' = RemoveFirst(Tail(lock), conn)
    /\ conn' = NoConnection
    /\ reader' = [c \in Connections |-> IF c \in {conn, t} THEN "none" ELSE reader[c]]
    /\ crossed' = (crossed \/ (conn # NoConnection /\ sender = "waiting"))

-----------------------------------------------------------------------------
(* The TX dispatcher and send_tnc2_line.                                   *)

\* A frame that finds the queue full is dropped.
EnqueueTx ==
    /\ service = "on"
    /\ queue < QueueMax
    /\ queue' = queue + 1
    /\ UNCHANGED <<service, settings, lock, client, sender, crossed, notifyFailures, rx>>

\* A fresh frame: its age is looked at first.
BeginSend ==
    /\ service = "on"
    /\ sender = "idle" /\ queue > 0
    /\ queue' = queue - 1
    /\ sender' = "waiting"
    /\ lock' = Append(lock, "sender")
    /\ crossed' = (conn = NoConnection /\ run # "installing")
    /\ UNCHANGED <<service, settings, client, notifyFailures, rx>>

DropStale ==
    /\ service = "on"
    /\ sender = "idle" /\ queue > 0
    /\ queue' = queue - 1
    /\ sender' = "notify"
    /\ UNCHANGED <<service, settings, lock, client, crossed, notifyFailures, rx>>

WriteLine ==
    /\ sender = "waiting" /\ Holds("sender")
    /\ conn # NoConnection
    /\ sender' = "draining"
    /\ UNCHANGED <<service, settings, lock, client, queue, crossed, notifyFailures, rx>>

\* Variant: the lock is kept.
DropLineLocked ==
    /\ sender = "waiting" /\ Holds("sender")
    /\ sender' = "notify"
    /\ UNCHANGED <<service, settings, lock, client, queue, crossed, notifyFailures, rx>>

\* Variant: the frame waits for a connection.
DropLineLater ==
    /\ sender = "waiting" /\ Holds("sender")
    /\ conn = NoConnection
    /\ lock' = Append(Tail(lock), "sender")
    /\ UNCHANGED <<service, settings, client, tx, rx>>

\* No connection, or one that is closing.
DropLine ==
    /\ sender = "waiting" /\ Holds("sender")
    /\ sender' = "notify"
    /\ lock' = Tail(lock)
    /\ UNCHANGED <<service, settings, client, queue, crossed, notifyFailures, rx>>

DrainReturns ==
    /\ sender = "draining"
    /\ sender' = "notify"
    /\ lock' = Tail(lock)
    /\ UNCHANGED <<service, settings, client, queue, crossed, notifyFailures, rx>>

\* An error or the timeout of drain().
DrainFails ==
    /\ sender = "draining"
    /\ Disconnect("sender")
    /\ sender' = "notify"
    /\ backoff' = TRUE
    /\ UNCHANGED <<service, settings, polled, used, run, queue, notifyFailures, rx>>

\* on_result, once more if it raises; the second exception ends the worker.
Report ==
    /\ sender \in {"notify", "again"}
    /\ sender' = "idle"
    /\ crossed' = FALSE
    /\ UNCHANGED <<service, settings, lock, client, queue, notifyFailures, rx>>

ReportRaises ==
    /\ sender \in {"notify", "again"}
    /\ notifyFailures < MaxNotifyFailures
    /\ notifyFailures' = notifyFailures + 1
    /\ sender' = IF sender = "notify" THEN "again" ELSE "dead"
    /\ UNCHANGED <<service, settings, lock, client, queue, crossed, rx>>

-----------------------------------------------------------------------------
(* The loop of the client: _run and _connect.                              *)

RunGoes(from, to) == run = from /\ run' = to
RunUnchanged == UNCHANGED <<service, settings, tx, rx>>

Poll ==
    /\ service = "on"
    /\ run = "sleeping"
    /\ run' = IF enabled THEN "checking" ELSE "leaving"
    /\ polled' = config
    /\ lock' = Append(lock, "run")
    /\ UNCHANGED <<used, conn, reader, backoff>> /\ RunUnchanged

\* _connection_needs_reconnect.  Variant: the configuration is not compared.
NeedsReconnectIfDone == conn # NoConnection /\ reader[conn] = "none"

NeedsReconnect == conn # NoConnection /\ (reader[conn] = "none" \/ used # polled)

Check ==
    /\ run = "checking" /\ Holds("run")
    /\ run' = IF NeedsReconnect THEN "dropping" ELSE "looking"
    /\ lock' = Append(Tail(lock), "run")
    /\ UNCHANGED <<polled, used, conn, reader, backoff>> /\ RunUnchanged

Leave ==
    /\ RunGoes("leaving", "sleeping")
    /\ Disconnect("run")
    /\ UNCHANGED <<service, settings, polled, used, backoff, queue, sender, notifyFailures, rx>>

\* _run asks for the lock again at once.
DropOld ==
    /\ RunGoes("dropping", "relooking")
    /\ Disconnect("run")
    /\ UNCHANGED <<service, settings, polled, used, backoff, queue, sender, notifyFailures, rx>>

LookAgain ==
    /\ RunGoes("relooking", "looking")
    /\ lock' = Append(lock, "run")
    /\ UNCHANGED <<polled, used, conn, reader, backoff>> /\ RunUnchanged

Look ==
    /\ run = "looking" /\ Holds("run")
    /\ run' = IF conn = NoConnection /\ ~backoff THEN "opening" ELSE "sleeping"
    /\ lock' = Tail(lock)
    /\ UNCHANGED <<polled, used, conn, reader, backoff>> /\ RunUnchanged

\* No connection, or the login cannot be written.
OpenFails ==
    /\ RunGoes("opening", "sleeping")
    /\ backoff' = TRUE
    /\ UNCHANGED <<lock, polled, used, conn, reader>> /\ RunUnchanged

OpenReturns ==
    /\ RunGoes("opening", "installing")
    /\ lock' = Append(lock, "run")
    /\ UNCHANGED <<polled, used, conn, reader, backoff>> /\ RunUnchanged

Install(c) ==
    /\ RunGoes("installing", "sleeping")
    /\ Holds("run")
    /\ lock' = Tail(lock)
    /\ reader[c] = "none"
    /\ conn' = c
    /\ reader' = [reader EXCEPT ![c] = "reading"]
    /\ used' = polled
    /\ backoff' = FALSE
    /\ UNCHANGED polled /\ RunUnchanged

BackoffEnds ==
    /\ backoff
    /\ backoff' = FALSE
    /\ UNCHANGED <<lock, polled, used, conn, reader, run>> /\ RunUnchanged

-----------------------------------------------------------------------------
(* _reader_loop, and the dispatcher of side effects.                       *)

\* A full queue drops the line.
ReceiveLine(c) ==
    /\ service \in {"on", "stopping"}
    /\ reader[c] = "reading"
    /\ rxQueue < RxQueueMax
    /\ rxQueue' = rxQueue + 1
    /\ UNCHANGED <<service, settings, lock, client, tx, rxBusy>>

ReadFails(c) ==
    /\ reader[c] = "reading"
    /\ reader' = [reader EXCEPT ![c] = "leaving"]
    /\ lock' = Append(lock, c)
    /\ UNCHANGED <<polled, used, conn, run, backoff>> /\ RunUnchanged

\* stop() has set its event, or an unexpected exception.
ReaderEnds(c) ==
    /\ reader[c] = "reading"
    /\ reader' = [reader EXCEPT ![c] = "none"]
    /\ UNCHANGED <<lock, polled, used, conn, run, backoff>> /\ RunUnchanged

ReaderDisconnects(c) ==
    /\ reader[c] = "leaving"
    /\ Disconnect(c)
    /\ backoff' = TRUE
    /\ UNCHANGED <<service, settings, polled, used, run, queue, sender, notifyFailures, rx>>

BeginProcessing ==
    /\ rxQueue > 0 /\ ~rxBusy
    /\ rxQueue' = rxQueue - 1
    /\ rxBusy' = TRUE
    /\ UNCHANGED <<service, settings, lock, client, tx>>

EndProcessing ==
    /\ rxBusy
    /\ rxBusy' = FALSE
    /\ UNCHANGED <<service, settings, lock, client, tx, rxQueue>>

-----------------------------------------------------------------------------
(* The manager stops the pair when the interface is disabled or the core   *)
(* stops: AprsIsTxDispatcher.stop, then AprsisClientService.stop.  A worker*)
(* that on_result has ended makes the first of them raise; that is left    *)
(* out.                                                                    *)

\* The worker is cancelled wherever it is with its frame, in on_result too: nobody
\* hears what became of that frame, nor of those in the queue.
BeginStop ==
    /\ service = "on" /\ sender # "dead"
    /\ service' = "stopping"
    /\ queue' = 0 /\ crossed' = FALSE
    /\ sender' = IF sender = "idle" THEN "idle" ELSE "cancelled"
    /\ lock' = Append(RemoveFirst(lock, "sender"), "stop")
    /\ UNCHANGED <<settings, client, notifyFailures, rx>>

\* After the disconnect, stop() cancels _run without giving control back.
\* Variant: _run is left to see the event by itself.
StopLeavingRun ==
    /\ service = "stopping"
    /\ Disconnect("stop")
    /\ service' = "draining"
    /\ UNCHANGED <<settings, polled, used, backoff, run, queue, sender, notifyFailures, rx>>

StopDisconnects ==
    /\ service = "stopping"
    /\ Holds("stop")
    /\ service' = "draining"
    /\ lock' = <<>>
    /\ conn' = NoConnection
    /\ reader' = [c \in Connections |-> IF c = conn THEN "none" ELSE reader[c]]
    /\ run' = "sleeping"
    /\ UNCHANGED <<settings, polled, used, backoff, tx, rx>>

\* RxSideEffectDispatcher.stop: join.
EndStop ==
    /\ service = "draining"
    /\ rxQueue = 0 /\ ~rxBusy
    /\ service' = "off"
    /\ UNCHANGED <<settings, lock, client, tx, rx>>

\* New objects.
StartService ==
    /\ service = "off"
    /\ service' = "on"
    /\ backoff' = FALSE /\ sender' = "idle"
    /\ UNCHANGED <<settings, lock, polled, used, conn, reader, run, queue, crossed, notifyFailures, rx>>

\* The interface is edited.
Edit ==
    /\ enabled' \in BOOLEAN /\ config' \in Configs
    /\ settings' # settings
    /\ UNCHANGED <<service, lock, client, tx, rx>>

Init ==
    /\ service = "off"
    /\ enabled \in BOOLEAN /\ config = "old"
    /\ polled = "old" /\ used = "old"
    /\ lock = <<>>
    /\ conn = NoConnection
    /\ reader = [c \in Connections |-> "none"]
    /\ run = "sleeping" /\ backoff = FALSE
    /\ queue = 0 /\ sender = "idle" /\ crossed = FALSE /\ notifyFailures = 0
    /\ rxQueue = 0 /\ rxBusy = FALSE

SenderStep ==
    BeginSend \/ DropStale \/ WriteLine \/ DropLine \/ DrainReturns \/ DrainFails \/ Report \/ ReportRaises

RunStep ==
    \/ Poll \/ Check \/ Leave \/ DropOld \/ LookAgain \/ Look \/ OpenFails \/ OpenReturns
    \/ \E c \in Connections : Install(c)

ReaderStep(c) == ReceiveLine(c) \/ ReadFails(c) \/ ReaderEnds(c) \/ ReaderDisconnects(c)

StopStep == BeginStop \/ StopDisconnects \/ EndStop \/ StartService

Next ==
    \/ EnqueueTx \/ SenderStep
    \/ RunStep \/ BackoffEnds
    \/ \E c \in Connections : ReaderStep(c)
    \/ BeginProcessing \/ EndProcessing
    \/ StopStep
    \/ Edit

Spec == Init /\ [][Next]_vars

\* The event loop runs its tasks, drain() and open_connection have timeouts, time passes,
\* and a processor of received lines returns.  Nothing is assumed of the server, of the
\* frames to send or of the operator.
FairSpec ==
    /\ Spec
    /\ WF_vars(SenderStep)
    /\ WF_vars(RunStep)
    /\ WF_vars(BackoffEnds)
    /\ \A c \in Connections : WF_vars(ReaderDisconnects(c))
    /\ WF_vars(BeginProcessing \/ EndProcessing)
    /\ WF_vars(StopDisconnects \/ EndStop)

-----------------------------------------------------------------------------
\* The lock is held and waited for by each task once, and by those that want it.
TypeOK ==
    /\ service \in {"on", "stopping", "draining", "off"}
    /\ enabled \in BOOLEAN /\ {config, polled, used} \subseteq Configs
    /\ lock \in Seq(Tasks) /\ \A i, j \in DOMAIN lock : lock[i] = lock[j] => i = j
    /\ conn \in Connections \cup {NoConnection}
    /\ reader \in [Connections -> {"none", "reading", "leaving"}]
    /\ run \in {"sleeping", "checking", "leaving", "dropping", "relooking", "looking", "opening",
                "installing"}
    /\ sender \in {"idle", "waiting", "draining", "notify", "again", "dead", "cancelled"}
    /\ sender = "draining" => Holds("sender") /\ conn # NoConnection
    /\ {backoff, crossed, rxBusy} \subseteq BOOLEAN
    /\ queue \in 0 .. QueueMax /\ rxQueue \in 0 .. RxQueueMax
    /\ notifyFailures \in 0 .. MaxNotifyFailures

\* A reader never outlives its connection, so none can end a newer one.
OneReader == \A c \in Connections : reader[c] # "none" => c = conn

\* A frame that was handed to the client without a connection, or before one ended, is
\* not written to the next one.
NoReplay == sender = "draining" => ~crossed

\* After stop(), whatever was under way, there is no connection, nobody who would
\* open one, and no received line is left unprocessed.
StopLeavesNothing ==
    service = "off" => /\ conn = NoConnection /\ run = "sleeping" /\ lock = <<>>
                       /\ \A c \in Connections : reader[c] = "none"
                       /\ rxQueue = 0 /\ ~rxBusy

\* The worker does not keep a frame for ever, with the lock and a dying connection in its
\* way: it is answered, unless stop() cancels the worker with the frame in hand, or
\* on_result itself fails twice.
Answered ==
    sender \in {"waiting", "draining", "notify", "again"} ~> sender \in {"idle", "dead", "cancelled"}

\* While the interface is enabled, the client reads from a connection or tries to open
\* one, again and again.
Reconnects ==
    <>[](service = "on" /\ enabled) =>
      []<>(run = "opening" \/ \E c \in Connections : reader[c] = "reading")

\* A connection does not go on with a configuration that has been changed, nor when
\* the interface has been disabled.
FollowsSettings ==
    /\ \A v \in Configs :
         <>[](service = "on" /\ enabled /\ config = v) => <>[](conn # NoConnection => used = v)
    /\ <>[](service = "on" /\ ~enabled) => <>[](conn = NoConnection)

\* stop() ends.
StopEnds == service = "stopping" ~> service = "off"
=============================================================================
