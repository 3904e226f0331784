------------------------- MODULE AprsisUplink_proofs -------------------------
(***************************************************************************)
(* Proofs about AprsisUplink for any number of connections and any sizes   *)
(* of the queues: TypeOK, OneReader, NoReplay and StopLeavesNothing.       *)
(***************************************************************************)
EXTENDS AprsisUplink, LockQueueLemmas

-----------------------------------------------------------------------------
(* The inductive invariant.                                                *)

\* A task is in the queue of the lock when it is at a place where the code waits for
\* the lock or holds it.
Places ==
    /\ "sender" \in Range(lock) <=> sender \in {"waiting", "draining"}
    /\ "run" \in Range(lock) <=>
         run \in {"checking", "leaving", "dropping", "looking", "installing"}
    /\ "stop" \in Range(lock) <=> service = "stopping"
    /\ \A c \in Connections : c \in Range(lock) <=> reader[c] = "leaving"

\* The loop opens a connection only while there is none, and nobody else does.
OpensOne == run \in {"opening", "installing"} => conn = NoConnection

\* A frame whose call has met no connection, or lost it, finds none when it gets the lock:
\* a connection that is about to be installed is installed later.
CrossedFindsNone ==
    sender = "waiting" /\ crossed =>
      conn = NoConnection /\ (run = "installing" => Ahead(lock, "sender", "run"))

\* What stop() has achieved so far.
StopSoFar ==
    /\ service # "on" => sender \in {"idle", "cancelled"} /\ queue = 0
    /\ service \in {"draining", "off"} =>
         /\ conn = NoConnection /\ run = "sleeping" /\ lock = <<>>
         /\ \A c \in Connections : reader[c] = "none"
    /\ service = "off" => rxQueue = 0 /\ ~rxBusy

IndInv ==
    TypeOK /\ Places /\ OneReader /\ OpensOne /\ NoReplay /\ CrossedFindsNone /\ StopSoFar

-----------------------------------------------------------------------------
(* The lock.                                                               *)

LEMMA LockTyping ==
    ASSUME IndInv
    PROVE  lock \in Seq(Tasks) /\ Once(lock)
BY DEF IndInv, TypeOK, Once

\* The tasks have names of their own.
LEMMA TaskNames ==
    /\ {"sender", "run", "stop"} \subseteq Tasks /\ Connections \subseteq Tasks
    /\ NoConnection \notin Tasks
    /\ \A c \in Connections : c \notin {"sender", "run", "stop"}
BY UplinkAssumption DEF Tasks

\* The holder is in the queue, before everyone else, and it is one task.
LEMMA Holder ==
    ASSUME IndInv, NEW t, Holds(t)
    PROVE  /\ t \in Tasks /\ t \in Range(lock)
           /\ \A u : Holds(u) => u = t
           /\ \A u \in Range(lock) : u # t => ~ Ahead(lock, u, t)
<1>1. lock # <<>> /\ Head(lock) = t
  BY DEF Holds
<1> QED BY <1>1, LockTyping, Releases, HolderIsFirst DEF Holds

\* A task that is not in the queue asks for the lock.
LEMMA Requests ==
    ASSUME IndInv, NEW t \in Tasks, t \notin Range(lock), lock' = Append(lock, t)
    PROVE  /\ lock' \in Seq(Tasks) /\ Once(lock')
           /\ Range(lock') = Range(lock) \cup {t}
           /\ \A u : Holds(u) => Holds(u)'
           /\ \A x, y : Ahead(lock, x, y) /\ t # x => Ahead(lock', x, y)
           /\ \A x : t # x => Ahead(lock', x, t)
BY LockTyping, Arrives DEF Holds

\* The holder releases the lock.
LEMMA ReleaseEffect ==
    ASSUME IndInv, NEW t, Holds(t), lock' = Tail(lock)
    PROVE  /\ lock' \in Seq(Tasks) /\ Once(lock')
           /\ Range(lock') = Range(lock) \ {t}
           /\ \A x, y : Ahead(lock, x, y) => Ahead(lock', x, y)
BY LockTyping, Releases DEF Holds

\* A disconnect leaves no reader, and nobody in the queue for the connection it ends.
LEMMA DisconnectEffect ==
    ASSUME IndInv, NEW t, Disconnect(t)
    PROVE  /\ t \in Tasks /\ Holds(t)
           /\ lock' \in Seq(Tasks) /\ Once(lock')
           /\ Range(lock') = Range(lock) \ {t, conn}
           /\ \A x, y : Ahead(lock, x, y) => Ahead(lock', x, y)
           /\ conn' = NoConnection
           /\ reader' = [c \in Connections |-> "none"]
           /\ crossed' = (crossed \/ (conn # NoConnection /\ sender = "waiting"))
<1>1. /\ Holds(t) /\ lock' = RemoveFirst(Tail(lock), conn) /\ conn' = NoConnection
      /\ reader' = [c \in Connections |-> IF c \in {conn, t} THEN "none" ELSE reader[c]]
      /\ crossed' = (crossed \/ (conn # NoConnection /\ sender = "waiting"))
  BY DEF Disconnect
<1>2. /\ Tail(lock) \in Seq(Tasks) /\ Once(Tail(lock))
      /\ Range(Tail(lock)) = Range(lock) \ {t}
      /\ \A x, y : Ahead(lock, x, y) => Ahead(Tail(lock), x, y)
  BY <1>1, LockTyping, Releases DEF Holds
<1>3. /\ lock' \in Seq(Tasks) /\ Once(lock')
      /\ Range(lock') = Range(Tail(lock)) \ {conn}
      /\ \A x, y : Ahead(Tail(lock), x, y) => Ahead(lock', x, y)
  BY <1>1, <1>2, Leaves
<1>4. \A c \in Connections : c # conn => reader[c] = "none"
  BY DEF IndInv, OneReader
<1>5. reader' = [c \in Connections |-> "none"]
  BY <1>1, <1>4
<1>6. t \in Tasks
  BY <1>1, Holder
<1> QED BY <1>1, <1>2, <1>3, <1>5, <1>6

-----------------------------------------------------------------------------
\* The service starts off, with nothing under way.
LEMMA InitEstablishes == Init => IndInv
<1> SUFFICES ASSUME Init PROVE IndInv
  OBVIOUS
<1>1. TypeOK
  <2>1. lock \in Seq(Tasks) /\ \A i, j \in DOMAIN lock : lock[i] = lock[j] => i = j
    BY EmptyQueue DEF Init, Once
  <2>2. queue \in 0 .. QueueMax /\ rxQueue \in 0 .. RxQueueMax
        /\ notifyFailures \in 0 .. MaxNotifyFailures
    BY UplinkAssumption DEF Init
  <2>3. {backoff, crossed, rxBusy} \subseteq BOOLEAN
    BY DEF Init
  <2> QED BY <2>1, <2>2, <2>3 DEF Init, TypeOK, Configs
<1>2. Places
  BY EmptyQueue DEF Init, Places
<1> QED BY <1>1, <1>2 DEF Init, IndInv, OneReader, OpensOne, NoReplay, CrossedFindsNone, StopSoFar

\* The steps of the sender.
LEMMA SenderPreserves == ASSUME IndInv, EnqueueTx \/ SenderStep PROVE IndInv'
<1> USE DEF vars, settings, client, tx, rx
<1> DEFINE Rest == (OneReader /\ OpensOne /\ NoReplay /\ CrossedFindsNone /\ StopSoFar)'
<1>1. CASE EnqueueTx
  <2>1. TypeOK'
    BY <1>1, UplinkAssumption DEF IndInv, EnqueueTx, TypeOK, Holds
  <2> QED BY <1>1, <2>1 DEF IndInv, EnqueueTx, Places, OneReader, OpensOne, NoReplay,
                              CrossedFindsNone, StopSoFar, Holds
<1>2. CASE BeginSend
  <2>1. "sender" \in Tasks /\ "sender" \notin Range(lock)
    BY <1>2, TaskNames DEF IndInv, BeginSend, Places
  <2>2. /\ lock' \in Seq(Tasks) /\ Once(lock')
        /\ Range(lock') = Range(lock) \cup {"sender"}
    BY <1>2, <2>1, Requests DEF BeginSend
  <2>3. TypeOK'
    <3>1. {backoff, crossed, rxBusy}' \subseteq BOOLEAN
      BY <1>2 DEF IndInv, BeginSend, TypeOK
    <3>2. queue' \in 0 .. QueueMax
      BY <1>2, UplinkAssumption DEF IndInv, BeginSend, TypeOK
    <3> QED BY <1>2, <2>2, <3>1, <3>2 DEF IndInv, BeginSend, TypeOK, Once
  <2>4. Places'
    BY <1>2, <2>2, TaskNames DEF IndInv, BeginSend, Places
  <2>5. Rest
    BY <1>2 DEF IndInv, BeginSend, OneReader, OpensOne, NoReplay, CrossedFindsNone, StopSoFar
  <2> QED BY <2>3, <2>4, <2>5 DEF IndInv
<1>3. CASE DropStale
  <2>1. TypeOK'
    <3>1. queue' \in 0 .. QueueMax
      BY <1>3, UplinkAssumption DEF IndInv, DropStale, TypeOK
    <3> QED BY <1>3, <3>1 DEF IndInv, DropStale, TypeOK, Holds
  <2> QED BY <1>3, <2>1 DEF IndInv, DropStale, Places, OneReader, OpensOne, NoReplay,
                              CrossedFindsNone, StopSoFar, Holds
<1>4. CASE WriteLine
  <2>1. TypeOK'
    BY <1>4 DEF IndInv, WriteLine, TypeOK, Holds
  <2> QED BY <1>4, <2>1 DEF IndInv, WriteLine, Places, OneReader, OpensOne, NoReplay,
                              CrossedFindsNone, StopSoFar, Holds
<1>5. CASE DropLine \/ DrainReturns
  <2>1. Holds("sender") /\ lock' = Tail(lock) /\ sender' = "notify"
    BY <1>5 DEF IndInv, TypeOK, DropLine, DrainReturns
  <2>2. lock' \in Seq(Tasks) /\ Once(lock') /\ Range(lock') = Range(lock) \ {"sender"}
    BY <2>1, ReleaseEffect
  <2>3. TypeOK'
    BY <1>5, <2>1, <2>2 DEF IndInv, DropLine, DrainReturns, TypeOK, Once
  <2>4. Places'
    BY <1>5, <2>1, <2>2, TaskNames DEF IndInv, DropLine, DrainReturns, Places
  <2>5. lock # <<>> /\ service = service'
    BY <1>5, <2>1 DEF DropLine, DrainReturns, Holds
  <2>6. Rest
    BY <1>5, <2>1, <2>5 DEF IndInv, DropLine, DrainReturns, OneReader, OpensOne, NoReplay,
                       CrossedFindsNone, StopSoFar
  <2> QED BY <2>3, <2>4, <2>6 DEF IndInv
<1>6. CASE DrainFails
  <2>1. Disconnect("sender") /\ sender' = "notify" /\ service' = service
    BY <1>6 DEF DrainFails
  <2>2. /\ lock' \in Seq(Tasks) /\ Once(lock') /\ Range(lock') = Range(lock) \ {"sender", conn}
        /\ conn' = NoConnection /\ reader' = [c \in Connections |-> "none"]
        /\ Holds("sender")
        /\ crossed' = (crossed \/ (conn # NoConnection /\ sender = "waiting"))
    BY <2>1, DisconnectEffect
  <2>3. TypeOK'
    <3>1. crossed' \in BOOLEAN /\ crossed \in BOOLEAN
      BY <2>2 DEF IndInv, TypeOK
    <3>2. {backoff, crossed, rxBusy}' \subseteq BOOLEAN
      BY <1>6, <3>1 DEF IndInv, DrainFails, TypeOK
    <3> QED BY <1>6, <2>1, <2>2, <3>2 DEF IndInv, DrainFails, TypeOK, Once
  <2>4. Places'
    BY <1>6, <2>1, <2>2, TaskNames DEF IndInv, DrainFails, Places, OneReader, TypeOK
  <2>5. lock # <<>>
    BY <2>2 DEF Holds
  <2>6. Rest
    BY <1>6, <2>1, <2>2, <2>5 DEF IndInv, DrainFails, OneReader, OpensOne, NoReplay,
                       CrossedFindsNone, StopSoFar
  <2> QED BY <2>3, <2>4, <2>6 DEF IndInv
<1>7. CASE Report \/ ReportRaises
  <2>1. TypeOK'
    <3>1. notifyFailures' \in 0 .. MaxNotifyFailures
      BY <1>7, UplinkAssumption DEF IndInv, Report, ReportRaises, TypeOK
    <3>2. {backoff, crossed, rxBusy}' \subseteq BOOLEAN
      BY <1>7 DEF IndInv, Report, ReportRaises, TypeOK
    <3> QED BY <1>7, <3>1, <3>2 DEF IndInv, Report, ReportRaises, TypeOK, Holds
  <2> QED BY <1>7, <2>1 DEF IndInv, Report, ReportRaises, Places, OneReader, OpensOne, NoReplay,
                              CrossedFindsNone, StopSoFar, Holds
<1> QED BY <1>1, <1>2, <1>3, <1>4, <1>5, <1>6, <1>7 DEF SenderStep

\* The steps of the client's loop, and the end of the backoff.
LEMMA RunPreserves == ASSUME IndInv, RunStep \/ BackoffEnds PROVE IndInv'
<1> USE DEF vars, settings, client, tx, rx, RunUnchanged, RunGoes
<1> DEFINE Rest == (OneReader /\ OpensOne /\ NoReplay /\ CrossedFindsNone /\ StopSoFar)'
<1>1. CASE Poll
  <2>1. "run" \in Tasks /\ "run" \notin Range(lock)
    BY <1>1, TaskNames DEF IndInv, Poll, Places
  <2>2. /\ lock' \in Seq(Tasks) /\ Once(lock')
        /\ Range(lock') = Range(lock) \cup {"run"}
        /\ Holds("sender") => Holds("sender")'
    BY <1>1, <2>1, Requests DEF Poll
  <2>3. TypeOK'
    BY <1>1, <2>2 DEF IndInv, Poll, TypeOK, Once
  <2>4. Places'
    BY <1>1, <2>2, TaskNames DEF IndInv, Poll, Places
  <2>5. Rest
    BY <1>1 DEF IndInv, Poll, OneReader, OpensOne, NoReplay, CrossedFindsNone, StopSoFar
  <2> QED BY <2>3, <2>4, <2>5 DEF IndInv
<1>2. CASE Check
  <2>1. Holds("run")
    BY <1>2 DEF Check
  <2>2. /\ Tail(lock) \in Seq(Tasks) /\ Once(Tail(lock))
        /\ Range(Tail(lock)) = Range(lock) \ {"run"}
        /\ lock # <<>> /\ "run" \in Range(lock) /\ "run" \in Tasks
        /\ \A x, y : Ahead(lock, x, y) => Ahead(Tail(lock), x, y)
    BY <2>1, LockTyping, Releases, Holder DEF Holds
  <2>3. /\ lock' \in Seq(Tasks) /\ Once(lock')
        /\ Range(lock') = Range(lock)
    <3> DEFINE rest == Tail(lock)
    <3>1. lock' = Append(rest, "run")
      BY <1>2 DEF Check
    <3> HIDE DEF rest
    <3>2. rest \in Seq(Tasks) /\ Once(rest) /\ Range(rest) = Range(lock) \ {"run"} /\ "run" \in Range(lock)
      BY <2>2 DEF rest
    <3>3. "run" \in Tasks /\ "run" \notin Range(rest)
      BY <2>2, <3>2
    <3>4. lock' \in Seq(Tasks) /\ Once(lock') /\ Range(lock') = Range(rest) \cup {"run"}
      BY <3>1, <3>2, <3>3, Arrives
    <3> QED BY <3>2, <3>4
  <2>4. sender # "draining"
    BY <2>1, Holder DEF IndInv, TypeOK
  <2>5. TypeOK'
    BY <1>2, <2>3, <2>4 DEF IndInv, Check, TypeOK, Once
  <2>6. Places'
    BY <1>2, <2>3 DEF IndInv, Check, Places
  <2>7. Rest
    BY <1>2, <2>2, <2>4 DEF IndInv, Check, OneReader, OpensOne, NoReplay, CrossedFindsNone, StopSoFar
  <2> QED BY <2>5, <2>6, <2>7 DEF IndInv
<1>3. CASE Leave \/ DropOld
  <2>1. Disconnect("run") /\ run \in {"leaving", "dropping"} /\ run' \in {"sleeping", "relooking"}
    BY <1>3 DEF Leave, DropOld
  <2>2. /\ lock' \in Seq(Tasks) /\ Once(lock') /\ Range(lock') = Range(lock) \ {"run", conn}
        /\ conn' = NoConnection /\ reader' = [c \in Connections |-> "none"]
        /\ Holds("run")
        /\ crossed' = (crossed \/ (conn # NoConnection /\ sender = "waiting"))
    BY <2>1, DisconnectEffect
  <2>3. sender # "draining" /\ lock # <<>>
    BY <2>2, Holder DEF IndInv, TypeOK, Holds
  <2>4. TypeOK'
    <3>1. crossed' \in BOOLEAN /\ crossed \in BOOLEAN
      BY <2>2 DEF IndInv, TypeOK
    <3>2. {backoff, crossed, rxBusy}' \subseteq BOOLEAN
      BY <1>3, <3>1 DEF IndInv, Leave, DropOld, TypeOK
    <3> QED BY <1>3, <2>1, <2>2, <2>3, <3>2 DEF IndInv, Leave, DropOld, TypeOK, Once
  <2>5. Places'
    BY <1>3, <2>1, <2>2, TaskNames DEF IndInv, Leave, DropOld, Places, OneReader, TypeOK
  <2>6. Rest
    BY <1>3, <2>1, <2>2, <2>3 DEF IndInv, Leave, DropOld, OneReader, OpensOne, NoReplay,
                                 CrossedFindsNone, StopSoFar
  <2> QED BY <2>4, <2>5, <2>6 DEF IndInv
<1>4. CASE LookAgain
  <2>1. "run" \in Tasks /\ "run" \notin Range(lock)
    BY <1>4, TaskNames DEF IndInv, LookAgain, Places
  <2>2. /\ lock' \in Seq(Tasks) /\ Once(lock')
        /\ Range(lock') = Range(lock) \cup {"run"}
        /\ Holds("sender") => Holds("sender")'
    BY <1>4, <2>1, Requests DEF LookAgain
  <2>3. TypeOK'
    BY <1>4, <2>2 DEF IndInv, LookAgain, TypeOK, Once
  <2>4. Places'
    BY <1>4, <2>2, TaskNames DEF IndInv, LookAgain, Places
  <2>5. Rest
    BY <1>4 DEF IndInv, LookAgain, OneReader, OpensOne, NoReplay, CrossedFindsNone, StopSoFar
  <2> QED BY <2>3, <2>4, <2>5 DEF IndInv
<1>5. CASE Look
  <2>1. Holds("run") /\ lock' = Tail(lock)
    BY <1>5 DEF Look
  <2>2. /\ lock' \in Seq(Tasks) /\ Once(lock') /\ Range(lock') = Range(lock) \ {"run"}
        /\ lock # <<>>
    BY <2>1, ReleaseEffect DEF Holds
  <2>3. sender # "draining"
    BY <2>1, Holder DEF IndInv, TypeOK
  <2>4. TypeOK'
    BY <1>5, <2>2, <2>3 DEF IndInv, Look, TypeOK, Once
  <2>5. Places'
    BY <1>5, <2>2, TaskNames DEF IndInv, Look, Places
  <2>6. Rest
    BY <1>5, <2>2, <2>3 DEF IndInv, Look, OneReader, OpensOne, NoReplay, CrossedFindsNone, StopSoFar
  <2> QED BY <2>4, <2>5, <2>6 DEF IndInv
<1>6. CASE OpenFails
  <2>1. TypeOK'
    BY <1>6 DEF IndInv, OpenFails, TypeOK, Holds
  <2> QED BY <1>6, <2>1 DEF IndInv, OpenFails, Places, OneReader, OpensOne, NoReplay,
                           CrossedFindsNone, StopSoFar
<1>7. CASE OpenReturns
  <2>1. "run" \in Tasks /\ "run" \notin Range(lock)
    BY <1>7, TaskNames DEF IndInv, OpenReturns, Places
  <2>2. /\ lock' \in Seq(Tasks) /\ Once(lock')
        /\ Range(lock') = Range(lock) \cup {"run"}
        /\ Holds("sender") => Holds("sender")'
        /\ Ahead(lock', "sender", "run")
    BY <1>7, <2>1, Requests DEF OpenReturns
  <2>3. TypeOK'
    BY <1>7, <2>2 DEF IndInv, OpenReturns, TypeOK, Once
  <2>4. Places'
    BY <1>7, <2>2, TaskNames DEF IndInv, OpenReturns, Places
  <2>5. Rest
    BY <1>7, <2>2 DEF IndInv, OpenReturns, OneReader, OpensOne, NoReplay, CrossedFindsNone, StopSoFar
  <2> QED BY <2>3, <2>4, <2>5 DEF IndInv
<1>8. ASSUME NEW c \in Connections, Install(c) PROVE IndInv'
  <2>1. Holds("run") /\ lock' = Tail(lock) /\ run = "installing" /\ conn' = c
    BY <1>8 DEF Install
  <2>2. /\ lock' \in Seq(Tasks) /\ Once(lock') /\ Range(lock') = Range(lock) \ {"run"}
        /\ lock # <<>>
    BY <2>1, ReleaseEffect DEF Holds
  <2>3. sender # "draining" /\ conn = NoConnection
    BY <2>1, Holder DEF IndInv, TypeOK, OpensOne
  <2>4. ~ (sender = "waiting" /\ crossed)
    BY <2>1, Holder DEF IndInv, CrossedFindsNone, Places
  <2>5. TypeOK'
    <3>1. {backoff, crossed, rxBusy}' \subseteq BOOLEAN
      BY <1>8 DEF IndInv, Install, TypeOK
    <3> QED BY <1>8, <2>2, <2>3, <3>1 DEF IndInv, Install, TypeOK, Once
  <2>6. Places'
    BY <1>8, <2>2, TaskNames DEF IndInv, Install, Places, TypeOK
  <2>7. OneReader'
    BY <1>8, <2>3, UplinkAssumption DEF IndInv, Install, OneReader, TypeOK
  <2>8. (OpensOne /\ NoReplay /\ CrossedFindsNone /\ StopSoFar)'
    BY <1>8, <2>2, <2>3, <2>4 DEF IndInv, Install, OpensOne, NoReplay, CrossedFindsNone, StopSoFar
  <2> QED BY <2>5, <2>6, <2>7, <2>8 DEF IndInv
<1>9. CASE BackoffEnds
  <2>1. TypeOK'
    BY <1>9 DEF IndInv, BackoffEnds, TypeOK, Holds
  <2> QED BY <1>9, <2>1 DEF IndInv, BackoffEnds, Places, OneReader, OpensOne, NoReplay,
                           CrossedFindsNone, StopSoFar
<1> QED BY <1>1, <1>2, <1>3, <1>4, <1>5, <1>6, <1>7, <1>8, <1>9 DEF RunStep

\* The steps of a reader.
LEMMA ReaderPreserves ==
    ASSUME IndInv, NEW c \in Connections, ReaderStep(c)
    PROVE  IndInv'
<1> USE DEF vars, settings, client, tx, rx, RunUnchanged
<1> DEFINE Rest == (OneReader /\ OpensOne /\ NoReplay /\ CrossedFindsNone /\ StopSoFar)'
<1>1. CASE ReceiveLine(c)
  <2>1. TypeOK'
    <3>1. rxQueue' \in 0 .. RxQueueMax
      BY <1>1, UplinkAssumption DEF IndInv, ReceiveLine, TypeOK
    <3> QED BY <1>1, <3>1 DEF IndInv, ReceiveLine, TypeOK, Holds
  <2> QED BY <1>1, <2>1 DEF IndInv, ReceiveLine, Places, OneReader, OpensOne, NoReplay,
                           CrossedFindsNone, StopSoFar
<1>2. CASE ReadFails(c)
  <2>1. c \in Tasks /\ c \notin Range(lock) /\ c \notin {"sender", "run", "stop"}
    BY <1>2, TaskNames DEF IndInv, ReadFails, Places
  <2>2. /\ lock' \in Seq(Tasks) /\ Once(lock')
        /\ Range(lock') = Range(lock) \cup {c}
        /\ Holds("sender") => Holds("sender")'
        /\ Ahead(lock, "sender", "run") => Ahead(lock', "sender", "run")
    BY <1>2, <2>1, Requests DEF ReadFails
  <2>3. TypeOK'
    BY <1>2, <2>2 DEF IndInv, ReadFails, TypeOK, Once
  <2>4. Places'
    BY <1>2, <2>1, <2>2, TaskNames DEF IndInv, ReadFails, Places, TypeOK
  <2>5. OneReader'
    BY <1>2 DEF IndInv, ReadFails, OneReader, TypeOK
  <2>6. (OpensOne /\ NoReplay /\ CrossedFindsNone /\ StopSoFar)'
    BY <1>2, <2>2 DEF IndInv, ReadFails, OpensOne, NoReplay, CrossedFindsNone, StopSoFar
  <2> QED BY <2>3, <2>4, <2>5, <2>6 DEF IndInv
<1>3. CASE ReaderEnds(c)
  <2>1. TypeOK'
    BY <1>3 DEF IndInv, ReaderEnds, TypeOK, Holds
  <2>2. Places'
    BY <1>3 DEF IndInv, ReaderEnds, Places, TypeOK
  <2>3. OneReader'
    BY <1>3 DEF IndInv, ReaderEnds, OneReader, TypeOK
  <2>4. (OpensOne /\ NoReplay /\ CrossedFindsNone /\ StopSoFar)'
    BY <1>3 DEF IndInv, ReaderEnds, OpensOne, NoReplay, CrossedFindsNone, StopSoFar, TypeOK
  <2> QED BY <2>1, <2>2, <2>3, <2>4 DEF IndInv
<1>4. CASE ReaderDisconnects(c)
  <2>1. Disconnect(c)
    BY <1>4 DEF ReaderDisconnects
  <2>2. /\ lock' \in Seq(Tasks) /\ Once(lock') /\ Range(lock') = Range(lock) \ {c, conn}
        /\ \A x, y : Ahead(lock, x, y) => Ahead(lock', x, y)
        /\ conn' = NoConnection /\ reader' = [d \in Connections |-> "none"]
        /\ Holds(c)
        /\ crossed' = (crossed \/ (conn # NoConnection /\ sender = "waiting"))
    BY <2>1, DisconnectEffect
  <2>3. sender # "draining" /\ lock # <<>>
    BY <2>2, Holder, TaskNames DEF IndInv, TypeOK, Holds
  <2>4. c = conn
    BY <1>4 DEF IndInv, OneReader, ReaderDisconnects
  <2>5. TypeOK'
    <3>1. crossed' \in BOOLEAN /\ crossed \in BOOLEAN
      BY <2>2 DEF IndInv, TypeOK
    <3>2. {backoff, crossed, rxBusy}' \subseteq BOOLEAN
      BY <1>4, <3>1 DEF IndInv, ReaderDisconnects, TypeOK
    <3> QED BY <1>4, <2>2, <2>3, <3>2 DEF IndInv, ReaderDisconnects, TypeOK, Once
  <2>6. Places'
    BY <1>4, <2>2, <2>4, TaskNames DEF IndInv, ReaderDisconnects, Places, OneReader
  <2>7. Rest
    BY <1>4, <2>2, <2>3, <2>4, UplinkAssumption DEF IndInv, ReaderDisconnects, OneReader, OpensOne,
                                 NoReplay, CrossedFindsNone, StopSoFar
  <2> QED BY <2>5, <2>6, <2>7 DEF IndInv
<1> QED BY <1>1, <1>2, <1>3, <1>4 DEF ReaderStep

\* stop() and a new start.
LEMMA StopPreserves == ASSUME IndInv, StopStep PROVE IndInv'
<1> USE DEF vars, settings, client, tx, rx
<1>1. CASE BeginStop
  <2> DEFINE rest == RemoveFirst(lock, "sender")
  <2>1. /\ rest \in Seq(Tasks) /\ Once(rest)
        /\ Range(rest) = Range(lock) \ {"sender"}
    BY LockTyping, Leaves
  <2>2. lock' = Append(rest, "stop") /\ "stop" \notin Range(lock) /\ "stop" \in Tasks
    BY <1>1, TaskNames DEF IndInv, BeginStop, Places
  <2> HIDE DEF rest
  <2>3. lock' \in Seq(Tasks) /\ Once(lock') /\ Range(lock') = (Range(lock) \ {"sender"}) \cup {"stop"}
    BY <2>1, <2>2, Arrives
  <2>4. TypeOK'
    <3>1. {backoff, crossed, rxBusy}' \subseteq BOOLEAN
      BY <1>1 DEF IndInv, BeginStop, TypeOK
    <3>2. queue' \in 0 .. QueueMax
      BY <1>1, UplinkAssumption DEF BeginStop
    <3> QED BY <1>1, <2>3, <3>1, <3>2 DEF IndInv, BeginStop, TypeOK, Once
  <2>5. Places'
    BY <1>1, <2>3, TaskNames DEF IndInv, BeginStop, Places
  <2>6. (OneReader /\ OpensOne /\ NoReplay /\ CrossedFindsNone /\ StopSoFar)'
    BY <1>1 DEF IndInv, BeginStop, OneReader, OpensOne, NoReplay, CrossedFindsNone, StopSoFar
  <2> QED BY <2>4, <2>5, <2>6 DEF IndInv
<1>2. CASE StopDisconnects
  <2>1. reader' = [c \in Connections |-> "none"]
    BY <1>2 DEF IndInv, StopDisconnects, OneReader
  <2>2. lock' \in Seq(Tasks) /\ Once(lock') /\ Range(lock') = {}
    BY <1>2, EmptyQueue DEF StopDisconnects
  <2>3. sender \in {"idle", "cancelled"}
    BY <1>2 DEF IndInv, StopDisconnects, StopSoFar
  <2>4. TypeOK'
    BY <1>2, <2>1, <2>2, <2>3 DEF IndInv, StopDisconnects, TypeOK, Once
  <2>5. Places'
    BY <1>2, <2>1, <2>2, <2>3 DEF StopDisconnects, Places
  <2>6. (OneReader /\ OpensOne /\ NoReplay /\ CrossedFindsNone /\ StopSoFar)'
    BY <1>2, <2>1, <2>3 DEF IndInv, StopDisconnects, OneReader, OpensOne, NoReplay, CrossedFindsNone,
                           StopSoFar
  <2> QED BY <2>4, <2>5, <2>6 DEF IndInv
<1>3. CASE EndStop
  <2>1. TypeOK'
    BY <1>3 DEF IndInv, EndStop, TypeOK, Holds
  <2> QED BY <1>3, <2>1 DEF IndInv, EndStop, Places, OneReader, OpensOne, NoReplay,
                           CrossedFindsNone, StopSoFar
<1>4. CASE StartService
  <2>1. TypeOK'
    BY <1>4 DEF IndInv, StartService, TypeOK, Holds
  <2> QED BY <1>4, <2>1 DEF IndInv, StartService, Places, OneReader, OpensOne, NoReplay,
                           CrossedFindsNone, StopSoFar
<1> QED BY <1>1, <1>2, <1>3, <1>4 DEF StopStep

\* The side-effect dispatcher, and an edit of the interface.
LEMMA OthersPreserve ==
    ASSUME IndInv, BeginProcessing \/ EndProcessing \/ Edit
    PROVE  IndInv'
<1> USE DEF vars, settings, client, tx, rx
<1>1. CASE BeginProcessing \/ EndProcessing
  <2>1. TypeOK'
    <3>1. rxQueue' \in 0 .. RxQueueMax
      BY <1>1, UplinkAssumption DEF IndInv, BeginProcessing, EndProcessing, TypeOK
    <3> QED BY <1>1, <3>1 DEF IndInv, BeginProcessing, EndProcessing, TypeOK, Holds
  <2> QED BY <1>1, <2>1 DEF IndInv, BeginProcessing, EndProcessing, Places, OneReader, OpensOne,
                           NoReplay, CrossedFindsNone, StopSoFar
<1>2. CASE Edit
  <2>1. TypeOK'
    BY <1>2 DEF IndInv, Edit, TypeOK, Holds
  <2> QED BY <1>2, <2>1 DEF IndInv, Edit, Places, OneReader, OpensOne, NoReplay,
                           CrossedFindsNone, StopSoFar
<1> QED BY <1>1, <1>2

\* No step of the system leaves the invariant.
LEMMA NextPreserves == IndInv /\ [Next]_vars => IndInv'
<1> SUFFICES ASSUME IndInv, [Next]_vars PROVE IndInv'
  OBVIOUS
<1>1. CASE UNCHANGED vars
  <2> USE DEF vars, settings, client, tx, rx
  <2>1. TypeOK'
    BY <1>1 DEF IndInv, TypeOK, Holds
  <2> QED BY <1>1, <2>1 DEF IndInv, Places, OneReader, OpensOne, NoReplay, CrossedFindsNone, StopSoFar
<1>2. CASE Next
  BY <1>2, SenderPreserves, RunPreserves, ReaderPreserves, StopPreserves, OthersPreserve DEF Next
<1> QED BY <1>1, <1>2

\* The invariant holds in every state.
LEMMA Invariance == Spec => []IndInv
BY InitEstablishes, NextPreserves, PTL DEF Spec

-----------------------------------------------------------------------------
(* The theorems.                                                           *)

\* Every state of the uplink has its type: among others, no task waits twice for the lock
\* and the frame on its way to the server has the lock and a connection.
THEOREM TypeCorrect == Spec => []TypeOK
<1>1. IndInv => TypeOK
  BY DEF IndInv
<1> QED BY Invariance, <1>1, PTL

\* With any number of connections, a reader (_reader_loop) never outlives its connection,
\* whatever of sender, loop, other readers and stop() ends it.
THEOREM ReaderEndsWithConnection == Spec => []OneReader
<1>1. IndInv => OneReader
  BY DEF IndInv
<1> QED BY Invariance, <1>1, PTL

\* A frame handed to send_tnc2_line without a connection, or before one has ended, is not
\* written to the next one.
THEOREM NothingReplayed == Spec => []NoReplay
<1>1. IndInv => NoReplay
  BY DEF IndInv
<1> QED BY Invariance, <1>1, PTL

\* After AprsisClientService.stop and RxSideEffectDispatcher.stop nothing is left,
\* whatever was under way when stop() was called.
THEOREM StopIsComplete == Spec => []StopLeavesNothing
<1>1. IndInv => StopLeavesNothing
  BY DEF IndInv, StopSoFar, StopLeavesNothing
<1> QED BY Invariance, <1>1, PTL
=============================================================================
