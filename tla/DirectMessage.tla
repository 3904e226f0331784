---------------------------- MODULE DirectMessage ----------------------------
(***************************************************************************)
(* Outgoing APRS messages of APRSBox and the outbound jobs that carry them *)
(* (services/messages.py, services/outbound.py, OutboundService in         *)
(* services/outbound_runtime.py).                                          *)
(*                                                                         *)
(* Two operating-system processes share one SQLite database and nothing    *)
(* else: the web process, which sends, retries and deletes messages, and   *)
(* the core, which runs the transmit worker and receives ACK and REJ       *)
(* frames, from RF on the worker's own event loop and from APRS-IS in a    *)
(* thread.  A step of this module is one database transaction (or one      *)
(* await); everything the code does between two of them is one step.       *)
(*                                                                         *)
(* Time is abstract: a queued job may come due at any moment, in the order *)
(* in which scheduled_at sorts the jobs that share an instant, and the ACK *)
(* wait of FINAL_ACK_WAIT_SECONDS may end at any moment.                   *)
(***************************************************************************)
EXTENDS Integers, FiniteSets

CONSTANTS
    Messages,         \* ids of outgoing messages (aprs_messages.id)
    Numbered,         \* those with a message number: they expect an ACK
    NoMessage,        \* stands for no message
    MaxTncs,          \* interfaces a send round may be queued for
    MAX_TX_ATTEMPTS,  \* rounds after which no retry is scheduled
    Receivers,        \* where ACK and REJ come from: "rf", "aprsis"
    WebThreads,       \* concurrent requests of the web process
    Pacing,           \* may a job be held back by local TX pacing?
    MaxManualRounds,  \* bound: rounds the user starts, per message
    MaxCoreCrashes,   \* bound: deaths of the core process
    MaxWebCrashes     \* bound: deaths of the web process

ASSUME ConstantsAssumption ==
    /\ Numbered \subseteq Messages
    /\ NoMessage \notin Messages
    /\ MaxTncs \in Nat \ {0}
    /\ MAX_TX_ATTEMPTS \in Nat \ {0}
    /\ Receivers \subseteq {"rf", "aprsis"}
    /\ Pacing \in BOOLEAN
    /\ MaxManualRounds \in Nat
    /\ MaxCoreCrashes \in Nat
    /\ MaxWebCrashes \in Nat

VARIABLES
    status,    \* status[m]: aprs_messages.status; "none" before, "deleted" after
    attempts,  \* attempts[m]: aprs_messages.tx_attempt_count
    lastId,    \* the highest outbound_jobs.id given out (AUTOINCREMENT)
    jobs,      \* jobs[j]: row j of outbound_jobs, kept for ever
    worker,    \* where _process_job stands, with the job and what it has read
    rx,        \* rx[r]: the ACK or REJ receiver r is applying
    web,       \* web[w]: the request thread w is serving
    crashes    \* number of crashes of the core and of the web process so far

vars == <<status, attempts, lastId, jobs, worker, rx, web, crashes>>

JobIds == 1 .. lastId

(***************************************************************************)
(* A row of outbound_jobs.  An instant of scheduled_at is named after the  *)
(* job that first had it: j for the time job j was enqueued for, -j for    *)
(* the release time the pacing gave job j.  batch is the first id of the   *)
(* jobs of one send round, one job for each interface.                     *)
(***************************************************************************)
JobStatus == {"queued", "processing", "sent", "failed", "cancelled"}

Job == [status : JobStatus, msg : Messages, batch : Nat, scheduled_at : Int,
        manual : BOOLEAN, paced : BOOLEAN, attempt_count : Nat]

NewJob(m, first, manual) ==
    [status |-> "queued", msg |-> m, batch |-> first, scheduled_at |-> first,
     manual |-> manual, paced |-> FALSE, attempt_count |-> 0]

JobsOf(m) == {j \in JobIds : jobs[j].msg = m}
QueuedJobs(m) == {j \in JobsOf(m) : jobs[j].status = "queued"}

\* Variant: a round counts only while it is being transmitted.
RoundCountUnsent(m) ==
    Cardinality({jobs[j].scheduled_at :
                   j \in {k \in JobsOf(m) : jobs[k].status = "processing"}})

\* The rounds of m, counted by the scheduled_at of its jobs in processing or
\* sent.
RoundCount(m) ==
    Cardinality({jobs[j].scheduled_at :
                   j \in {k \in JobsOf(m) : jobs[k].status \in {"processing", "sent"}}})

\* One transaction inserts the jobs of a round, one for each target interface.
InsertJobs(m, n, manual) ==
    /\ lastId' = lastId + n
    /\ jobs' = [j \in 1 .. lastId + n |->
                  IF j <= lastId THEN jobs[j] ELSE NewJob(m, lastId + 1, manual)]

SetJobStatus(j, s) == jobs' = [jobs EXCEPT ![j].status = s]

\* UPDATE aprs_messages ... WHERE id = m: no row is left of a deleted message.
Exists(m) == status[m] \notin {"none", "deleted"}
SetStatus(m, s) == status' = IF Exists(m) THEN [status EXCEPT ![m] = s] ELSE status

\* Variant: the failure overwrites any status.
FailAnyMessage(m) == SetStatus(m, "failed")

MarkMessageFailed(m) ==
    status' = IF status[m] \in {"queued", "sent", "failed"}
              THEN [status EXCEPT ![m] = "failed"] ELSE status

-----------------------------------------------------------------------------
(* The transmit worker, OutboundService._run and _process_job.             *)

WorkerPc == {"down", "idle", "claimed", "transmitted", "register", "update",
             "exhausted", "markFailed", "checkRetry", "checkPending", "enqueueRetry"}

WorkerIdle == [pc |-> "idle", job |-> 0, next |-> 0]
WorkerDown == [pc |-> "down", job |-> 0, next |-> 0]

\* The event loop runs the worker or the handler of an RF frame, never both.
LoopFree == \A r \in Receivers \cap {"rf"} : rx[r].pc = "idle"

\* The worker is suspended only where it awaits: its poll, the TX gap and the
\* transmission itself.
WorkerAwaits == worker.pc \in {"idle", "claimed"}

WorkerMsg == jobs[worker.job].msg

At(pc) == LoopFree /\ worker.pc = pc
Goto(pc) == worker' = [worker EXCEPT !.pc = pc]

\* Variant: off by one, a message that used up its attempts never expires.
ExpireLate(m) ==
    /\ At("idle")
    /\ m \in Numbered
    /\ status[m] = "sent"
    /\ attempts[m] > MAX_TX_ATTEMPTS
    /\ QueuedJobs(m) = {}
    /\ status' = [status EXCEPT ![m] = "failed"]
    /\ UNCHANGED <<attempts, lastId, jobs, worker, rx, web, crashes>>

ExpireDirectMessageTimeouts(m) ==
    /\ At("idle")
    /\ m \in Numbered
    /\ status[m] = "sent"
    /\ attempts[m] >= MAX_TX_ATTEMPTS
    /\ QueuedJobs(m) = {}
    /\ status' = [status EXCEPT ![m] = "failed"]
    /\ UNCHANGED <<attempts, lastId, jobs, worker, rx, web, crashes>>

\* Of the jobs due at one instant the one with the lowest id is claimed first.
NextInLine(j) ==
    /\ jobs[j].status = "queued"
    /\ \A k \in JobIds :
         jobs[k].status = "queued" /\ jobs[k].scheduled_at = jobs[j].scheduled_at => j <= k

\* Variant: the claim does not count the attempt that pacing gives back.
ClaimUncounted(j) ==
    /\ At("idle")
    /\ NextInLine(j)
    /\ SetJobStatus(j, "processing")
    /\ worker' = [worker EXCEPT !.pc = "claimed", !.job = j]
    /\ UNCHANGED <<status, attempts, lastId, rx, web, crashes>>

Claim(j) ==
    /\ At("idle")
    /\ NextInLine(j)
    /\ jobs' = [jobs EXCEPT ![j].status = "processing", ![j].attempt_count = @ + 1]
    /\ worker' = [worker EXCEPT !.pc = "claimed", !.job = j]
    /\ UNCHANGED <<status, attempts, lastId, rx, web, crashes>>

\* Pacing holds a manual job back, once: it is queued again for its release
\* time, in whole seconds, which may be the second of its round, or that of
\* another job of the round.
Reschedule ==
    LET j == worker.job IN
    /\ At("claimed")
    /\ Pacing /\ jobs[j].manual /\ ~jobs[j].paced
    /\ \E t \in {jobs[j].batch, -jobs[j].batch, -j} :
         jobs' = [jobs EXCEPT ![j].status = "queued", ![j].scheduled_at = t,
                              ![j].paced = TRUE, ![j].attempt_count = @ - 1]
    /\ worker' = WorkerIdle
    /\ UNCHANGED <<status, attempts, lastId, rx, web, crashes>>

\* Interface disabled or TX blocked, and messages routed by Internal TX only: the
\* job counts as sent without a transmission here.
Skip ==
    /\ At("claimed")
    /\ SetJobStatus(worker.job, "sent")
    /\ Goto("register")
    /\ UNCHANGED <<status, attempts, lastId, rx, web, crashes>>

Transmit ==
    /\ At("claimed")
    /\ Goto("transmitted")
    /\ UNCHANGED <<status, attempts, lastId, jobs, rx, web, crashes>>

MarkSent ==
    /\ At("transmitted")
    /\ SetJobStatus(worker.job, "sent")
    /\ Goto("register")
    /\ UNCHANGED <<status, attempts, lastId, rx, web, crashes>>

\* An exception: no transmission, or its record could not be stored.
TransmitFails ==
    /\ At("claimed") \/ At("transmitted")
    /\ SetJobStatus(worker.job, "failed")
    /\ Goto("exhausted")
    /\ UNCHANGED <<status, attempts, lastId, rx, web, crashes>>

\* Variant: only a message that is already "sent" is looked at.
RegisterSentOnly ==
    /\ At("register")
    /\ worker' = IF status[WorkerMsg] = "sent"
                 THEN [worker EXCEPT !.pc = "update",
                         !.next = IF attempts[WorkerMsg] >= RoundCount(WorkerMsg)
                                  THEN attempts[WorkerMsg] ELSE RoundCount(WorkerMsg)]
                 ELSE WorkerIdle
    /\ UNCHANGED <<status, attempts, lastId, jobs, rx, web, crashes>>

\* _register_outbound_message_transmission reads the message and its rounds in one
\* transaction and writes "sent" in another one (Update).
Register ==
    /\ At("register")
    /\ worker' = IF status[WorkerMsg] \in {"queued", "sent"}
                 THEN [worker EXCEPT !.pc = "update",
                         !.next = IF attempts[WorkerMsg] >= RoundCount(WorkerMsg)
                                  THEN attempts[WorkerMsg] ELSE RoundCount(WorkerMsg)]
                 ELSE WorkerIdle
    /\ UNCHANGED <<status, attempts, lastId, jobs, rx, web, crashes>>

\* Variant: off by one, the last retry is never scheduled.
UpdateSkipsLastRetry ==
    /\ At("update")
    /\ SetStatus(WorkerMsg, "sent")
    /\ attempts' = IF Exists(WorkerMsg)
                   THEN [attempts EXCEPT ![WorkerMsg] = worker.next] ELSE attempts
    /\ worker' = IF WorkerMsg \in Numbered /\ worker.next + 1 < MAX_TX_ATTEMPTS
                 THEN [worker EXCEPT !.pc = "checkRetry"] ELSE WorkerIdle
    /\ UNCHANGED <<lastId, jobs, rx, web, crashes>>

Update ==
    /\ At("update")
    /\ SetStatus(WorkerMsg, "sent")
    /\ attempts' = IF Exists(WorkerMsg)
                   THEN [attempts EXCEPT ![WorkerMsg] = worker.next] ELSE attempts
    /\ worker' = IF WorkerMsg \in Numbered /\ worker.next < MAX_TX_ATTEMPTS
                 THEN [worker EXCEPT !.pc = "checkRetry"] ELSE WorkerIdle
    /\ UNCHANGED <<lastId, jobs, rx, web, crashes>>

\* Variants: a retry is scheduled whatever became of the message, or on top of a
\* round that is still queued.
CheckRetryBlind ==
    /\ At("checkRetry")
    /\ Goto("checkPending")
    /\ UNCHANGED <<status, attempts, lastId, jobs, rx, web, crashes>>

CheckPendingBlind ==
    /\ At("checkPending")
    /\ Goto("enqueueRetry")
    /\ UNCHANGED <<status, attempts, lastId, jobs, rx, web, crashes>>

\* schedule_message_retry: the message, then its queued jobs, then the insert.
CheckRetry ==
    /\ At("checkRetry")
    /\ worker' = IF status[WorkerMsg] \in {"queued", "sent"} /\ WorkerMsg \in Numbered
                 THEN [worker EXCEPT !.pc = "checkPending"] ELSE WorkerIdle
    /\ UNCHANGED <<status, attempts, lastId, jobs, rx, web, crashes>>

CheckPending ==
    /\ At("checkPending")
    /\ worker' = IF QueuedJobs(WorkerMsg) = {}
                 THEN [worker EXCEPT !.pc = "enqueueRetry"] ELSE WorkerIdle
    /\ UNCHANGED <<status, attempts, lastId, jobs, rx, web, crashes>>

EnqueueRetry ==
    /\ At("enqueueRetry")
    /\ \/ \E n \in 1 .. MaxTncs : InsertJobs(WorkerMsg, n, FALSE) /\ UNCHANGED status
       \/ MarkMessageFailed(WorkerMsg) /\ UNCHANGED <<lastId, jobs>>
    /\ worker' = WorkerIdle
    /\ UNCHANGED <<attempts, rx, web, crashes>>

\* mark_message_failed_if_round_exhausted: the other jobs with the scheduled_at
\* of the failed one.
Round == {j \in JobsOf(WorkerMsg) : jobs[j].scheduled_at = jobs[worker.job].scheduled_at}

RoundExhausted ==
    /\ At("exhausted")
    /\ worker' =
         IF \E j \in Round : jobs[j].status \in {"queued", "processing"} THEN WorkerIdle
         ELSE IF \A j \in Round : jobs[j].status # "sent"
              THEN [worker EXCEPT !.pc = "markFailed"]
         ELSE IF Exists(WorkerMsg) /\ attempts[WorkerMsg] \in 1 .. MAX_TX_ATTEMPTS - 1
              THEN [worker EXCEPT !.pc = "checkRetry"]
         ELSE WorkerIdle
    /\ UNCHANGED <<status, attempts, lastId, jobs, rx, web, crashes>>

FailMessage ==
    /\ At("markFailed")
    /\ MarkMessageFailed(WorkerMsg)
    /\ worker' = WorkerIdle
    /\ UNCHANGED <<attempts, lastId, jobs, rx, web, crashes>>

WorkerStep ==
    \/ \E m \in Messages : ExpireDirectMessageTimeouts(m)
    \/ \E j \in JobIds : Claim(j)
    \/ Reschedule \/ Skip \/ Transmit \/ MarkSent \/ TransmitFails
    \/ Register \/ Update \/ CheckRetry \/ CheckPending \/ EnqueueRetry
    \/ RoundExhausted \/ FailMessage

-----------------------------------------------------------------------------
(* ACK and REJ: acknowledge_outgoing_message, reject_outgoing_message.     *)

RxIdle == [pc |-> "idle", msg |-> NoMessage, verdict |-> "acked", todo |-> {}]

\* The statuses in which the SELECT finds the message of an ACK and of a REJ.
Answerable(v) == IF v = "acked" THEN {"queued", "sent", "failed"} ELSE {"queued", "sent"}

RxFind(r, m, v) ==
    /\ rx[r].pc = "idle"
    /\ worker.pc # "down"
    /\ r = "rf" => WorkerAwaits
    /\ m \in Numbered
    /\ status[m] \in Answerable(v)
    /\ rx' = [rx EXCEPT ![r] = [pc |-> "select", msg |-> m, verdict |-> v, todo |-> {}]]
    /\ UNCHANGED <<status, attempts, lastId, jobs, worker, web, crashes>>

\* cancel_pending_message_jobs: the ids first, then each in its own update.
RxSelect(r) ==
    /\ rx[r].pc = "select"
    /\ rx' = [rx EXCEPT ![r].pc = "cancel", ![r].todo = QueuedJobs(rx[r].msg)]
    /\ UNCHANGED <<status, attempts, lastId, jobs, worker, web, crashes>>

\* Variant: a job is cancelled whatever became of it since the select.
CancelAnyJob(j) == jobs' = [jobs EXCEPT ![j].status = "cancelled"]

CancelJob(j) ==
    jobs' = IF jobs[j].status = "queued" THEN [jobs EXCEPT ![j].status = "cancelled"] ELSE jobs

RxCancel(r) ==
    /\ rx[r].pc = "cancel"
    /\ \E j \in rx[r].todo :
         /\ \A k \in rx[r].todo : j <= k
         /\ CancelJob(j)
         /\ rx' = [rx EXCEPT ![r].todo = @ \ {j}]
    /\ UNCHANGED <<status, attempts, lastId, worker, web, crashes>>

RxSettle(r) ==
    /\ rx[r].pc = "cancel"
    /\ rx[r].todo = {}
    /\ SetStatus(rx[r].msg, rx[r].verdict)
    /\ rx' = [rx EXCEPT ![r] = RxIdle]
    /\ UNCHANGED <<attempts, lastId, jobs, worker, web, crashes>>

RxStep(r) == RxSelect(r) \/ RxCancel(r) \/ RxSettle(r)

-----------------------------------------------------------------------------
(* The web process: queue_outgoing_message, retry_failed_message and the   *)
(* deletion of a conversation, each request in a thread of its own.        *)

WebIdle == [op |-> "none", pc |-> "idle", msg |-> NoMessage, todo |-> {}]

\* Bound: rounds the user has started for m.
ManualRounds(m) == Cardinality({jobs[j].batch : j \in {k \in JobsOf(m) : jobs[k].manual}})

Send(w, m) ==
    /\ web[w].pc = "idle"
    /\ MaxManualRounds > 0
    /\ status[m] = "none"
    /\ status' = [status EXCEPT ![m] = "queued"]
    /\ web' = [web EXCEPT ![w] = [op |-> "send", pc |-> "enqueue", msg |-> m, todo |-> {}]]
    /\ UNCHANGED <<attempts, lastId, jobs, worker, rx, crashes>>

StartRetry(w, m) ==
    /\ web[w].pc = "idle"
    /\ ManualRounds(m) < MaxManualRounds
    /\ status[m] = "failed"
    /\ web' = [web EXCEPT ![w] = [op |-> "retry", pc |-> "select", msg |-> m, todo |-> {}]]
    /\ UNCHANGED <<status, attempts, lastId, jobs, worker, rx, crashes>>

StartDelete(w, m) ==
    /\ web[w].pc = "idle"
    /\ Exists(m)
    /\ web' = [web EXCEPT ![w] = [op |-> "delete", pc |-> "select", msg |-> m, todo |-> {}]]
    /\ UNCHANGED <<status, attempts, lastId, jobs, worker, rx, crashes>>

WebSelect(w) ==
    /\ web[w].pc = "select"
    /\ web' = [web EXCEPT ![w].pc = "cancel", ![w].todo = QueuedJobs(web[w].msg)]
    /\ UNCHANGED <<status, attempts, lastId, jobs, worker, rx, crashes>>

WebCancel(w) ==
    /\ web[w].pc = "cancel"
    /\ \E j \in web[w].todo :
         /\ \A k \in web[w].todo : j <= k
         /\ CancelJob(j)
         /\ web' = [web EXCEPT ![w].todo = @ \ {j}]
    /\ UNCHANGED <<status, attempts, lastId, worker, rx, crashes>>

Requeue(w) ==
    /\ web[w].pc = "cancel" /\ web[w].todo = {}
    /\ web[w].op = "retry"
    /\ SetStatus(web[w].msg, "queued")
    /\ attempts' = IF Exists(web[w].msg) THEN [attempts EXCEPT ![web[w].msg] = 0] ELSE attempts
    /\ web' = [web EXCEPT ![w] = IF Exists(web[w].msg) THEN [@ EXCEPT !.pc = "enqueue"] ELSE WebIdle]
    /\ UNCHANGED <<lastId, jobs, worker, rx, crashes>>

Erase(w) ==
    /\ web[w].pc = "cancel" /\ web[w].todo = {}
    /\ web[w].op = "delete"
    /\ SetStatus(web[w].msg, "deleted")
    /\ web' = [web EXCEPT ![w] = WebIdle]
    /\ UNCHANGED <<attempts, lastId, jobs, worker, rx, crashes>>

WebEnqueue(w) ==
    /\ web[w].pc = "enqueue"
    /\ \/ \E n \in 1 .. MaxTncs : InsertJobs(web[w].msg, n, TRUE) /\ UNCHANGED status
       \/ MarkMessageFailed(web[w].msg) /\ UNCHANGED <<lastId, jobs>>
    /\ web' = [web EXCEPT ![w] = WebIdle]
    /\ UNCHANGED <<attempts, worker, rx, crashes>>

WebStep(w) == WebSelect(w) \/ WebCancel(w) \/ Requeue(w) \/ Erase(w) \/ WebEnqueue(w)

-----------------------------------------------------------------------------
(* Crashes.  A stopped core is a crash as well: task.cancel() interrupts   *)
(* the worker at an await and its job stays in processing.  A restart      *)
(* recovers the beacon and WX jobs only: no job of a message changes.      *)

CoreCrash ==
    /\ crashes.core < MaxCoreCrashes
    /\ worker.pc # "down"
    /\ worker' = WorkerDown
    /\ rx' = [r \in Receivers |-> RxIdle]
    /\ crashes' = [crashes EXCEPT !.core = @ + 1]
    /\ UNCHANGED <<status, attempts, lastId, jobs, web>>

\* Variant: the restart queues again what was in processing.
RestartRequeues ==
    /\ worker.pc = "down"
    /\ worker' = WorkerIdle
    /\ jobs' = [j \in JobIds |-> IF jobs[j].status = "processing"
                                THEN [jobs[j] EXCEPT !.status = "queued"] ELSE jobs[j]]
    /\ UNCHANGED <<status, attempts, lastId, rx, web, crashes>>

CoreRestart ==
    /\ worker.pc = "down"
    /\ worker' = WorkerIdle
    /\ UNCHANGED <<status, attempts, lastId, jobs, rx, web, crashes>>

WebCrash ==
    /\ crashes.web < MaxWebCrashes
    /\ \E w \in WebThreads : web[w].pc # "idle"
    /\ web' = [w \in WebThreads |-> WebIdle]
    /\ crashes' = [crashes EXCEPT !.web = @ + 1]
    /\ UNCHANGED <<status, attempts, lastId, jobs, worker, rx>>

-----------------------------------------------------------------------------
Init ==
    /\ status = [m \in Messages |-> "none"]
    /\ attempts = [m \in Messages |-> 0]
    /\ lastId = 0
    /\ jobs = [j \in 1 .. 0 |-> NewJob(NoMessage, 0, FALSE)]
    /\ worker = WorkerIdle
    /\ rx = [r \in Receivers |-> RxIdle]
    /\ web = [w \in WebThreads |-> WebIdle]
    /\ crashes = [core |-> 0, web |-> 0]

Next ==
    \/ WorkerStep
    \/ \E r \in Receivers, m \in Messages, v \in {"acked", "rejected"} : RxFind(r, m, v)
    \/ \E r \in Receivers : RxStep(r)
    \/ \E w \in WebThreads, m \in Messages :
         Send(w, m) \/ StartRetry(w, m) \/ StartDelete(w, m)
    \/ \E w \in WebThreads : WebStep(w)
    \/ CoreCrash \/ CoreRestart \/ WebCrash

Spec == Init /\ [][Next]_vars

\* A started handler, request or worker goes on; users, remote stations and
\* crashes owe nothing; a supervisor restarts the core.
Fairness ==
    /\ WF_vars(WorkerStep)
    /\ WF_vars(CoreRestart)
    /\ \A r \in Receivers : WF_vars(RxStep(r))
    /\ \A w \in WebThreads : WF_vars(WebStep(w))

FairSpec == Spec /\ Fairness

-----------------------------------------------------------------------------
(* The columns and the local state hold what the schema and the code say.  *)
TypeOK ==
    /\ status \in [Messages -> {"none", "queued", "sent", "acked", "rejected", "failed", "deleted"}]
    /\ attempts \in [Messages -> Nat]
    /\ lastId \in Nat
    /\ jobs \in [JobIds -> Job]
    /\ worker \in [pc : WorkerPc, job : 0 .. lastId, next : Nat]
    /\ rx \in [Receivers -> [pc : {"idle", "select", "cancel"},
                             msg : Messages \cup {NoMessage},
                             verdict : {"acked", "rejected"}, todo : SUBSET JobIds]]
    /\ web \in [WebThreads -> [op : {"none", "send", "retry", "delete"},
                               pc : {"idle", "select", "cancel", "enqueue"},
                               msg : Messages \cup {NoMessage}, todo : SUBSET JobIds]]
    /\ crashes \in [core : 0 .. MaxCoreCrashes, web : 0 .. MaxWebCrashes]

(***************************************************************************)
(* The strengthening that makes TypeOK inductive: the worker's job exists  *)
(* and stays in processing, with its attempt counted, while the worker     *)
(* holds it, whatever the receivers and requests cancel meanwhile; a       *)
(* handler under way has a message; a deletion queues nothing; an instant  *)
(* is named after a job that exists.                                       *)
(***************************************************************************)
Consistent ==
    /\ worker.pc \notin {"idle", "down"} => worker.job \in JobIds
    /\ worker.pc \in {"claimed", "transmitted"} =>
         jobs[worker.job].status = "processing" /\ jobs[worker.job].attempt_count > 0
    /\ \A r \in Receivers : rx[r].pc # "idle" => rx[r].msg \in Messages
    /\ \A w \in WebThreads :
         /\ web[w].pc # "idle" => web[w].msg \in Messages
         /\ web[w].pc = "enqueue" => web[w].op # "delete"
    /\ \A j \in JobIds :
         jobs[j].batch \in 1 .. lastId /\ jobs[j].scheduled_at \in -lastId .. lastId

IndInv == TypeOK /\ Consistent

Waiting == {j \in JobIds : jobs[j].status = "queued"}
InHand == IF worker.pc \in {"claimed", "transmitted"} THEN {worker.job} ELSE {}
Lost == {j \in JobIds : jobs[j].status = "processing"} \ InHand
Closed == {j \in JobIds : jobs[j].status \in {"sent", "failed", "cancelled"}}

Queue == INSTANCE AtMostOnceQueue WITH
    waiting <- Waiting, hand <- InHand, lost <- Lost, closed <- Closed

\* The job table is an at-most-once queue: whatever is rescheduled, cancelled or
\* lost in a crash, a job that has been transmitted, or whose worker died, is
\* never handed to a transmitter again.
AtMostOnce == Queue!Spec

(***************************************************************************)
(* A message is settled when it is acknowledged, rejected or deleted and   *)
(* nobody is left who looked at it before.                                 *)
(***************************************************************************)
WorkerBusyWith(m) ==
    /\ worker.pc \in {"claimed", "update", "checkPending", "enqueueRetry"}
    /\ WorkerMsg = m

Settled(m) ==
    /\ status[m] \in {"acked", "rejected", "deleted"}
    /\ QueuedJobs(m) = {}
    /\ ~WorkerBusyWith(m)
    /\ \A r \in Receivers : rx[r].msg # m
    /\ \A w \in WebThreads : web[w].msg = m => web[w].op = "delete"

\* Settled is for ever: no handler that starts afterwards changes the status
\* (but to delete the message) or queues another frame of it.
SettledIsFinal ==
    [][\A m \in Messages :
         Settled(m) => Settled(m)' /\ status'[m] \in {status[m], "deleted"}]_vars

\* No round of m that goes out on several interfaces has been torn apart by the
\* pacing: a job that was held back is the only one of its round.
Unsplit(m) ==
    \A j, k \in JobsOf(m) : jobs[j].paced /\ jobs[k].batch = jobs[j].batch => k = j

\* Automatic retries are bounded over the whole life of a message, whatever the
\* failures and manual retries: every retry round follows a round that was sent,
\* and tx_attempt_count has counted that one.  A crash between the "sent" of a
\* job and the update of its message loses that count, and may cost one round
\* more.  Only for messages whose rounds pacing has not split, and that no two
\* requests retry at once: each of the two stacks rounds, see OneRoundQueued.
AutomaticRounds(m) ==
    Cardinality({jobs[j].batch : j \in {k \in JobsOf(m) : ~jobs[k].manual}})

RetriesBounded ==
    \A m \in Messages :
      Unsplit(m) => AutomaticRounds(m) < MAX_TX_ATTEMPTS + crashes.core

\* A round is never queued on top of another one that is still queued, if no two
\* requests retry the message at once and pacing has split none of its rounds.
\* (A job held back may outlive the failure of its round; a manual retry and
\* the worker, which then transmits that job, both queue a round.)
OneRoundQueued ==
    \A m \in Messages :
      Unsplit(m) => \A j, k \in QueuedJobs(m) : jobs[j].batch = jobs[k].batch

\* A message that still owes a round (queued, or sent with attempts left) has a
\* job on the way, or somebody about to queue one, settle it or delete it.
InService(m) ==
    \/ \E j \in JobsOf(m) : jobs[j].status \in {"queued", "processing"}
    \/ worker.pc \notin {"idle", "down"} /\ WorkerMsg = m
    \/ \E r \in Receivers : rx[r].msg = m
    \/ \E w \in WebThreads : web[w].msg = m

NoStall ==
    \A m \in Messages :
      \/ status[m] = "queued"
      \/ status[m] = "sent" /\ m \in Numbered /\ attempts[m] < MAX_TX_ATTEMPTS
      => InService(m)

\* "No ACK" is shown only of a message that was not acknowledged before.
AckedNeverNoAck ==
    \A m \in Messages : [](status[m] = "acked" => [](status[m] # "failed"))

\* A failed transmission fails its message only if no other job of the same send
\* round is still to be transmitted or has been.
RoundFailsWhole ==
    [][\A m \in Messages :
         /\ worker.pc = "markFailed"
         /\ status[m] # "failed" /\ status'[m] = "failed"
         => \A j \in JobsOf(m) :
              jobs[j].batch = jobs[worker.job].batch =>
                jobs[j].status \notin {"queued", "processing", "sent"}]_vars

\* A transmitted message that expects an ACK comes to an end: ACK, REJ, No ACK
\* or deletion.
SentIsResolved ==
    \A m \in Numbered :
      status[m] = "sent" ~> status[m] \in {"acked", "rejected", "failed", "deleted"}

\* Every message that expects an ACK comes to an end: ACK, REJ, No ACK or
\* deletion; any other is at least transmitted.
Settles ==
    \A m \in Messages :
      status[m] \in {"queued", "sent"} ~>
        \/ status[m] \in {"acked", "rejected", "failed", "deleted"}
        \/ m \notin Numbered /\ status[m] = "sent"
=============================================================================
