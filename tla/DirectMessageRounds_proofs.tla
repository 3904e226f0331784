--------------------- MODULE DirectMessageRounds_proofs ---------------------
(***************************************************************************)
(* Proofs about the send rounds of DirectMessage: rounds are not stacked,  *)
(* automatic retries are bounded, and without crashes no message that owes *)
(* a round is forgotten.                                                   *)
(***************************************************************************)
EXTENDS DirectMessage_proofs

-----------------------------------------------------------------------------
(* What a step may do to the rows of outbound_jobs.                        *)

\* The row keeps its instant and is not paced: all but Reschedule.
SameInstant(j) ==
    /\ jobs'[j].scheduled_at = jobs[j].scheduled_at
    /\ jobs'[j].paced = jobs[j].paced

HeldBack(j) ==
    /\ jobs'[j].scheduled_at \in {jobs[j].batch, -jobs[j].batch, -j}
    /\ jobs'[j].paced

\* Row j keeps its message, its round and its origin; its instant changes only
\* by the pacing, which marks the row.
SameRound(j) ==
    /\ jobs'[j].msg = jobs[j].msg
    /\ jobs'[j].batch = jobs[j].batch
    /\ jobs'[j].manual = jobs[j].manual
    /\ SameInstant(j) \/ HeldBack(j)

\* Row j changes, and no other.
OneRow(j) ==
    /\ lastId' = lastId /\ JobIds' = JobIds
    /\ SameRound(j)
    /\ \A k \in JobIds \ {j} : jobs'[k] = jobs[k]

LEMMA StatusRow ==
    ASSUME IndInv, NEW j \in JobIds, NEW s \in JobStatus, SetJobStatus(j, s), UNCHANGED lastId
    PROVE  OneRow(j) /\ SameInstant(j) /\ jobs'[j].status = s
<1>1. /\ JobIds' = JobIds /\ jobs[j] \in Job
      /\ jobs'[j] = [jobs[j] EXCEPT !.status = s]
      /\ \A k \in JobIds \ {j} : jobs'[k] = jobs[k]
  BY JobStatusSet, Parts DEF JobsOK
<1> DEFINE x == jobs[j]
           y == jobs'[j]
<1>2. x \in Job /\ y = [x EXCEPT !.status = s]
  BY <1>1
<1> HIDE DEF x, y
<1>3. y.msg = x.msg /\ y.batch = x.batch /\ y.manual = x.manual /\ y.paced = x.paced
      /\ y.scheduled_at = x.scheduled_at /\ y.status = s
  BY <1>2 DEF Job
<1> QED BY <1>1, <1>3 DEF x, y, OneRow, SameRound, SameInstant

LEMMA CancelRow ==
    ASSUME IndInv, NEW j \in JobIds, CancelJob(j), UNCHANGED lastId
    PROVE  /\ OneRow(j) /\ SameInstant(j)
           /\ jobs'[j].status # jobs[j].status =>
                jobs[j].status = "queued" /\ jobs'[j].status = "cancelled"
<1>1. CASE jobs[j].status = "queued"
  BY <1>1, StatusRow DEF CancelJob, SetJobStatus, JobStatus
<1>2. CASE jobs[j].status # "queued"
  BY <1>2 DEF CancelJob, OneRow, SameRound, SameInstant, JobIds
<1> QED BY <1>1, <1>2

LEMMA ClaimRow ==
    ASSUME IndInv, NEW j \in JobIds, Claim(j)
    PROVE  OneRow(j) /\ SameInstant(j) /\ jobs'[j].status = "processing"
<1> DEFINE x == jobs[j]
           y == jobs'[j]
           a == jobs[j].attempt_count + 1
<1>1. x \in Job /\ y = [x EXCEPT !.status = "processing", !.attempt_count = a]
      /\ \A k \in JobIds \ {j} : jobs'[k] = jobs[k]
  BY Parts DEF JobsOK, Claim
<1> HIDE DEF x, y, a
<1>2. y.msg = x.msg /\ y.batch = x.batch /\ y.manual = x.manual /\ y.paced = x.paced
      /\ y.scheduled_at = x.scheduled_at /\ y.status = "processing"
  BY <1>1 DEF Job
<1> QED BY <1>1, <1>2 DEF x, y, OneRow, SameRound, SameInstant, Claim, JobIds

LEMMA RescheduleRow ==
    ASSUME IndInv, Reschedule
    PROVE  LET j == worker.job IN
           /\ j \in JobIds /\ OneRow(j)
           /\ jobs'[j].status = "queued" /\ jobs'[j].paced
           /\ jobs'[j].scheduled_at \in {jobs[j].batch, -jobs[j].batch, -j}
<1> DEFINE j == worker.job
           x == jobs[j]
           y == jobs'[j]
           a == jobs[j].attempt_count - 1
<1>1. j \in JobIds
  BY Parts DEF WorkerOK, Reschedule, At
<1>2. PICK t \in {jobs[j].batch, -jobs[j].batch, -j} :
        jobs' = [jobs EXCEPT ![j].status = "queued", ![j].scheduled_at = t,
                             ![j].paced = TRUE, ![j].attempt_count = @ - 1]
  BY DEF Reschedule
<1>3. x \in Job
      /\ y = [x EXCEPT !.status = "queued", !.scheduled_at = t, !.paced = TRUE, !.attempt_count = a]
      /\ \A k \in JobIds \ {j} : jobs'[k] = jobs[k]
  BY <1>1, <1>2, Parts DEF JobsOK
<1> HIDE DEF x, y, a
<1>4. y.msg = x.msg /\ y.batch = x.batch /\ y.manual = x.manual /\ y.paced
      /\ y.scheduled_at = t /\ y.status = "queued"
  BY <1>3 DEF Job
<1> QED BY <1>1, <1>3, <1>4 DEF x, y, OneRow, SameRound, HeldBack, Reschedule, JobIds

LEMMA InsertRows ==
    ASSUME IndInv, NEW m \in Messages, NEW n \in 1 .. MaxTncs, NEW b \in BOOLEAN,
           InsertJobs(m, n, b)
    PROVE  /\ JobIds \subseteq JobIds' /\ lastId + 1 \in JobIds' \ JobIds
           /\ \A j \in JobIds : jobs'[j] = jobs[j]
           /\ \A j \in JobIds' \ JobIds :
                /\ jobs'[j].status = "queued" /\ jobs'[j].msg = m
                /\ jobs'[j].batch = lastId + 1 /\ jobs'[j].scheduled_at = lastId + 1
                /\ jobs'[j].manual = b /\ jobs'[j].paced = FALSE
<1>1. lastId \in Nat /\ n \in Nat /\ n > 0
  BY Parts, ConstantsAssumption DEF JobsOK
<1>2. JobIds \subseteq JobIds' /\ JobIds' = 1 .. lastId + n /\ lastId + 1 \in JobIds' \ JobIds
  BY <1>1 DEF JobIds, InsertJobs
<1>3. jobs' = [j \in JobIds' |-> IF j <= lastId THEN jobs[j] ELSE NewJob(m, lastId + 1, b)]
  BY <1>2 DEF InsertJobs
<1>4. \A j \in JobIds : jobs'[j] = jobs[j]
  BY <1>1, <1>2, <1>3 DEF JobIds
<1>5. \A j \in JobIds' \ JobIds : jobs'[j] = NewJob(m, lastId + 1, b)
  BY <1>1, <1>2, <1>3 DEF JobIds
<1> QED BY <1>2, <1>4, <1>5 DEF NewJob

\* A step leaves the table alone, changes one row, or inserts a round.
LEMMA TableSteps ==
    ASSUME IndInv, Next
    PROVE  \/ UNCHANGED <<lastId, jobs>>
           \/ \E j \in JobIds : OneRow(j)
           \/ \E m \in Messages, n \in 1 .. MaxTncs, b \in BOOLEAN : InsertJobs(m, n, b)
<1>0. JobsOK /\ WorkerOK /\ RxOK /\ WebOK
  BY Parts
<1>1. CASE WorkerStep
  <2>1. ASSUME Skip \/ MarkSent \/ TransmitFails PROVE \E j \in JobIds : OneRow(j)
    <3>1. worker.job \in JobIds
      BY <1>0, <2>1 DEF WorkerOK, Skip, MarkSent, TransmitFails, At
    <3> QED BY <2>1, <3>1, StatusRow DEF Skip, MarkSent, TransmitFails, JobStatus
  <2>2. ASSUME EnqueueRetry
        PROVE  \/ UNCHANGED <<lastId, jobs>>
               \/ \E m \in Messages, n \in 1 .. MaxTncs, b \in BOOLEAN : InsertJobs(m, n, b)
    <3>1. WorkerMsg \in Messages
      BY <1>0, <2>2 DEF EnqueueRetry, At, WorkerOK, JobsOK, WorkerMsg, Job
    <3> QED BY <2>2, <3>1 DEF EnqueueRetry
  <2> QED BY <1>1, <2>1, <2>2, ClaimRow, RescheduleRow
      DEF WorkerStep, ExpireDirectMessageTimeouts, Transmit, Register, Update, CheckRetry,
          CheckPending, RoundExhausted, FailMessage
<1>2. CASE \E r \in Receivers : RxStep(r)
  BY <1>0, <1>2, CancelRow DEF RxStep, RxSelect, RxCancel, RxSettle, RxOK
<1>3. CASE \E w \in WebThreads : WebStep(w)
  <2>1. PICK w \in WebThreads : WebStep(w)
    BY <1>3
  <2>2. CASE WebEnqueue(w)
    <3>1. web[w].msg \in Messages
      BY <1>0, <2>2 DEF WebEnqueue, WebOK
    <3> QED BY <2>2, <3>1 DEF WebEnqueue
  <2>3. CASE WebCancel(w)
    BY <1>0, <2>3, CancelRow DEF WebCancel, WebOK
  <2> QED BY <2>1, <2>2, <2>3 DEF WebStep, WebSelect, Requeue, Erase
<1> QED BY <1>1, <1>2, <1>3
    DEF Next, RxFind, Send, StartRetry, StartDelete, CoreCrash, CoreRestart, WebCrash

\* Rows stay, with their message, round and origin.
LEMMA RowsStay ==
    ASSUME IndInv, Next
    PROVE  JobIds \subseteq JobIds' /\ \A j \in JobIds : SameRound(j)
<1>1. ASSUME UNCHANGED <<lastId, jobs>> PROVE JobIds \subseteq JobIds' /\ \A j \in JobIds : SameRound(j)
  BY <1>1 DEF JobIds, SameRound, SameInstant
<1>2. ASSUME NEW j \in JobIds, OneRow(j) PROVE JobIds \subseteq JobIds' /\ \A k \in JobIds : SameRound(k)
  BY <1>2 DEF OneRow, SameRound, SameInstant
<1>3. ASSUME NEW m \in Messages, NEW n \in 1 .. MaxTncs, NEW b \in BOOLEAN, InsertJobs(m, n, b)
      PROVE  JobIds \subseteq JobIds' /\ \A k \in JobIds : SameRound(k)
  BY <1>3, InsertRows DEF SameRound, SameInstant
<1> QED BY <1>1, <1>2, <1>3, TableSteps

\* A round that has been split stays split.
LEMMA UnsplitBefore == ASSUME IndInv, Next, NEW m, Unsplit(m)' PROVE Unsplit(m)
BY RowsStay DEF Unsplit, JobsOf, SameRound, SameInstant, HeldBack

-----------------------------------------------------------------------------
(* Rounds and instants: a round is named after its first job, an instant   *)
(* after the round, or, for a job that was held back, after that job.      *)

Instants ==
    \A j \in JobIds :
      /\ jobs[j].batch \in JobIds
      /\ jobs[jobs[j].batch].batch = jobs[j].batch
      /\ jobs[jobs[j].batch].msg = jobs[j].msg
      /\ jobs[j].scheduled_at \in {jobs[j].batch, -jobs[j].batch, -j}
      /\ ~jobs[j].paced => jobs[j].scheduled_at = jobs[j].batch

LEMMA NextKeepsInstants == ASSUME IndInv, Instants, Next PROVE Instants'
<1>1. ASSUME NEW j \in JobIds
      PROVE  /\ j \in JobIds'
             /\ jobs'[j].batch \in JobIds'
             /\ jobs'[jobs'[j].batch].batch = jobs'[j].batch
             /\ jobs'[jobs'[j].batch].msg = jobs'[j].msg
             /\ jobs'[j].scheduled_at \in {jobs'[j].batch, -jobs'[j].batch, -j}
             /\ ~jobs'[j].paced => jobs'[j].scheduled_at = jobs'[j].batch
  BY <1>1, RowsStay DEF Instants, SameRound, SameInstant, HeldBack
<1>2. ASSUME NEW j \in JobIds' \ JobIds
      PROVE  /\ jobs'[j].batch \in JobIds'
             /\ jobs'[jobs'[j].batch].batch = jobs'[j].batch
             /\ jobs'[jobs'[j].batch].msg = jobs'[j].msg
             /\ jobs'[j].scheduled_at = jobs'[j].batch
  <2>1. PICK m \in Messages, n \in 1 .. MaxTncs, b \in BOOLEAN : InsertJobs(m, n, b)
    BY <1>2, TableSteps DEF OneRow, JobIds
  <2> QED BY <2>1, <1>2, InsertRows
<1> QED BY <1>1, <1>2 DEF Instants

\* The instant of a row tells its round.
LEMMA InstantTellsRound ==
    ASSUME IndInv, Instants, NEW j \in JobIds, NEW k \in JobIds,
           jobs[j].scheduled_at = jobs[k].scheduled_at
    PROVE  jobs[j].batch = jobs[k].batch
<1>1. /\ j \in 1 .. lastId /\ k \in 1 .. lastId /\ lastId \in Nat
      /\ jobs[j].batch \in 1 .. lastId /\ jobs[k].batch \in 1 .. lastId
  BY Parts DEF JobsOK, JobIds
<1>2. /\ jobs[j].scheduled_at \in {jobs[j].batch, -jobs[j].batch, -j}
      /\ jobs[k].scheduled_at \in {jobs[k].batch, -jobs[k].batch, -k}
      /\ jobs[jobs[j].batch].batch = jobs[j].batch
      /\ jobs[jobs[k].batch].batch = jobs[k].batch
  BY DEF Instants
<1>3. \/ jobs[j].batch = jobs[k].batch
      \/ jobs[j].batch = k
      \/ jobs[k].batch = j
      \/ j = k
  BY <1>1, <1>2
<1> QED BY <1>2, <1>3

\* The instant of a row of an unsplit round is that of its round, and nobody
\* else's: it is the id of the round, or minus that id.
LEMMA RoundTellsInstant ==
    ASSUME IndInv, Instants, NEW m \in Messages, Unsplit(m), NEW j \in JobsOf(m)
    PROVE  /\ jobs[j].scheduled_at \in {jobs[j].batch, -jobs[j].batch}
           /\ \A k \in JobsOf(m) : jobs[k].batch = jobs[j].batch =>
                jobs[k].scheduled_at = jobs[j].scheduled_at
<1>1. CASE jobs[j].paced
  <2>1. jobs[j].batch \in JobsOf(m) /\ jobs[jobs[j].batch].batch = jobs[j].batch
    BY DEF Instants, JobsOf
  <2>2. jobs[j].batch = j
    BY <1>1, <2>1 DEF Unsplit
  <2>3. \A k \in JobsOf(m) : jobs[k].batch = jobs[j].batch => k = j
    BY <1>1 DEF Unsplit
  <2>4. jobs[j].scheduled_at \in {jobs[j].batch, -jobs[j].batch, -j}
    BY DEF Instants, JobsOf
  <2> QED BY <2>2, <2>3, <2>4
<1>2. CASE ~jobs[j].paced
  <2>1. \A k \in JobsOf(m) : jobs[k].paced /\ jobs[j].batch = jobs[k].batch => j = k
    BY DEF Unsplit
  <2> QED BY <1>2, <2>1 DEF Instants, JobsOf
<1> QED BY <1>1, <1>2

-----------------------------------------------------------------------------
(* Rounds follow each other.  A message that is failed, or that a request  *)
(* is about to queue a round of, has nothing queued and nothing with the   *)
(* worker; what is queued, and what the worker holds, belongs to the last  *)
(* round; the worker fails a message, or queues a round of it, only with   *)
(* nothing of it queued.                                                   *)

WorkerOn(m) == worker.pc \notin {"idle", "down"} /\ WorkerMsg = m

InRequest(m) == \E w \in WebThreads : web[w].op \in {"send", "retry"} /\ web[w].msg = m

\* No two requests send or retry the same message at once.
OneRequestEach ==
    \A v, w \in WebThreads :
      /\ web[v].op \in {"send", "retry"} /\ web[w].op \in {"send", "retry"}
      /\ web[v].msg = web[w].msg
      => v = w

Births ==
    /\ \A m \in Messages : status[m] = "none" => JobsOf(m) = {} /\ ~InRequest(m)
    /\ \A w \in WebThreads : web[w].pc # "idle" => web[w].op # "none"

Orderly(m) ==
    /\ status[m] \in {"none", "failed"} \/ InRequest(m) => QueuedJobs(m) = {} /\ ~WorkerOn(m)
    /\ \A w \in WebThreads :
         web[w].pc = "enqueue" /\ web[w].msg = m => status[m] \notin {"none", "sent", "failed"}
    /\ WorkerOn(m) => \A j \in JobsOf(m) : jobs[j].batch <= jobs[worker.job].batch
    /\ \A j \in QueuedJobs(m), k \in JobsOf(m) : jobs[k].batch <= jobs[j].batch
    /\ WorkerOn(m) /\ worker.pc \in {"markFailed", "enqueueRetry"} => QueuedJobs(m) = {}

RoundsInv == Instants /\ Births /\ \A m \in Messages : Unsplit(m) => Orderly(m)


\* What a request does to its thread; the other threads stay as they are.
LEMMA ThreadRow ==
    ASSUME IndInv, NEW w \in WebThreads
    PROVE  /\ \A m \in Messages : Send(w, m) =>
                web'[w].op = "send" /\ web'[w].pc = "enqueue" /\ web'[w].msg = m
           /\ \A m \in Messages : StartRetry(w, m) =>
                web'[w].op = "retry" /\ web'[w].pc = "select" /\ web'[w].msg = m
           /\ \A m \in Messages : StartDelete(w, m) =>
                web'[w].op = "delete" /\ web'[w].pc = "select" /\ web'[w].msg = m
           /\ WebSelect(w) \/ WebCancel(w) =>
                web'[w].op = web[w].op /\ web'[w].pc = "cancel" /\ web'[w].msg = web[w].msg
           /\ Requeue(w) =>
                \/ web'[w].op = web[w].op /\ web'[w].pc = "enqueue" /\ web'[w].msg = web[w].msg
                   /\ Exists(web[w].msg)
                \/ web'[w] = WebIdle /\ ~Exists(web[w].msg)
           /\ Erase(w) \/ WebEnqueue(w) => web'[w] = WebIdle
           /\ (\E m \in Messages : Send(w, m) \/ StartRetry(w, m) \/ StartDelete(w, m)) \/ WebStep(w)
                => \A v \in WebThreads \ {w} : web'[v] = web[v]
<1>0. WebOK
  BY Parts
<1>1. ASSUME NEW m \in Messages, Send(w, m)
      PROVE  /\ web'[w].op = "send" /\ web'[w].pc = "enqueue" /\ web'[w].msg = m
             /\ \A v \in WebThreads \ {w} : web'[v] = web[v]
  BY <1>0, <1>1 DEF Send, WebOK
<1>2. ASSUME NEW m \in Messages, StartRetry(w, m)
      PROVE  /\ web'[w].op = "retry" /\ web'[w].pc = "select" /\ web'[w].msg = m
             /\ \A v \in WebThreads \ {w} : web'[v] = web[v]
  BY <1>0, <1>2 DEF StartRetry, WebOK
<1>3. ASSUME NEW m \in Messages, StartDelete(w, m)
      PROVE  /\ web'[w].op = "delete" /\ web'[w].pc = "select" /\ web'[w].msg = m
             /\ \A v \in WebThreads \ {w} : web'[v] = web[v]
  BY <1>0, <1>3 DEF StartDelete, WebOK
<1>4. ASSUME WebSelect(w)
      PROVE  /\ web'[w].op = web[w].op /\ web'[w].pc = "cancel" /\ web'[w].msg = web[w].msg
             /\ \A v \in WebThreads \ {w} : web'[v] = web[v]
  BY <1>0, <1>4 DEF WebSelect, WebOK
<1>5. ASSUME WebCancel(w)
      PROVE  /\ web'[w].op = web[w].op /\ web'[w].pc = "cancel" /\ web'[w].msg = web[w].msg
             /\ \A v \in WebThreads \ {w} : web'[v] = web[v]
  BY <1>0, <1>5 DEF WebCancel, WebOK
<1>6. ASSUME Requeue(w)
      PROVE  /\ \/ /\ web'[w].op = web[w].op /\ web'[w].pc = "enqueue" /\ web'[w].msg = web[w].msg
                   /\ Exists(web[w].msg)
                \/ web'[w] = WebIdle /\ ~Exists(web[w].msg)
             /\ \A v \in WebThreads \ {w} : web'[v] = web[v]
  BY <1>0, <1>6 DEF Requeue, WebOK
<1>7. ASSUME Erase(w) \/ WebEnqueue(w)
      PROVE  web'[w] = WebIdle /\ \A v \in WebThreads \ {w} : web'[v] = web[v]
  BY <1>0, <1>7 DEF Erase, WebEnqueue, WebOK
<1> QED BY <1>1, <1>2, <1>3, <1>4, <1>5, <1>6, <1>7 DEF WebStep

\* Who changes web.
LEMMA WebSteps ==
    ASSUME Next
    PROVE  \/ UNCHANGED web
           \/ \E w \in WebThreads, m \in Messages : Send(w, m) \/ StartRetry(w, m) \/ StartDelete(w, m)
           \/ \E w \in WebThreads : WebStep(w)
           \/ web' = [w \in WebThreads |-> WebIdle]
BY DEF Next, WorkerStep, ExpireDirectMessageTimeouts, Claim, Reschedule, Skip, Transmit, MarkSent,
       TransmitFails, Register, Update, CheckRetry, CheckPending, EnqueueRetry, RoundExhausted,
       FailMessage, RxFind, RxStep, RxSelect, RxCancel, RxSettle, CoreCrash, CoreRestart, WebCrash

\* The status of a message is never reset to "none".
LEMMA NeverUnborn ==
    ASSUME IndInv, Next, NEW m \in Messages, status'[m] = "none"
    PROVE  status[m] = "none"
<1>0. RowsOK /\ RxOK
  BY Parts
<1>1. CASE WorkerStep
  BY <1>0, <1>1 DEF RowsOK, WorkerStep, ExpireDirectMessageTimeouts, Claim, Reschedule, Skip, Transmit,
     MarkSent, TransmitFails, Register, Update, CheckRetry, CheckPending, EnqueueRetry,
     RoundExhausted, FailMessage, SetStatus, MarkMessageFailed
<1>2. CASE \E r \in Receivers : RxStep(r)
  BY <1>0, <1>2 DEF RowsOK, RxOK, RxStep, RxSelect, RxCancel, RxSettle, SetStatus
<1>3. CASE \E w \in WebThreads : WebStep(w)
  BY <1>0, <1>3 DEF RowsOK, WebStep, WebSelect, WebCancel, Requeue, Erase, WebEnqueue, SetStatus,
     MarkMessageFailed
<1>4. CASE \E w \in WebThreads, k \in Messages : Send(w, k) \/ StartRetry(w, k) \/ StartDelete(w, k)
  BY <1>0, <1>4 DEF RowsOK, Send, StartRetry, StartDelete
<1> QED BY <1>1, <1>2, <1>3, <1>4 DEF Next, RxFind, CoreCrash, CoreRestart, WebCrash

\* A round is inserted only by the worker, for the message of its job, or by a
\* request, for its own.
LEMMA WhoInserts ==
    ASSUME IndInv, Births, Next, NEW j \in JobIds' \ JobIds
    PROVE  \E m \in Messages :
             /\ jobs'[j].msg = m
             /\ JobsOf(m) # {} \/ InRequest(m)
<1>0. JobsOK /\ WorkerOK /\ RxOK /\ WebOK
  BY Parts
<1>1. CASE EnqueueRetry
  <2>1. WorkerMsg \in Messages /\ worker.job \in JobsOf(WorkerMsg)
    BY <1>0, <1>1 DEF EnqueueRetry, At, WorkerOK, JobsOK, WorkerMsg, Job, JobsOf
  <2> QED BY <1>1, <2>1, InsertRows DEF EnqueueRetry, JobIds
<1>2. ASSUME NEW w \in WebThreads, WebEnqueue(w)
      PROVE  \E m \in Messages : jobs'[j].msg = m /\ InRequest(m)
  <2>1. web[w].msg \in Messages /\ web[w].op \in {"send", "retry"}
    BY <1>0, <1>2 DEF WebEnqueue, WebOK, Births
  <2>2. InRequest(web[w].msg)
    BY <2>1 DEF InRequest
  <2> QED BY <1>2, <2>1, <2>2, InsertRows DEF WebEnqueue, JobIds
<1>3. CASE WorkerStep /\ ~EnqueueRetry
  BY <1>3 DEF WorkerStep, ExpireDirectMessageTimeouts, Claim, Reschedule, Skip, Transmit, MarkSent,
     TransmitFails, Register, Update, CheckRetry, CheckPending, RoundExhausted, FailMessage, JobIds
<1> QED BY <1>1, <1>2, <1>3 DEF Next, RxFind, RxStep, RxSelect, RxCancel, RxSettle, WebStep,
        WebSelect, WebCancel, Requeue, Erase, Send, StartRetry, StartDelete, CoreCrash, CoreRestart,
        WebCrash, JobIds

LEMMA NextKeepsBirths == ASSUME IndInv, Births, Next PROVE Births'
<1>0. WebOK
  BY Parts
<1>1. \A w \in WebThreads : web'[w].pc # "idle" => web'[w].op # "none"
  <2>1. ASSUME NEW w \in WebThreads, NEW m \in Messages,
               Send(w, m) \/ StartRetry(w, m) \/ StartDelete(w, m)
        PROVE  \A v \in WebThreads : web'[v].pc # "idle" => web'[v].op # "none"
    BY <2>1, ThreadRow DEF Births
  <2>2. ASSUME NEW w \in WebThreads, WebStep(w)
        PROVE  \A v \in WebThreads : web'[v].pc # "idle" => web'[v].op # "none"
    <3>1. web[w].pc # "idle"
      BY <2>2 DEF WebStep, WebSelect, WebCancel, Requeue, Erase, WebEnqueue
    <3> QED BY <2>2, <3>1, ThreadRow DEF Births, WebStep, WebIdle
  <2> QED BY <2>1, <2>2, WebSteps DEF Births, WebIdle
<1>2. ASSUME NEW m \in Messages, status'[m] = "none" PROVE JobsOf(m)' = {} /\ ~InRequest(m)'
  <2>1. status[m] = "none" /\ JobsOf(m) = {} /\ ~InRequest(m)
    BY <1>2, NeverUnborn DEF Births
  <2>2. JobsOf(m)' = {}
    BY <2>1, RowsStay, WhoInserts DEF JobsOf, SameRound
  <2>3. ASSUME NEW w \in WebThreads, NEW k \in Messages,
               Send(w, k) \/ StartRetry(w, k) \/ StartDelete(w, k)
        PROVE  ~InRequest(m)'
    <3>1. k # m \/ web'[w].op = "delete"
      <4>1. CASE Send(w, k)
        BY <1>2, <4>1, Parts DEF Send, RowsOK
      <4>2. CASE StartRetry(w, k)
        BY <2>1, <4>2 DEF StartRetry
      <4> QED BY <2>3, <4>1, <4>2, ThreadRow
    <3> QED BY <2>1, <2>3, <3>1, ThreadRow DEF InRequest
  <2>4. ASSUME NEW w \in WebThreads, WebStep(w) PROVE ~InRequest(m)'
    BY <2>1, <2>4, ThreadRow DEF InRequest, WebStep, WebIdle
  <2> QED BY <2>1, <2>2, <2>3, <2>4, WebSteps DEF InRequest, WebIdle
<1> QED BY <1>1, <1>2 DEF Births

\* What a step has to leave alone for m to stay orderly: it queues nothing of m,
\* and the worker takes no job of m.
LEMMA OrderlyFrame ==
    ASSUME IndInv, Next, NEW m \in Messages, Orderly(m), NoNewJob(m),
           WorkerOn(m)' =>
             /\ WorkerOn(m) /\ worker'.job = worker.job
             /\ worker'.pc \in {"markFailed", "enqueueRetry"} => QueuedJobs(m) = {},
           status'[m] \in {"none", "failed"} \/ InRequest(m)' =>
             QueuedJobs(m) = {} /\ ~WorkerOn(m)',
           \A w \in WebThreads :
             web'[w].pc = "enqueue" /\ web'[w].msg = m => status'[m] \notin {"none", "sent", "failed"}
    PROVE  Orderly(m)'
<1>1. JobsOf(m)' = JobsOf(m)
  BY DEF NoNewJob, JobsOf
<1>2. QueuedJobs(m)' \subseteq QueuedJobs(m)
  BY <1>1 DEF NoNewJob, QueuedJobs, JobsOf
<1>3. \A j \in JobsOf(m) : jobs'[j].batch = jobs[j].batch
  BY RowsStay DEF JobsOf, SameRound
<1>4. status'[m] \in {"none", "failed"} \/ InRequest(m)' => QueuedJobs(m)' = {} /\ ~WorkerOn(m)'
  BY <1>2
<1>5. WorkerOn(m) => worker.job \in JobsOf(m)
  BY Parts DEF WorkerOn, WorkerMsg, WorkerOK, JobsOf
<1>6. WorkerOn(m)' => \A j \in JobsOf(m)' : jobs'[j].batch <= jobs'[worker'.job].batch
  BY <1>1, <1>3, <1>5 DEF Orderly
<1>7. \A j \in QueuedJobs(m)', k \in JobsOf(m)' : jobs'[k].batch <= jobs'[j].batch
  BY <1>1, <1>2, <1>3 DEF Orderly, QueuedJobs
<1>8. WorkerOn(m)' /\ worker'.pc \in {"markFailed", "enqueueRetry"} => QueuedJobs(m)' = {}
  BY <1>2
<1> QED BY <1>4, <1>6, <1>7, <1>8 DEF Orderly

\* The same for the steps of the worker that leave the status of m alone.
LEMMA OrderlyWorkerFrame ==
    ASSUME IndInv, Next, NEW m \in Messages, Orderly(m), NoNewJob(m),
           UNCHANGED web, status'[m] = status[m],
           WorkerOn(m)' =>
             /\ WorkerOn(m) /\ worker'.job = worker.job
             /\ worker'.pc \in {"markFailed", "enqueueRetry"} => QueuedJobs(m) = {}
    PROVE  Orderly(m)'
<1>1. InRequest(m)' <=> InRequest(m)
  BY DEF InRequest
<1>2. status'[m] \in {"none", "failed"} \/ InRequest(m)' => QueuedJobs(m) = {} /\ ~WorkerOn(m)'
  BY <1>1 DEF Orderly
<1>3. \A w \in WebThreads :
        web'[w].pc = "enqueue" /\ web'[w].msg = m => status'[m] \notin {"none", "sent", "failed"}
  BY DEF Orderly
<1> QED BY <1>2, <1>3, OrderlyFrame

\* A worker that goes on with its job stays with its message, or leaves it.
LEMMA WorkerStays ==
    ASSUME IndInv, Next, NEW m \in Messages,
           \/ worker' = WorkerIdle
           \/ worker' = WorkerDown
           \/ worker'.job = worker.job /\ worker.pc \notin {"idle", "down"}
    PROVE  WorkerOn(m)' => WorkerOn(m) /\ worker'.job = worker.job
<1>1. CASE worker' = WorkerIdle \/ worker' = WorkerDown
  BY <1>1 DEF WorkerOn, WorkerIdle, WorkerDown
<1>2. CASE worker'.job = worker.job /\ worker.pc \notin {"idle", "down"}
  <2>1. worker.job \in JobIds
    BY <1>2, Parts DEF WorkerOK
  <2> QED BY <1>2, <2>1, RowsStay DEF WorkerOn, WorkerMsg, SameRound
<1> QED BY <1>1, <1>2

\* A round that a step of the worker adds: nothing else of m is queued.
LEMMA RoundAdded ==
    ASSUME IndInv, Next, NEW m \in Messages, NEW n \in 1 .. MaxTncs, NEW b \in BOOLEAN,
           InsertJobs(m, n, b), QueuedJobs(m) = {}
    PROVE  \A j \in QueuedJobs(m)', k \in JobsOf(m)' : jobs'[k].batch <= jobs'[j].batch
<1>1. /\ \A j \in JobIds : jobs'[j] = jobs[j] /\ jobs[j].batch \in 1 .. lastId
      /\ \A j \in JobIds' \ JobIds : jobs'[j].batch = lastId + 1
      /\ lastId \in Nat
  BY InsertRows, Parts DEF JobsOK
<1>2. \A j \in QueuedJobs(m)' : j \in JobIds' \ JobIds
  BY <1>1 DEF QueuedJobs, JobsOf
<1>3. \A k \in JobIds' : jobs'[k].batch <= lastId + 1
  BY <1>1
<1> QED BY <1>1, <1>2, <1>3 DEF QueuedJobs, JobsOf

LEMMA WorkerKeepsOrderly ==
    ASSUME IndInv, Instants, Births, NEW m \in Messages, Unsplit(m), Orderly(m), WorkerStep
    PROVE  Orderly(m)'
<1> USE DEF At
<1>0. RowsOK /\ JobsOK /\ WorkerOK /\ WebOK /\ Next
  BY Parts DEF Next
<1>1. ASSUME NEW k \in Messages, ExpireDirectMessageTimeouts(k) PROVE Orderly(m)'
  <2>1. NoNewJob(m) /\ ~WorkerOn(m)'
    BY <1>1, TableQuiet DEF ExpireDirectMessageTimeouts, WorkerOn
  <2>2. CASE k = m
    <3>1. QueuedJobs(m) = {} /\ status[m] = "sent" /\ status'[m] = "failed" /\ web' = web
      BY <1>0, <1>1, <2>2 DEF ExpireDirectMessageTimeouts, RowsOK
    <3>2. \A w \in WebThreads : ~(web'[w].pc = "enqueue" /\ web'[w].msg = m)
      BY <3>1 DEF Orderly
    <3> QED BY <1>0, <2>1, <3>1, <3>2, OrderlyFrame
  <2>3. CASE k # m
    <3>1. status'[m] = status[m] /\ web' = web
      BY <1>0, <1>1, <2>3 DEF ExpireDirectMessageTimeouts, RowsOK
    <3> QED BY <1>0, <2>1, <3>1, OrderlyWorkerFrame
  <2> QED BY <2>2, <2>3
<1>2. ASSUME NEW j \in JobIds, Claim(j) PROVE Orderly(m)'
  <2>1. OneRow(j) /\ jobs'[j].status = "processing" /\ jobs[j].status = "queued"
    BY <1>2, ClaimRow DEF Claim, NextInLine
  <2>2. NoNewJob(m)
    BY <2>1 DEF NoNewJob, OneRow, SameRound
  <2>3. worker'.pc = "claimed" /\ worker'.job = j /\ web' = web /\ status' = status
    BY <1>0, <1>2 DEF Claim, WorkerOK
  <2>4. CASE jobs[j].msg # m
    <3>1. ~WorkerOn(m)'
      BY <2>1, <2>3, <2>4 DEF WorkerOn, WorkerMsg, OneRow, SameRound
    <3> QED BY <1>0, <2>2, <2>3, <3>1, OrderlyWorkerFrame
  <2>5. CASE jobs[j].msg = m
    <3>1. j \in QueuedJobs(m)
      BY <2>1, <2>5 DEF QueuedJobs, JobsOf
    <3>2. ~(status'[m] \in {"none", "failed"} \/ InRequest(m)')
      BY <2>3, <3>1 DEF Orderly, InRequest
    <3>3. JobsOf(m)' = JobsOf(m) /\ \A k \in JobsOf(m) : jobs'[k].batch = jobs[k].batch
      BY <2>1 DEF JobsOf, OneRow, SameRound
    <3>4. QueuedJobs(m)' \subseteq QueuedJobs(m)
      BY <2>1, <3>3 DEF QueuedJobs, JobsOf, OneRow
    <3>5. \A k \in JobsOf(m)' : jobs'[k].batch <= jobs'[worker'.job].batch
      BY <2>3, <3>1, <3>3 DEF Orderly, QueuedJobs
    <3>6. \A i \in QueuedJobs(m)', k \in JobsOf(m)' : jobs'[k].batch <= jobs'[i].batch
      BY <3>3, <3>4 DEF Orderly, QueuedJobs
    <3> QED BY <2>3, <3>2, <3>5, <3>6 DEF Orderly
  <2> QED BY <2>4, <2>5
<1>3. ASSUME Reschedule PROVE Orderly(m)'
  <2> DEFINE j == worker.job
  <2>1. j \in JobIds /\ OneRow(j) /\ worker' = WorkerIdle /\ web' = web /\ status' = status
    BY <1>3, RescheduleRow DEF Reschedule
  <2>2. ~WorkerOn(m)'
    BY <2>1 DEF WorkerOn, WorkerIdle
  <2>3. CASE WorkerMsg # m
    <3>1. NoNewJob(m)
      BY <2>1, <2>3 DEF NoNewJob, OneRow, SameRound, WorkerMsg
    <3> QED BY <1>0, <2>1, <2>2, <3>1, OrderlyWorkerFrame
  <2>4. CASE WorkerMsg = m
    <3>1. WorkerOn(m) /\ j \in JobsOf(m)
      BY <1>3, <2>1, <2>4 DEF WorkerOn, Reschedule, WorkerMsg, JobsOf
    <3>2. ~(status'[m] \in {"none", "failed"} \/ InRequest(m)')
      BY <2>1, <3>1 DEF Orderly, InRequest
    <3>3. JobsOf(m)' = JobsOf(m) /\ \A k \in JobsOf(m) : jobs'[k].batch = jobs[k].batch
      BY <2>1 DEF JobsOf, OneRow, SameRound
    <3>4. QueuedJobs(m)' \subseteq QueuedJobs(m) \cup {j}
      BY <2>1, <3>3 DEF QueuedJobs, JobsOf, OneRow
    <3>5. \A k \in JobsOf(m) : jobs[k].batch <= jobs[j].batch
      BY <3>1 DEF Orderly
    <3>6. \A i \in QueuedJobs(m)', k \in JobsOf(m)' : jobs'[k].batch <= jobs'[i].batch
      BY <3>1, <3>3, <3>4, <3>5 DEF Orderly, QueuedJobs
    <3>7. \A w \in WebThreads : web'[w].pc = "enqueue" /\ web'[w].msg = m =>
            status'[m] \notin {"none", "sent", "failed"}
      BY <2>1 DEF Orderly
    <3> QED BY <2>2, <3>2, <3>6, <3>7 DEF Orderly
  <2> QED BY <2>3, <2>4
<1>4. ASSUME Skip \/ MarkSent \/ TransmitFails PROVE Orderly(m)'
  <2>1. worker.job \in JobIds /\ worker'.pc \in {"register", "exhausted"} /\ worker'.job = worker.job
        /\ worker.pc \notin {"idle", "down"}
    BY <1>0, <1>4 DEF Skip, MarkSent, TransmitFails, Goto, WorkerOK
  <2>2. NoNewJob(m)
    BY <1>4, <2>1, TableQuiet DEF Skip, MarkSent, TransmitFails, JobStatus
  <2>3. web' = web /\ status' = status
    BY <1>4 DEF Skip, MarkSent, TransmitFails
  <2> QED BY <1>0, <2>1, <2>2, <2>3, WorkerStays, OrderlyWorkerFrame
<1>5. ASSUME Transmit \/ Register \/ CheckRetry PROVE Orderly(m)'
  <2>1. NoNewJob(m) /\ web' = web /\ status' = status /\ worker.pc \notin {"idle", "down"}
    BY <1>5, TableQuiet DEF Transmit, Register, CheckRetry
  <2>2. \/ worker' = WorkerIdle
        \/ worker'.job = worker.job /\ worker'.pc \in {"transmitted", "update", "checkPending"}
    <3>1. CASE Transmit
      BY <1>0, <3>1 DEF Transmit, Goto, WorkerOK
    <3>2. CASE Register
      BY <1>0, <3>2 DEF Register, WorkerOK
    <3>3. CASE CheckRetry
      BY <1>0, <3>3 DEF CheckRetry, WorkerOK
    <3> QED BY <1>5, <3>1, <3>2, <3>3
  <2>3. worker'.pc \notin {"markFailed", "enqueueRetry"}
    BY <2>2 DEF WorkerIdle
  <2> QED BY <1>0, <2>1, <2>2, <2>3, WorkerStays, OrderlyWorkerFrame
<1>6. ASSUME Update PROVE Orderly(m)'
  <2>1. NoNewJob(m) /\ web' = web /\ worker.pc \notin {"idle", "down"}
    BY <1>6, TableQuiet DEF Update
  <2>2. \/ worker' = WorkerIdle
        \/ worker'.job = worker.job /\ worker'.pc = "checkRetry"
    BY <1>0, <1>6 DEF Update, WorkerOK
  <2>3. worker'.pc \notin {"markFailed", "enqueueRetry"}
    BY <2>2 DEF WorkerIdle
  <2>4. WorkerOn(m)' => WorkerOn(m) /\ worker'.job = worker.job
    BY <1>0, <2>1, <2>2, WorkerStays
  <2>5. CASE WorkerMsg # m
    <3>1. status'[m] = status[m]
      BY <1>0, <1>6, <2>5 DEF Update, SetStatus, RowsOK
    <3> QED BY <1>0, <2>1, <2>3, <2>4, <3>1, OrderlyWorkerFrame
  <2>6. CASE WorkerMsg = m
    <3>1. WorkerOn(m)
      BY <2>1, <2>6 DEF WorkerOn
    <3>2. ~InRequest(m)' /\ status[m] \notin {"none", "failed"}
      BY <2>1, <3>1 DEF Orderly, InRequest
    <3>3. status'[m] \in {"sent", "deleted"}
      BY <1>0, <1>6, <2>6, <3>2 DEF Update, SetStatus, RowsOK, Exists
    <3>4. \A w \in WebThreads : ~(web'[w].pc = "enqueue" /\ web'[w].msg = m)
      <4>1. ASSUME NEW w \in WebThreads, web[w].pc = "enqueue", web[w].msg = m PROVE FALSE
        <5>1. ~InRequest(m)
          BY <2>1, <3>2 DEF InRequest
        <5> QED BY <1>0, <4>1, <5>1 DEF WebOK, Births, InRequest
      <4> QED BY <2>1, <4>1
    <3> QED BY <1>0, <2>1, <2>3, <2>4, <3>2, <3>3, <3>4, OrderlyFrame
  <2> QED BY <2>5, <2>6
<1>7. ASSUME CheckPending PROVE Orderly(m)'
  <2>1. NoNewJob(m) /\ web' = web /\ status' = status /\ worker.pc \notin {"idle", "down"}
    BY <1>7, TableQuiet DEF CheckPending
  <2>2. \/ worker' = WorkerIdle
        \/ worker'.job = worker.job /\ worker'.pc = "enqueueRetry" /\ QueuedJobs(WorkerMsg) = {}
    BY <1>0, <1>7 DEF CheckPending, WorkerOK
  <2>3. WorkerOn(m)' => WorkerOn(m) /\ worker'.job = worker.job
    BY <1>0, <2>1, <2>2, WorkerStays
  <2>4. WorkerOn(m)' => QueuedJobs(m) = {}
    BY <2>2, <2>3 DEF WorkerOn, WorkerIdle
  <2> QED BY <1>0, <2>1, <2>3, <2>4, OrderlyWorkerFrame
<1>8. ASSUME EnqueueRetry \/ FailMessage PROVE Orderly(m)'
  <2>1. /\ worker' = WorkerIdle /\ web' = web /\ worker.pc \in {"enqueueRetry", "markFailed"}
        /\ WorkerMsg \in Messages
    BY <1>0, <1>8 DEF EnqueueRetry, FailMessage, WorkerOK, JobsOK, WorkerMsg, Job
  <2>2. ~WorkerOn(m)'
    BY <2>1 DEF WorkerOn, WorkerIdle
  <2>3. CASE WorkerMsg # m
    <3>1. status'[m] = status[m]
      BY <1>0, <1>8, <2>1, <2>3 DEF EnqueueRetry, FailMessage, MarkMessageFailed, RowsOK
    <3>2. NoNewJob(m)
      BY <1>8, <2>1, <2>3, TableQuiet DEF EnqueueRetry, FailMessage
    <3> QED BY <1>0, <2>1, <2>2, <3>1, <3>2, OrderlyWorkerFrame
  <2>4. CASE WorkerMsg = m
    <3>1. WorkerOn(m) /\ QueuedJobs(m) = {} /\ status[m] \notin {"none", "failed"}
      BY <2>1, <2>4 DEF WorkerOn, Orderly
    <3>2. ~InRequest(m)'
      BY <2>1, <3>1 DEF Orderly, InRequest
    <3>3. \A w \in WebThreads : ~(web'[w].pc = "enqueue" /\ web'[w].msg = m)
      BY <1>0, <2>1, <3>2 DEF WebOK, Births, InRequest
    <3>4. CASE UNCHANGED <<lastId, jobs>>
      <4>1. NoNewJob(m)
        BY <3>4, TableQuiet
      <4> QED BY <1>0, <2>2, <3>1, <3>2, <3>3, <4>1, OrderlyFrame
    <3>5. ASSUME NEW n \in 1 .. MaxTncs, InsertJobs(m, n, FALSE), status' = status PROVE Orderly(m)'
      <4>1. \A j \in QueuedJobs(m)', k \in JobsOf(m)' : jobs'[k].batch <= jobs'[j].batch
        BY <1>0, <3>1, <3>5, RoundAdded
      <4>2. status'[m] \notin {"none", "failed"}
        BY <3>1, <3>5
      <4> QED BY <2>2, <3>2, <3>3, <4>1, <4>2 DEF Orderly
    <3> QED BY <1>8, <2>4, <3>4, <3>5 DEF EnqueueRetry, FailMessage
  <2> QED BY <2>3, <2>4
<1>9. ASSUME RoundExhausted PROVE Orderly(m)'
  <2>1. NoNewJob(m) /\ web' = web /\ status' = status /\ worker.pc \notin {"idle", "down"}
    BY <1>9, TableQuiet DEF RoundExhausted
  <2>2. \/ worker' = WorkerIdle
        \/ worker'.job = worker.job /\ worker'.pc = "checkRetry"
        \/ /\ worker'.job = worker.job /\ worker'.pc = "markFailed"
           /\ \A j \in Round : jobs[j].status # "queued"
    BY <1>0, <1>9 DEF RoundExhausted, WorkerOK
  <2>3. WorkerOn(m)' => WorkerOn(m) /\ worker'.job = worker.job
    BY <1>0, <2>1, <2>2, WorkerStays
  <2>4. ASSUME WorkerOn(m), \A j \in Round : jobs[j].status # "queued" PROVE QueuedJobs(m) = {}
    <3>1. worker.job \in JobsOf(m) /\ WorkerMsg = m
      BY <1>0, <2>4 DEF WorkerOn, WorkerMsg, WorkerOK, JobsOf
    <3>2. ASSUME NEW j \in QueuedJobs(m) PROVE FALSE
      <4>1. /\ j \in JobsOf(m) /\ jobs[j].status = "queued"
            /\ jobs[worker.job].batch <= jobs[j].batch /\ jobs[j].batch <= jobs[worker.job].batch
        BY <2>4, <3>1, <3>2 DEF Orderly, QueuedJobs
      <4>2. jobs[j].batch \in Int /\ jobs[worker.job].batch \in Int
        BY <1>0, <3>1, <4>1 DEF JobsOK, JobsOf
      <4>3. jobs[j].batch = jobs[worker.job].batch
        BY <4>1, <4>2
      <4>4. jobs[j].scheduled_at = jobs[worker.job].scheduled_at
        BY <3>1, <4>1, <4>3, RoundTellsInstant
      <4> QED BY <2>4, <3>1, <4>1, <4>4 DEF Round
    <3> QED BY <3>2
  <2>5. WorkerOn(m)' /\ worker'.pc \in {"markFailed", "enqueueRetry"} => QueuedJobs(m) = {}
    BY <2>2, <2>3, <2>4 DEF WorkerIdle
  <2> QED BY <1>0, <2>1, <2>3, <2>5, OrderlyWorkerFrame
<1> QED BY <1>1, <1>2, <1>3, <1>4, <1>5, <1>6, <1>7, <1>8, <1>9 DEF WorkerStep

LEMMA OthersKeepOrderly ==
    ASSUME IndInv, Births, OneRequestEach, Next, ~WorkerStep,
           NEW m \in Messages, Orderly(m)
    PROVE  Orderly(m)'
<1>0. RowsOK /\ JobsOK /\ RxOK /\ WebOK
  BY Parts
\* A step that leaves the worker and the requests alone.
<1>1. ASSUME UNCHANGED <<worker, web>>, NoNewJob(m),
             status'[m] = status[m] \/ status'[m] \in {"acked", "rejected"}
      PROVE  Orderly(m)'
  <2>1. WorkerOn(m)' => /\ WorkerOn(m) /\ worker'.job = worker.job
                        /\ worker'.pc \in {"markFailed", "enqueueRetry"} => QueuedJobs(m) = {}
    BY <1>1, WorkerStays, Parts DEF WorkerOn, Orderly, WorkerOK
  <2>2. status'[m] \in {"none", "failed"} \/ InRequest(m)' => QueuedJobs(m) = {} /\ ~WorkerOn(m)'
    BY <1>1, <2>1 DEF Orderly, InRequest
  <2>3. \A w \in WebThreads :
          web'[w].pc = "enqueue" /\ web'[w].msg = m => status'[m] \notin {"none", "sent", "failed"}
    BY <1>1 DEF Orderly
  <2> QED BY <1>1, <2>1, <2>2, <2>3, OrderlyFrame
\* A step of a request that queues nothing of m.
<1>2. ASSUME UNCHANGED worker, NoNewJob(m),
             InRequest(m)' => InRequest(m) \/ status[m] \in {"none", "failed"},
             status'[m] \in {"none", "failed"} => InRequest(m) \/ status[m] \in {"none", "failed"},
             \A w \in WebThreads :
               web'[w].pc = "enqueue" /\ web'[w].msg = m => status'[m] \notin {"none", "sent", "failed"}
      PROVE  Orderly(m)'
  <2>1. WorkerOn(m)' => /\ WorkerOn(m) /\ worker'.job = worker.job
                        /\ worker'.pc \in {"markFailed", "enqueueRetry"} => QueuedJobs(m) = {}
    BY <1>2, WorkerStays, Parts DEF WorkerOn, Orderly, WorkerOK
  <2>2. status'[m] \in {"none", "failed"} \/ InRequest(m)' => QueuedJobs(m) = {} /\ ~WorkerOn(m)'
    BY <1>2, <2>1 DEF Orderly
  <2> QED BY <1>2, <2>1, <2>2, OrderlyFrame
<1>3. ASSUME NEW r \in Receivers, NEW k \in Messages, NEW v \in {"acked", "rejected"}, RxFind(r, k, v)
      PROVE  Orderly(m)'
  BY <1>1, <1>3, TableQuiet DEF RxFind
<1>4. ASSUME NEW r \in Receivers, RxStep(r) PROVE Orderly(m)'
  <2>1. CASE RxSelect(r)
    BY <1>1, <2>1, TableQuiet DEF RxSelect
  <2>2. CASE RxCancel(r)
    <3>1. NoNewJob(m)
      BY <1>0, <2>2, TableQuiet DEF RxCancel, RxOK
    <3> QED BY <1>1, <2>2, <3>1 DEF RxCancel
  <2>3. CASE RxSettle(r)
    <3>1. NoNewJob(m)
      BY <2>3, TableQuiet DEF RxSettle
    <3>2. status'[m] = status[m] \/ status'[m] \in {"acked", "rejected"}
      BY <1>0, <2>3 DEF RxSettle, SetStatus, RowsOK, RxOK
    <3> QED BY <1>1, <2>3, <3>1, <3>2 DEF RxSettle
  <2> QED BY <1>4, <2>1, <2>2, <2>3 DEF RxStep
<1>5. ASSUME NEW w \in WebThreads, NEW k \in Messages,
             Send(w, k) \/ StartRetry(w, k) \/ StartDelete(w, k)
      PROVE  Orderly(m)'
  <2>1. NoNewJob(m) /\ UNCHANGED worker
    BY <1>5, TableQuiet DEF Send, StartRetry, StartDelete
  <2>2. \A v \in WebThreads \ {w} : web'[v] = web[v]
    BY <1>5, ThreadRow
  <2>3. CASE Send(w, k)
    <3>1. /\ status[k] = "none" /\ status'[k] = "queued"
          /\ k # m => status'[m] = status[m]
          /\ web'[w].msg = k
      BY <1>0, <2>3, ThreadRow DEF Send, RowsOK
    <3>2. InRequest(m)' => InRequest(m) \/ status[m] \in {"none", "failed"}
      BY <2>2, <3>1 DEF InRequest
    <3>3. status'[m] \in {"none", "failed"} => status[m] \in {"none", "failed"}
      BY <3>1
    <3>4. \A v \in WebThreads :
            web'[v].pc = "enqueue" /\ web'[v].msg = m => status'[m] \notin {"none", "sent", "failed"}
      BY <2>2, <3>1 DEF Orderly
    <3> QED BY <1>2, <2>1, <3>2, <3>3, <3>4
  <2>4. CASE StartRetry(w, k) \/ StartDelete(w, k)
    <3>1. /\ status' = status /\ web'[w].msg = k /\ web'[w].pc = "select"
          /\ web'[w].op = "retry" => status[k] = "failed"
      BY <2>4, ThreadRow DEF StartRetry, StartDelete
    <3>2. InRequest(m)' => InRequest(m) \/ status[m] \in {"none", "failed"}
      <4>1. web'[w].op # "send"
        BY <2>4, ThreadRow
      <4> QED BY <2>2, <3>1, <4>1 DEF InRequest
    <3>3. \A v \in WebThreads :
            web'[v].pc = "enqueue" /\ web'[v].msg = m => status'[m] \notin {"none", "sent", "failed"}
      BY <2>2, <3>1 DEF Orderly
    <3> QED BY <1>2, <2>1, <3>1, <3>2, <3>3
  <2> QED BY <1>5, <2>3, <2>4
<1>6. ASSUME NEW w \in WebThreads, WebSelect(w) \/ WebCancel(w) \/ Requeue(w) \/ Erase(w)
      PROVE  Orderly(m)'
  <2>1. /\ NoNewJob(m) /\ UNCHANGED worker
        /\ \A v \in WebThreads \ {w} : web'[v] = web[v]
    <3>1. NoNewJob(m)
      BY <1>0, <1>6, TableQuiet DEF WebSelect, WebCancel, Requeue, Erase, WebOK
    <3> QED BY <1>6, <3>1, ThreadRow DEF WebSelect, WebCancel, Requeue, Erase, WebStep
  <2>2. /\ (web'[w].op = web[w].op /\ web'[w].msg = web[w].msg) \/ web'[w] = WebIdle
        /\ Requeue(w) \/ web'[w].pc # "enqueue"
    BY <1>6, ThreadRow DEF WebIdle
  <2>3. InRequest(m)' => InRequest(m)
    BY <2>1, <2>2 DEF InRequest, WebIdle
  <2>4. /\ Requeue(w) /\ web[w].msg = m /\ Exists(m) => status'[m] = "queued"
        /\ status'[m] = status[m] \/ status'[m] \in {"queued", "deleted"}
    <3>1. CASE WebSelect(w) \/ WebCancel(w)
      BY <3>1 DEF WebSelect, WebCancel, Requeue
    <3>2. CASE Requeue(w)
      BY <1>0, <3>2 DEF Requeue, SetStatus, RowsOK, WebOK
    <3>3. CASE Erase(w)
      BY <1>0, <3>3 DEF Erase, Requeue, SetStatus, RowsOK, WebOK
    <3> QED BY <1>6, <3>1, <3>2, <3>3
  <2>5. web'[w].pc = "enqueue" /\ web'[w].msg = m => status'[m] = "queued"
    BY <2>2, <2>4, ThreadRow, ConstantsAssumption DEF WebIdle
  <2>6. \A v \in WebThreads :
          web'[v].pc = "enqueue" /\ web'[v].msg = m => status'[m] \notin {"none", "sent", "failed"}
    BY <2>1, <2>4, <2>5 DEF Orderly
  <2> QED BY <1>2, <2>1, <2>3, <2>4, <2>6
<1>7. ASSUME NEW w \in WebThreads, WebEnqueue(w) PROVE Orderly(m)'
  <2>1. /\ UNCHANGED worker /\ web[w].msg \in Messages /\ web'[w] = WebIdle
        /\ web[w].pc = "enqueue" /\ web[w].op \in {"send", "retry"}
        /\ \A v \in WebThreads \ {w} : web'[v] = web[v]
    BY <1>0, <1>7, ThreadRow DEF WebEnqueue, WebStep, WebOK, Births
  <2>2. InRequest(m)' => InRequest(m)
    BY <2>1 DEF InRequest, WebIdle
  <2>3. CASE web[w].msg # m
    <3>1. NoNewJob(m) /\ status'[m] = status[m]
      BY <1>0, <1>7, <2>1, <2>3, TableQuiet DEF WebEnqueue, MarkMessageFailed, RowsOK
    <3>2. \A v \in WebThreads :
            web'[v].pc = "enqueue" /\ web'[v].msg = m => status'[m] \notin {"none", "sent", "failed"}
      BY <2>1, <3>1 DEF Orderly, WebIdle
    <3> QED BY <1>2, <2>1, <2>2, <3>1, <3>2
  <2>4. CASE web[w].msg = m
    <3>1. InRequest(m) /\ ~InRequest(m)'
      <4>1. InRequest(m)
        BY <2>1, <2>4 DEF InRequest
      <4>2. ASSUME NEW v \in WebThreads, web'[v].op \in {"send", "retry"}, web'[v].msg = m PROVE FALSE
        BY <2>1, <2>4, <4>2 DEF OneRequestEach, WebIdle
      <4> QED BY <4>1, <4>2 DEF InRequest
    <3>2. QueuedJobs(m) = {} /\ ~WorkerOn(m) /\ status[m] \notin {"none", "sent", "failed"}
      BY <2>1, <2>4, <3>1 DEF Orderly
    <3>3. \A v \in WebThreads : ~(web'[v].pc = "enqueue" /\ web'[v].msg = m)
      <4>1. ASSUME NEW v \in WebThreads, web'[v].pc = "enqueue", web'[v].msg = m PROVE FALSE
        <5>1. v # w /\ web[v].pc = "enqueue" /\ web[v].msg = m
          BY <2>1, <4>1 DEF WebIdle
        <5>2. web[v].op \in {"send", "retry"}
          BY <1>0, <5>1 DEF WebOK, Births
        <5> QED BY <2>1, <2>4, <5>1, <5>2 DEF OneRequestEach
      <4> QED BY <4>1
    <3>4. ~WorkerOn(m)'
      BY <2>1, <3>2, WorkerStays, Parts DEF WorkerOn, WorkerOK
    <3>5. CASE UNCHANGED <<lastId, jobs>>
      <4>1. NoNewJob(m)
        BY <3>5, TableQuiet
      <4> QED BY <3>1, <3>2, <3>3, <3>4, <4>1, OrderlyFrame
    <3>6. ASSUME NEW n \in 1 .. MaxTncs, InsertJobs(m, n, TRUE), status' = status PROVE Orderly(m)'
      <4>1. \A j \in QueuedJobs(m)', k \in JobsOf(m)' : jobs'[k].batch <= jobs'[j].batch
        BY <3>2, <3>6, RoundAdded
      <4>2. status'[m] \notin {"none", "failed"}
        BY <3>2, <3>6
      <4> QED BY <3>1, <3>3, <3>4, <4>1, <4>2 DEF Orderly
    <3> QED BY <1>7, <2>4, <3>5, <3>6 DEF WebEnqueue
  <2> QED BY <2>3, <2>4
<1>8. ASSUME CoreCrash \/ CoreRestart PROVE Orderly(m)'
  <2>1. /\ worker' \in {WorkerIdle, WorkerDown} /\ web' = web /\ status' = status
        /\ NoNewJob(m)
    BY <1>8, TableQuiet DEF CoreCrash, CoreRestart
  <2>2. ~WorkerOn(m)'
    BY <2>1 DEF WorkerOn, WorkerIdle, WorkerDown
  <2> QED BY <2>1, <2>2, OrderlyWorkerFrame
<1>9. ASSUME WebCrash PROVE Orderly(m)'
  <2>1. NoNewJob(m) /\ UNCHANGED <<worker, status>> /\ \A w \in WebThreads : web'[w] = WebIdle
    BY <1>9, TableQuiet DEF WebCrash
  <2> QED BY <1>2, <2>1 DEF InRequest, WebIdle
<1> QED BY <1>3, <1>4, <1>5, <1>6, <1>7, <1>8, <1>9 DEF Next, WebStep

LEMMA InitRounds == Init => RoundsInv
<1> SUFFICES ASSUME Init PROVE RoundsInv
  OBVIOUS
<1>1. JobIds = {} /\ worker = WorkerIdle /\ \A m : JobsOf(m) = {} /\ QueuedJobs(m) = {}
  BY DEF Init, JobIds, JobsOf, QueuedJobs
<1>2. \A w \in WebThreads : web[w] = WebIdle
  BY DEF Init
<1>3. \A m : ~InRequest(m) /\ ~WorkerOn(m)
  BY <1>1, <1>2 DEF InRequest, WorkerOn, WorkerIdle, WebIdle
<1> QED BY <1>1, <1>2, <1>3 DEF RoundsInv, Instants, Births, Orderly, WebIdle

LEMMA NextKeepsRounds ==
    ASSUME IndInv, OneRequestEach, RoundsInv, [Next]_vars
    PROVE  RoundsInv'
<1>1. CASE Next
  <2>1. Instants' /\ Births'
    BY <1>1, NextKeepsInstants, NextKeepsBirths DEF RoundsInv
  <2>2. ASSUME NEW m \in Messages, Unsplit(m)' PROVE Orderly(m)'
    <3>1. Unsplit(m) /\ Orderly(m)
      BY <1>1, <2>2, UnsplitBefore DEF RoundsInv
    <3> QED BY <1>1, <3>1, WorkerKeepsOrderly, OthersKeepOrderly DEF RoundsInv
  <2> QED BY <2>1, <2>2 DEF RoundsInv
<1>2. CASE UNCHANGED vars
  <2>1. UNCHANGED JobIds /\ \A m : UNCHANGED <<JobsOf(m), QueuedJobs(m), WorkerOn(m), InRequest(m)>>
    BY <1>2 DEF vars, JobIds, JobsOf, QueuedJobs, WorkerOn, WorkerMsg, InRequest
  <2> QED BY <1>2, <2>1 DEF vars, RoundsInv, Instants, Births, Orderly, Unsplit
<1> QED BY <1>1, <1>2

LEMMA RoundsInvariant == Spec /\ []OneRequestEach => []RoundsInv
BY InitRounds, NextKeepsRounds, Invariance, PTL DEF Spec

\* A round is never queued on top of another one that is still queued, for any
\* number of messages, interfaces and crashes, whatever the order of worker,
\* answers and requests, if no two requests send or retry the same message at
\* once and pacing has split no round of it.
THEOREM RoundsNotStacked == Spec /\ []OneRequestEach => []OneRoundQueued
<1>1. IndInv /\ RoundsInv => OneRoundQueued
  <2> SUFFICES ASSUME IndInv, RoundsInv, NEW m \in Messages, Unsplit(m),
                      NEW j \in QueuedJobs(m), NEW k \in QueuedJobs(m)
               PROVE  jobs[j].batch = jobs[k].batch
    BY DEF OneRoundQueued
  <2>1. jobs[j].batch <= jobs[k].batch /\ jobs[k].batch <= jobs[j].batch
    BY DEF RoundsInv, Orderly, QueuedJobs
  <2>2. jobs[j].batch \in Int /\ jobs[k].batch \in Int
    BY Parts DEF JobsOK, QueuedJobs, JobsOf
  <2> QED BY <2>1, <2>2
<1> QED BY <1>1, RoundsInvariant, Invariance, PTL

-----------------------------------------------------------------------------
(* Automatic retries are bounded.  Each automatic round was queued because *)
(* the round before it was sent, so there are at most as many of them as   *)
(* rounds sent; and the worker queues one more only while the rounds sent  *)
(* are fewer than MAX_TX_ATTEMPTS, for tx_attempt_count has counted them:  *)
(* all but the one it is about to count, and one for each crash.           *)

RoundsOf(m) == {jobs[j].batch : j \in JobsOf(m)}
SentRounds(m) == {jobs[j].batch : j \in {k \in JobsOf(m) : jobs[k].status = "sent"}}
AutoRounds(m) == {jobs[j].batch : j \in {k \in JobsOf(m) : ~jobs[k].manual}}

Retrying(m) == WorkerOn(m) /\ worker.pc \in {"checkRetry", "checkPending", "enqueueRetry"}
Uncounted(m) == IF worker.pc \in {"register", "update"} /\ WorkerMsg = m THEN 1 ELSE 0

Follows(m) ==
    \A a \in AutoRounds(m) : \E b \in SentRounds(m) :
      b < a /\ \A i \in RoundsOf(m) : ~(b < i /\ i < a)

Counted(m) ==
    /\ status[m] \in {"queued", "sent"} /\ attempts[m] > 0 =>
         Cardinality(SentRounds(m)) <= attempts[m] + crashes.core + Uncounted(m)
    /\ WorkerOn(m) /\ worker.pc = "update" =>
         worker.next >= 1 /\ worker.next >= Cardinality(SentRounds(m))

RoomForRetry(m) ==
    Retrying(m) =>
      /\ jobs[worker.job].batch \in SentRounds(m)
      /\ Exists(m) => attempts[m] \in 1 .. MAX_TX_ATTEMPTS - 1
      /\ worker.pc # "checkRetry" =>
           Cardinality(SentRounds(m)) < MAX_TX_ATTEMPTS + crashes.core

Frugal(m) ==
    /\ Follows(m) /\ Counted(m) /\ RoomForRetry(m)
    /\ AutomaticRounds(m) < MAX_TX_ATTEMPTS + crashes.core

SentInHand == worker.pc \in {"register", "update"} => jobs[worker.job].status = "sent"

RetriesInv == SentInHand /\ \A m \in Messages : Unsplit(m) => Frugal(m)

\* Numbers each of which directly follows one of S, among the numbers of B, are
\* no more than S has.
LEMMA EachFollowsAnother ==
    ASSUME NEW B \in SUBSET Nat, NEW A \in SUBSET B, NEW S \in SUBSET Nat, IsFiniteSet(S),
           \A a \in A : \E b \in S : b < a /\ \A i \in B : ~(b < i /\ i < a)
    PROVE  Cardinality(A) <= Cardinality(S)
<1> DEFINE Before(a, b) == b < a /\ \A i \in B : ~(b < i /\ i < a)
           f == [a \in A |-> CHOOSE b \in S : Before(a, b)]
<1>1. \A a \in A : f[a] \in S /\ Before(a, f[a])
  OBVIOUS
<1>2. ASSUME NEW x \in A, NEW y \in A, f[x] = f[y] PROVE x = y
  <2>1. x \in Nat /\ y \in Nat /\ x \in B /\ y \in B
    OBVIOUS
  <2>2. f[x] < x /\ f[x] < y /\ ~(f[x] < x /\ x < y) /\ ~(f[x] < y /\ y < x)
    BY <1>1, <1>2, <2>1
  <2> QED BY <2>1, <2>2
<1>3. f \in Injection(A, S)
  BY <1>1, <1>2 DEF Injection, IsInjective
<1> QED BY <1>3, FS_Injection

\* The rounds are finite sets of numbers that have been given out.
LEMMA RoundSets ==
    ASSUME IndInv, NEW m
    PROVE  /\ RoundsOf(m) \subseteq 1 .. lastId
           /\ SentRounds(m) \subseteq RoundsOf(m) /\ AutoRounds(m) \subseteq RoundsOf(m)
           /\ IsFiniteSet(SentRounds(m)) /\ Cardinality(SentRounds(m)) \in Nat
           /\ AutomaticRounds(m) = Cardinality(AutoRounds(m)) /\ AutomaticRounds(m) \in Nat
           /\ lastId \in Nat
<1>1. RoundsOf(m) \subseteq 1 .. lastId /\ lastId \in Nat
  BY Parts DEF JobsOK, RoundsOf, JobsOf
<1>2. SentRounds(m) \subseteq RoundsOf(m) /\ AutoRounds(m) \subseteq RoundsOf(m)
  BY DEF SentRounds, AutoRounds, RoundsOf
<1>3. IsFiniteSet(1 .. lastId)
  BY <1>1, FS_Interval
<1>4. IsFiniteSet(SentRounds(m)) /\ IsFiniteSet(AutoRounds(m))
  BY <1>1, <1>2, <1>3, FS_Subset
<1>5. AutomaticRounds(m) = Cardinality(AutoRounds(m))
  BY DEF AutomaticRounds, AutoRounds
<1> QED BY <1>1, <1>2, <1>4, <1>5, FS_CardinalityType

\* The count of the code, by instants, is at least the number of rounds sent.
LEMMA RoundCountCovers ==
    ASSUME IndInv, Instants, NEW m \in Messages, Unsplit(m)
    PROVE  RoundCount(m) >= Cardinality(SentRounds(m))
<1> DEFINE T == {jobs[j].scheduled_at :
                   j \in {k \in JobsOf(m) : jobs[k].status \in {"processing", "sent"}}}
           U == {jobs[j].scheduled_at : j \in {k \in JobsOf(m) : jobs[k].status = "sent"}}
           f == [t \in U |-> IF t < 0 THEN -t ELSE t]
<1>1. T \subseteq -lastId .. lastId /\ U \subseteq T
  BY Parts DEF JobsOK, JobsOf
<1>2. IsFiniteSet(-lastId .. lastId)
  BY Parts, FS_Interval DEF JobsOK
<1>3. IsFiniteSet(T) /\ IsFiniteSet(U) /\ Cardinality(U) <= Cardinality(T)
  BY <1>1, <1>2, FS_Subset
<1>4. ASSUME NEW j \in JobsOf(m) PROVE jobs[j].scheduled_at \in Int /\
        jobs[j].batch = IF jobs[j].scheduled_at < 0 THEN -jobs[j].scheduled_at
                        ELSE jobs[j].scheduled_at
  <2>1. jobs[j].batch \in 1 .. lastId /\ lastId \in Nat
    BY Parts DEF JobsOK, JobsOf
  <2>2. jobs[j].scheduled_at \in {jobs[j].batch, -jobs[j].batch}
    BY RoundTellsInstant
  <2> QED BY <2>1, <2>2
<1>5. f \in Surjection(U, SentRounds(m))
  BY <1>4 DEF Surjection, SentRounds
<1>6. Cardinality(SentRounds(m)) <= Cardinality(U)
  BY <1>3, <1>5, FS_Surjection
<1>7. Cardinality(SentRounds(m)) \in Nat /\ Cardinality(U) \in Nat /\ Cardinality(T) \in Nat
  BY <1>3, RoundSets, FS_CardinalityType
<1>8. RoundCount(m) = Cardinality(T)
  BY DEF RoundCount
<1> HIDE DEF T, U, f
<1> QED BY <1>3, <1>6, <1>7, <1>8

\* A step that sends nothing of m and adds no automatic round of it.
RoundsKept(m) ==
    /\ SentRounds(m)' = SentRounds(m)
    /\ AutoRounds(m)' = AutoRounds(m)
    /\ RoundsOf(m)' \subseteq RoundsOf(m) \cup {lastId + 1}

LEMMA KeepsRounds ==
    ASSUME IndInv, NEW m \in Messages
    PROVE  /\ UNCHANGED <<lastId, jobs>> => RoundsKept(m)
           /\ \A j \in JobIds :
                OneRow(j) /\ (jobs[j].msg = m => (jobs'[j].status = "sent" <=> jobs[j].status = "sent"))
                  => RoundsKept(m)
           /\ \A k \in Messages, n \in 1 .. MaxTncs, b \in BOOLEAN :
                InsertJobs(k, n, b) /\ (k = m => b) => RoundsKept(m)
<1>1. UNCHANGED <<lastId, jobs>> => RoundsKept(m)
  BY DEF RoundsKept, SentRounds, AutoRounds, RoundsOf, JobsOf, JobIds
<1>2. ASSUME NEW j \in JobIds, OneRow(j),
             jobs[j].msg = m => (jobs'[j].status = "sent" <=> jobs[j].status = "sent")
      PROVE  RoundsKept(m)
  <2>1. JobsOf(m)' = JobsOf(m)
    BY <1>2 DEF OneRow, SameRound, JobsOf
  <2>2. \A k \in JobsOf(m) : /\ jobs'[k].batch = jobs[k].batch /\ jobs'[k].manual = jobs[k].manual
                             /\ jobs'[k].status = "sent" <=> jobs[k].status = "sent"
    BY <1>2 DEF OneRow, SameRound, JobsOf
  <2> QED BY <2>1, <2>2 DEF RoundsKept, SentRounds, AutoRounds, RoundsOf
<1>3. ASSUME NEW k \in Messages, NEW n \in 1 .. MaxTncs, NEW b \in BOOLEAN, InsertJobs(k, n, b), k = m => b
      PROVE  RoundsKept(m)
  <2>1. /\ JobIds \subseteq JobIds'
        /\ \A j \in JobIds : jobs'[j] = jobs[j]
        /\ \A j \in JobIds' \ JobIds :
             /\ jobs'[j].status = "queued" /\ jobs'[j].batch = lastId + 1
             /\ jobs'[j].msg = m => jobs'[j].manual
    BY <1>3, InsertRows
  <2>2. JobsOf(m) \subseteq JobsOf(m)' /\ JobsOf(m)' \ JobsOf(m) \subseteq JobIds' \ JobIds
    BY <2>1 DEF JobsOf
  <2>3. \A j \in JobsOf(m)' : j \in JobsOf(m) \/ j \in JobIds' \ JobIds
    BY <2>2
  <2>4. SentRounds(m)' = SentRounds(m) /\ RoundsOf(m)' \subseteq RoundsOf(m) \cup {lastId + 1}
    BY <2>1, <2>2, <2>3 DEF SentRounds, RoundsOf, JobsOf
  <2>5. AutoRounds(m)' = AutoRounds(m)
    BY <2>1, <2>2, <2>3 DEF AutoRounds, JobsOf
  <2> QED BY <2>4, <2>5 DEF RoundsKept
<1> QED BY <1>1, <1>2, <1>3

\* A round that follows another one still does: new rounds come last.
LEMMA StillFollows ==
    ASSUME IndInv, NEW m \in Messages, RoundsKept(m), Follows(m)
    PROVE  Follows(m)'
<1>1. \A a \in AutoRounds(m) : a \in 1 .. lastId /\ lastId \in Nat
  BY RoundSets
<1>2. ASSUME NEW a \in AutoRounds(m)
      PROVE  \E b \in SentRounds(m) : b < a /\ \A i \in RoundsOf(m)' : ~(b < i /\ i < a)
  <2>1. PICK b \in SentRounds(m) : b < a /\ \A i \in RoundsOf(m) : ~(b < i /\ i < a)
    BY DEF Follows
  <2>2. ~(lastId + 1 < a)
    BY <1>1, <1>2
  <2> QED BY <2>1, <2>2 DEF RoundsKept
<1> QED BY <1>2 DEF Follows, RoundsKept

\* What has to hold after a step for the retries of m to stay bounded.
LEMMA FrugalNext ==
    ASSUME IndInv, Next, NEW m \in Messages, Frugal(m), RoundsKept(m),
           crashes'.core >= crashes.core, crashes'.core \in Nat,
           Retrying(m)' =>
             /\ worker.job \in JobIds /\ worker'.job = worker.job
             /\ jobs[worker.job].batch \in SentRounds(m)
             /\ Exists(m)' => attempts'[m] \in 1 .. MAX_TX_ATTEMPTS - 1
             /\ worker'.pc # "checkRetry" =>
                  Cardinality(SentRounds(m)) < MAX_TX_ATTEMPTS + crashes'.core,
           WorkerOn(m)' /\ worker'.pc = "update" =>
             worker'.next >= 1 /\ worker'.next >= Cardinality(SentRounds(m)),
           status'[m] \in {"queued", "sent"} /\ attempts'[m] > 0 =>
             Cardinality(SentRounds(m)) <= attempts'[m] + crashes'.core + Uncounted(m)'
    PROVE  Frugal(m)'
<1>1. Follows(m)'
  BY StillFollows DEF Frugal
<1>2. Counted(m)'
  BY DEF Counted, RoundsKept
<1>3. RoomForRetry(m)'
  <2>1. Retrying(m)' => jobs'[worker'.job].batch \in SentRounds(m)'
    BY RowsStay DEF RoundsKept, SameRound
  <2>2. Retrying(m)' =>
          /\ Exists(m)' => attempts'[m] \in 1 .. MAX_TX_ATTEMPTS - 1
          /\ worker'.pc # "checkRetry" =>
               Cardinality(SentRounds(m)') < MAX_TX_ATTEMPTS + crashes'.core
    BY DEF RoundsKept
  <2> QED BY <2>1, <2>2 DEF RoomForRetry
<1>4. AutomaticRounds(m)' < MAX_TX_ATTEMPTS + crashes'.core
  <2>1. AutomaticRounds(m)' = AutomaticRounds(m)
    BY DEF AutomaticRounds, AutoRounds, RoundsKept
  <2>2. AutomaticRounds(m) \in Nat /\ crashes.core \in Nat /\ MAX_TX_ATTEMPTS \in Nat
    BY RoundSets, Parts, ConstantsAssumption DEF RowsOK
  <2> QED BY <2>1, <2>2 DEF Frugal
<1> QED BY <1>1, <1>2, <1>3, <1>4 DEF Frugal

\* What a step has to leave alone for the retries of m to stay bounded.
LEMMA FrugalFrame ==
    ASSUME IndInv, Next, NEW m \in Messages, Frugal(m), RoundsKept(m),
           crashes'.core >= crashes.core, crashes'.core \in Nat,
           Retrying(m)' =>
             /\ Retrying(m) /\ worker'.job = worker.job
             /\ worker'.pc # "checkRetry" => worker.pc # "checkRetry"
             /\ Exists(m)' => Exists(m) /\ attempts'[m] = attempts[m],
           WorkerOn(m)' /\ worker'.pc = "update" => WorkerOn(m) /\ worker' = worker,
           status'[m] \in {"queued", "sent"} /\ attempts'[m] > 0 =>
             /\ status[m] \in {"queued", "sent"} /\ attempts'[m] = attempts[m]
             /\ crashes.core + Uncounted(m) <= crashes'.core + Uncounted(m)'
    PROVE  Frugal(m)'
<1>0. /\ crashes.core \in Nat /\ attempts[m] \in Nat /\ MAX_TX_ATTEMPTS \in Nat
      /\ Cardinality(SentRounds(m)) \in Nat
  BY Parts, RoundSets, ConstantsAssumption DEF RowsOK
<1>1. Uncounted(m) \in {0, 1} /\ Uncounted(m)' \in {0, 1}
  BY DEF Uncounted
<1>2. ASSUME status'[m] \in {"queued", "sent"}, attempts'[m] > 0
      PROVE  Cardinality(SentRounds(m)) <= attempts'[m] + crashes'.core + Uncounted(m)'
  <2>1. Cardinality(SentRounds(m)) <= attempts[m] + crashes.core + Uncounted(m)
    BY <1>2 DEF Frugal, Counted
  <2> QED BY <1>0, <1>1, <1>2, <2>1
<1>3. WorkerOn(m)' /\ worker'.pc = "update" =>
        worker'.next >= 1 /\ worker'.next >= Cardinality(SentRounds(m))
  BY DEF Frugal, Counted
<1>4. ASSUME Retrying(m)'
      PROVE  /\ worker.job \in JobIds /\ worker'.job = worker.job
             /\ jobs[worker.job].batch \in SentRounds(m)
             /\ Exists(m)' => attempts'[m] \in 1 .. MAX_TX_ATTEMPTS - 1
             /\ worker'.pc # "checkRetry" =>
                  Cardinality(SentRounds(m)) < MAX_TX_ATTEMPTS + crashes'.core
  <2>1. Retrying(m) /\ worker.job \in JobIds /\ worker'.job = worker.job
    BY <1>4, Parts DEF Retrying, WorkerOn, WorkerOK
  <2>2. jobs[worker.job].batch \in SentRounds(m)
    BY <2>1 DEF Frugal, RoomForRetry
  <2>3. Exists(m)' => attempts'[m] \in 1 .. MAX_TX_ATTEMPTS - 1
    BY <1>4, <2>1 DEF Frugal, RoomForRetry
  <2>4. worker'.pc # "checkRetry" =>
          Cardinality(SentRounds(m)) < MAX_TX_ATTEMPTS + crashes.core
    BY <1>4, <2>1 DEF Frugal, RoomForRetry
  <2>5. worker'.pc # "checkRetry" =>
          Cardinality(SentRounds(m)) < MAX_TX_ATTEMPTS + crashes'.core
    BY <1>0, <2>4
  <2> QED BY <2>1, <2>2, <2>3, <2>5
<1> QED BY <1>2, <1>3, <1>4, FrugalNext

\* Steps after which the worker is not with m.
LEMMA FrugalWithout ==
    ASSUME IndInv, Next, NEW m \in Messages, Frugal(m), RoundsKept(m), UNCHANGED crashes,
           ~WorkerOn(m)' \/ worker'.pc \in {"claimed", "transmitted", "exhausted", "markFailed"},
           status'[m] \in {"queued", "sent"} /\ attempts'[m] > 0 =>
             /\ status[m] \in {"queued", "sent"} /\ attempts'[m] = attempts[m]
             /\ Uncounted(m) = 0
    PROVE  Frugal(m)'
<1>1. crashes.core \in Nat /\ Uncounted(m)' \in {0, 1}
  BY Parts DEF RowsOK, Uncounted
<1>2. ~Retrying(m)' /\ ~(WorkerOn(m)' /\ worker'.pc = "update")
  BY DEF Retrying
<1>3. status'[m] \in {"queued", "sent"} /\ attempts'[m] > 0 =>
        /\ status[m] \in {"queued", "sent"} /\ attempts'[m] = attempts[m]
        /\ crashes.core + Uncounted(m) <= crashes'.core + Uncounted(m)'
  BY <1>1
<1> QED BY <1>1, <1>2, <1>3, FrugalFrame

\* A round of m goes out: it is one more, or one that was counted before.
LEMMA SentOneMore ==
    ASSUME IndInv, NEW m \in Messages, NEW j \in JobsOf(m), OneRow(j), jobs'[j].status = "sent",
           jobs[j].status # "sent", Follows(m)
    PROVE  /\ Cardinality(SentRounds(m)') <= Cardinality(SentRounds(m)) + 1
           /\ Cardinality(SentRounds(m)') \in Nat
           /\ Follows(m)' /\ AutomaticRounds(m)' = AutomaticRounds(m)
<1>1. JobsOf(m)' = JobsOf(m)
  BY DEF OneRow, SameRound, JobsOf
<1>2. \A k \in JobsOf(m) : /\ jobs'[k].batch = jobs[k].batch /\ jobs'[k].manual = jobs[k].manual
                           /\ k # j => jobs'[k].status = jobs[k].status
  BY DEF OneRow, SameRound, JobsOf
<1>3. SentRounds(m)' = SentRounds(m) \cup {jobs[j].batch}
  BY <1>1, <1>2 DEF SentRounds
<1>4. AutoRounds(m)' = AutoRounds(m) /\ RoundsOf(m)' = RoundsOf(m)
  BY <1>1, <1>2 DEF AutoRounds, RoundsOf
<1>5. AutomaticRounds(m)' = AutomaticRounds(m)
  BY <1>4 DEF AutomaticRounds, AutoRounds
<1>6. Follows(m)'
  BY <1>3, <1>4 DEF Follows
<1>7. IsFiniteSet(SentRounds(m)) /\ Cardinality(SentRounds(m)) \in Nat
  BY RoundSets
<1> DEFINE S == SentRounds(m)
           b == jobs[j].batch
<1>8. IsFiniteSet(S) /\ SentRounds(m)' = S \cup {b} /\ Cardinality(S) \in Nat
  BY <1>3, <1>7
<1> HIDE DEF S, b
<1>9. Cardinality(S \cup {b}) = IF b \in S THEN Cardinality(S) ELSE Cardinality(S) + 1
  BY <1>8, FS_AddElement
<1>10. Cardinality(SentRounds(m)') <= Cardinality(S) + 1 /\ Cardinality(SentRounds(m)') \in Nat
  BY <1>8, <1>9
<1> QED BY <1>5, <1>6, <1>10 DEF S

\* The worker queues a round: it follows the last one, which was sent.
LEMMA AutomaticOneMore ==
    ASSUME IndInv, NEW m \in Messages, WorkerOn(m), Orderly(m), Frugal(m),
           worker.pc = "enqueueRetry", NEW n \in 1 .. MaxTncs, InsertJobs(m, n, FALSE)
    PROVE  /\ Follows(m)' /\ SentRounds(m)' = SentRounds(m)
           /\ AutomaticRounds(m)' < MAX_TX_ATTEMPTS + crashes.core
<1> DEFINE last == jobs[worker.job].batch
<1>1. /\ lastId \in Nat /\ RoundsOf(m) \subseteq 1 .. lastId
      /\ SentRounds(m) \subseteq RoundsOf(m) /\ AutoRounds(m) \subseteq RoundsOf(m)
      /\ IsFiniteSet(SentRounds(m)) /\ Cardinality(SentRounds(m)) \in Nat
  BY RoundSets
<1>2. /\ JobIds \subseteq JobIds' /\ lastId + 1 \in JobIds' \ JobIds
      /\ \A j \in JobIds : jobs'[j] = jobs[j]
      /\ \A j \in JobIds' \ JobIds :
           /\ jobs'[j].status = "queued" /\ jobs'[j].batch = lastId + 1 /\ jobs'[j].msg = m
           /\ ~jobs'[j].manual
  BY InsertRows
<1>3. JobsOf(m)' = JobsOf(m) \cup (JobIds' \ JobIds)
  BY <1>2 DEF JobsOf
<1>4. SentRounds(m)' = SentRounds(m)
  BY <1>2, <1>3 DEF SentRounds, JobsOf
<1>5. RoundsOf(m)' = RoundsOf(m) \cup {lastId + 1}
  BY <1>2, <1>3 DEF RoundsOf, JobsOf
<1>6. AutoRounds(m)' = AutoRounds(m) \cup {lastId + 1}
  BY <1>2, <1>3 DEF AutoRounds, JobsOf
<1>7. last \in SentRounds(m) /\ Cardinality(SentRounds(m)) < MAX_TX_ATTEMPTS + crashes.core
  BY DEF Frugal, RoomForRetry, Retrying
<1>8. \A i \in RoundsOf(m) : i <= last
  BY DEF Orderly, RoundsOf
<1>9. last < lastId + 1 /\ \A i \in RoundsOf(m)' : ~(last < i /\ i < lastId + 1)
  <2>1. last \in 1 .. lastId
    BY <1>1, <1>7
  <2>2. ASSUME NEW i \in RoundsOf(m) PROVE ~(last < i)
    BY <1>1, <1>8, <2>1
  <2> HIDE DEF last
  <2> QED BY <1>1, <1>5, <2>1, <2>2
<1>10. ASSUME NEW a \in AutoRounds(m)
       PROVE  \E b \in SentRounds(m) : b < a /\ \A i \in RoundsOf(m)' : ~(b < i /\ i < a)
  <2>1. PICK b \in SentRounds(m) : b < a /\ \A i \in RoundsOf(m) : ~(b < i /\ i < a)
    BY DEF Frugal, Follows
  <2>2. ~(lastId + 1 < a)
    BY <1>1, <1>10
  <2> QED BY <1>5, <2>1, <2>2
<1> DEFINE A == AutoRounds(m)'
           B == RoundsOf(m)'
           S == SentRounds(m)
<1>11. \A a \in A : \E b \in S : b < a /\ \A i \in B : ~(b < i /\ i < a)
  BY <1>6, <1>7, <1>9, <1>10
<1>12. Follows(m)'
  BY <1>4, <1>11 DEF Follows
<1>13. B \in SUBSET Nat /\ A \in SUBSET B /\ S \in SUBSET Nat /\ IsFiniteSet(S)
  BY <1>1, <1>5, <1>6
<1>14. A \subseteq 1 .. lastId + 1
  BY <1>1, <1>6
<1>15. AutomaticRounds(m)' = Cardinality(A)
  BY DEF AutomaticRounds, AutoRounds
<1>16. Cardinality(S) \in Nat /\ Cardinality(S) < MAX_TX_ATTEMPTS + crashes.core
       /\ MAX_TX_ATTEMPTS \in Nat /\ crashes.core \in Nat
  BY <1>1, <1>7, Parts, ConstantsAssumption DEF RowsOK
<1> HIDE DEF A, B, S
<1>17. Cardinality(A) <= Cardinality(S)
  BY <1>11, <1>13, EachFollowsAnother
<1>18. IsFiniteSet(A) /\ Cardinality(A) \in Nat
  <2>1. IsFiniteSet(1 .. lastId + 1)
    BY <1>1, FS_Interval
  <2> QED BY <1>14, <2>1, FS_Subset, FS_CardinalityType
<1>19. AutomaticRounds(m)' < MAX_TX_ATTEMPTS + crashes.core
  BY <1>15, <1>16, <1>17, <1>18
<1> QED BY <1>4, <1>12, <1>19

LEMMA WorkerKeepsFrugal ==
    ASSUME IndInv, Instants, SentInHand, NEW m \in Messages, Unsplit(m), Orderly(m), Frugal(m),
           WorkerStep
    PROVE  Frugal(m)'
<1> USE DEF At
<1>0. RowsOK /\ JobsOK /\ WorkerOK /\ Next
  BY Parts DEF Next
<1>nat. /\ crashes.core \in Nat /\ attempts[m] \in Nat /\ MAX_TX_ATTEMPTS \in Nat
       /\ Cardinality(SentRounds(m)) \in Nat
  BY <1>0, RoundSets, ConstantsAssumption DEF RowsOK
<1>1. ASSUME NEW k \in Messages, ExpireDirectMessageTimeouts(k) PROVE Frugal(m)'
  <2>1. /\ RoundsKept(m) /\ UNCHANGED <<crashes, attempts, worker>> /\ Uncounted(m) = 0
        /\ ~WorkerOn(m)'
    BY <1>1, KeepsRounds DEF ExpireDirectMessageTimeouts, Uncounted, WorkerOn
  <2>2. status'[m] = status[m] \/ status'[m] = "failed"
    BY <1>0, <1>1 DEF ExpireDirectMessageTimeouts, RowsOK
  <2> QED BY <1>0, <2>1, <2>2, FrugalWithout
<1>2. ASSUME NEW j \in JobIds, Claim(j) PROVE Frugal(m)'
  <2>1. OneRow(j) /\ jobs'[j].status = "processing" /\ jobs[j].status = "queued"
    BY <1>2, ClaimRow DEF Claim, NextInLine
  <2>2. RoundsKept(m)
    BY <2>1, KeepsRounds
  <2>3. worker'.pc = "claimed" /\ UNCHANGED <<status, attempts, crashes>> /\ Uncounted(m) = 0
    BY <1>0, <1>2 DEF Claim, WorkerOK, Uncounted
  <2> QED BY <1>0, <2>2, <2>3, FrugalWithout
<1>3. ASSUME Reschedule PROVE Frugal(m)'
  <2>1. /\ worker.job \in JobIds /\ OneRow(worker.job) /\ jobs'[worker.job].status = "queued"
        /\ jobs[worker.job].status = "processing"
    BY <1>0, <1>3, RescheduleRow DEF Reschedule, WorkerOK
  <2>2. RoundsKept(m)
    BY <2>1, KeepsRounds
  <2>3. ~WorkerOn(m)' /\ UNCHANGED <<status, attempts, crashes>> /\ Uncounted(m) = 0
    BY <1>3 DEF Reschedule, WorkerOn, WorkerIdle, Uncounted
  <2> QED BY <1>0, <2>2, <2>3, FrugalWithout
<1>4. ASSUME Transmit \/ TransmitFails PROVE Frugal(m)'
  <2>1. RoundsKept(m)
    <3>1. CASE Transmit
      BY <3>1, KeepsRounds DEF Transmit
    <3>2. CASE TransmitFails
      <4>1. worker.job \in JobIds /\ jobs[worker.job].status = "processing"
        BY <1>0, <3>2 DEF TransmitFails, WorkerOK
      <4>2. OneRow(worker.job) /\ jobs'[worker.job].status = "failed"
        BY <3>2, <4>1, StatusRow DEF TransmitFails, JobStatus
      <4> QED BY <4>1, <4>2, KeepsRounds
    <3> QED BY <1>4, <3>1, <3>2
  <2>2. worker'.pc \in {"transmitted", "exhausted"}
    BY <1>0, <1>4 DEF Transmit, TransmitFails, Goto, WorkerOK
  <2>3. UNCHANGED <<status, attempts, crashes>> /\ Uncounted(m) = 0
    BY <1>4 DEF Transmit, TransmitFails, Uncounted
  <2> QED BY <1>0, <2>1, <2>2, <2>3, FrugalWithout
<1>5. ASSUME Skip \/ MarkSent PROVE Frugal(m)'
  <2>1. /\ worker.job \in JobIds /\ jobs[worker.job].status = "processing"
        /\ worker'.pc = "register" /\ worker'.job = worker.job
        /\ UNCHANGED <<status, attempts, crashes, lastId>> /\ SetJobStatus(worker.job, "sent")
        /\ worker.pc \in {"claimed", "transmitted"}
    BY <1>0, <1>5 DEF Skip, MarkSent, Goto, WorkerOK
  <2>2. OneRow(worker.job) /\ jobs'[worker.job].status = "sent"
    BY <2>1, StatusRow DEF JobStatus
  <2>3. Uncounted(m) = 0
    BY <2>1 DEF Uncounted
  <2>4. CASE WorkerMsg # m
    <3>1. RoundsKept(m)
      BY <2>1, <2>2, <2>4, KeepsRounds DEF WorkerMsg
    <3>2. ~WorkerOn(m)'
      BY <2>1, <2>2, <2>4 DEF WorkerOn, WorkerMsg, OneRow, SameRound
    <3> QED BY <1>0, <2>1, <2>3, <3>1, <3>2, FrugalWithout
  <2>5. CASE WorkerMsg = m
    <3>1. worker.job \in JobsOf(m)
      BY <2>1, <2>5 DEF JobsOf, WorkerMsg
    <3>2. /\ Cardinality(SentRounds(m)') <= Cardinality(SentRounds(m)) + 1
          /\ Cardinality(SentRounds(m)') \in Nat
          /\ Follows(m)' /\ AutomaticRounds(m)' = AutomaticRounds(m)
      BY <2>1, <2>2, <3>1, SentOneMore DEF Frugal
    <3>3. Uncounted(m)' = 1
      BY <2>1, <2>2, <2>5 DEF Uncounted, WorkerMsg, OneRow, SameRound
    <3>4. Counted(m)'
      <4>1. status'[m] \in {"queued", "sent"} /\ attempts'[m] > 0 =>
              Cardinality(SentRounds(m)) <= attempts[m] + crashes.core
        BY <2>1, <2>3, <1>nat DEF Frugal, Counted
      <4>2. status'[m] \in {"queued", "sent"} /\ attempts'[m] > 0 =>
              Cardinality(SentRounds(m)') <= attempts'[m] + crashes'.core + Uncounted(m)'
        BY <1>nat, <2>1, <3>2, <3>3, <4>1
      <4> QED BY <2>1, <4>2 DEF Counted
    <3>5. RoomForRetry(m)'
      BY <2>1 DEF RoomForRetry, Retrying
    <3>6. AutomaticRounds(m)' < MAX_TX_ATTEMPTS + crashes'.core
      BY <2>1, <3>2 DEF Frugal
    <3> QED BY <3>2, <3>4, <3>5, <3>6 DEF Frugal
  <2> QED BY <2>4, <2>5
<1>6. ASSUME Register PROVE Frugal(m)'
  <2>1. /\ RoundsKept(m) /\ UNCHANGED <<status, attempts, crashes, jobs>>
        /\ worker.job \in JobIds /\ worker.pc = "register"
    BY <1>0, <1>6, KeepsRounds DEF Register, WorkerOK
  <2>2. \/ worker' = WorkerIdle /\ status[WorkerMsg] \notin {"queued", "sent"}
        \/ /\ worker'.pc = "update" /\ worker'.job = worker.job
           /\ worker'.next = IF attempts[WorkerMsg] >= RoundCount(WorkerMsg)
                             THEN attempts[WorkerMsg] ELSE RoundCount(WorkerMsg)
    BY <1>0, <1>6 DEF Register, WorkerOK
  <2>3. CASE WorkerMsg # m
    <3>1. Uncounted(m) = 0 /\ ~WorkerOn(m)'
      BY <2>1, <2>2, <2>3 DEF Uncounted, WorkerOn, WorkerMsg, WorkerIdle
    <3> QED BY <1>0, <2>1, <3>1, FrugalWithout
  <2>4. CASE WorkerMsg = m /\ worker' = WorkerIdle
    <3>1. ~WorkerOn(m)' /\ status[m] \notin {"queued", "sent"}
      BY <2>2, <2>4 DEF WorkerOn, WorkerIdle
    <3> QED BY <1>0, <2>1, <3>1, FrugalWithout
  <2>5. CASE WorkerMsg = m /\ worker' # WorkerIdle
    <3>1. /\ worker'.pc = "update" /\ Uncounted(m) = 1 /\ Uncounted(m)' = 1
      BY <2>1, <2>2, <2>5 DEF Uncounted, WorkerMsg
    <3>2. RoundCount(m) >= Cardinality(SentRounds(m)) /\ RoundCount(m) \in Nat
      BY RoundCountCovers, RoundCountType
    <3>3. Cardinality(SentRounds(m)) >= 1
      <4>1. jobs[worker.job].batch \in SentRounds(m)
        BY <2>1, <2>5 DEF SentInHand, SentRounds, JobsOf, WorkerMsg
      <4>2. Cardinality(SentRounds(m)) # 0
        BY <4>1, RoundSets, FS_EmptySet
      <4> QED BY <1>nat, <4>2
    <3>4. worker'.next >= 1 /\ worker'.next >= Cardinality(SentRounds(m))
      <4>1. worker'.next = IF attempts[m] >= RoundCount(m) THEN attempts[m] ELSE RoundCount(m)
        BY <2>2, <2>5
      <4> QED BY <1>nat, <3>2, <3>3, <4>1
    <3>5. ~Retrying(m)'
      BY <3>1 DEF Retrying
    <3>6. status'[m] \in {"queued", "sent"} /\ attempts'[m] > 0 =>
            Cardinality(SentRounds(m)) <= attempts'[m] + crashes'.core + Uncounted(m)'
      BY <2>1, <3>1 DEF Frugal, Counted
    <3> QED BY <1>0, <1>nat, <2>1, <3>4, <3>5, <3>6, FrugalNext
  <2> QED BY <2>3, <2>4, <2>5
<1>7. ASSUME Update PROVE Frugal(m)'
  <2>1. /\ RoundsKept(m) /\ UNCHANGED <<crashes, jobs>> /\ worker.job \in JobIds
        /\ worker.pc = "update" /\ worker.next \in Nat
    BY <1>0, <1>7, KeepsRounds DEF Update, WorkerOK
  <2>2. \/ worker' = WorkerIdle
        \/ worker'.pc = "checkRetry" /\ worker'.job = worker.job /\ worker.next < MAX_TX_ATTEMPTS
    BY <1>0, <1>7 DEF Update, WorkerOK
  <2>3. CASE WorkerMsg # m
    <3>1. Uncounted(m) = 0 /\ ~WorkerOn(m)'
      BY <2>1, <2>2, <2>3 DEF Uncounted, WorkerOn, WorkerMsg, WorkerIdle
    <3>2. status'[m] = status[m] /\ attempts'[m] = attempts[m]
      BY <1>0, <1>7, <2>3 DEF Update, SetStatus, RowsOK
    <3> QED BY <1>0, <2>1, <3>1, <3>2, FrugalWithout
  <2>4. CASE WorkerMsg = m
    <3>1. /\ worker.next >= 1 /\ worker.next >= Cardinality(SentRounds(m))
      BY <2>1, <2>4 DEF Frugal, Counted, WorkerOn
    <3>2. \/ Exists(m) /\ attempts'[m] = worker.next
          \/ ~Exists(m) /\ status'[m] \in {"none", "deleted"}
      BY <1>0, <1>7, <2>4 DEF Update, SetStatus, RowsOK, Exists
    <3>3. jobs[worker.job].batch \in SentRounds(m)
      BY <2>1, <2>4 DEF SentInHand, SentRounds, JobsOf, WorkerMsg
    <3>4. Uncounted(m)' = 0
      BY <2>2 DEF Uncounted, WorkerIdle
    <3>5. ~(WorkerOn(m)' /\ worker'.pc = "update")
      BY <2>2 DEF WorkerIdle
    <3>6. status'[m] \in {"queued", "sent"} /\ attempts'[m] > 0 =>
            Cardinality(SentRounds(m)) <= attempts'[m] + crashes'.core + Uncounted(m)'
      BY <1>nat, <2>1, <3>1, <3>2, <3>4
    <3>7. Retrying(m)' =>
            /\ worker'.pc = "checkRetry" /\ worker'.job = worker.job
            /\ Exists(m)' => attempts'[m] \in 1 .. MAX_TX_ATTEMPTS - 1
      <4>1. Retrying(m)' => worker'.pc = "checkRetry" /\ worker'.job = worker.job
                            /\ worker.next < MAX_TX_ATTEMPTS
        BY <2>2 DEF Retrying, WorkerOn, WorkerIdle
      <4>2. Exists(m)' => attempts'[m] = worker.next
        BY <3>2 DEF Exists
      <4> QED BY <1>nat, <2>1, <3>1, <4>1, <4>2
    <3> QED BY <1>0, <1>nat, <2>1, <3>3, <3>5, <3>6, <3>7, FrugalNext
  <2> QED BY <2>3, <2>4
<1>8. ASSUME CheckRetry PROVE Frugal(m)'
  <2>1. /\ RoundsKept(m) /\ UNCHANGED <<status, attempts, crashes, jobs>>
        /\ worker.job \in JobIds /\ worker.pc = "checkRetry" /\ Uncounted(m) = 0
    BY <1>0, <1>8, KeepsRounds DEF CheckRetry, WorkerOK, Uncounted
  <2>2. \/ worker' = WorkerIdle
        \/ /\ worker'.pc = "checkPending" /\ worker'.job = worker.job
           /\ status[WorkerMsg] \in {"queued", "sent"}
    BY <1>0, <1>8 DEF CheckRetry, WorkerOK
  <2>3. CASE WorkerMsg # m \/ worker' = WorkerIdle
    <3>1. ~WorkerOn(m)'
      BY <2>1, <2>2, <2>3 DEF WorkerOn, WorkerMsg, WorkerIdle
    <3> QED BY <1>0, <2>1, <3>1, FrugalWithout
  <2>4. CASE WorkerMsg = m /\ worker' # WorkerIdle
    <3>1. Retrying(m) /\ Exists(m) /\ status[m] \in {"queued", "sent"}
      BY <2>1, <2>2, <2>4 DEF Retrying, WorkerOn, Exists
    <3>2. attempts[m] \in 1 .. MAX_TX_ATTEMPTS - 1 /\ jobs[worker.job].batch \in SentRounds(m)
      BY <3>1 DEF Frugal, RoomForRetry
    <3>3. Cardinality(SentRounds(m)) <= attempts[m] + crashes.core
      BY <1>nat, <2>1, <3>1, <3>2 DEF Frugal, Counted
    <3>4. Cardinality(SentRounds(m)) < MAX_TX_ATTEMPTS + crashes.core
      BY <1>nat, <3>2, <3>3
    <3>5. Uncounted(m)' = 0 /\ worker'.pc = "checkPending"
      BY <2>2, <2>4 DEF Uncounted
    <3>6. status'[m] \in {"queued", "sent"} /\ attempts'[m] > 0 =>
            Cardinality(SentRounds(m)) <= attempts'[m] + crashes'.core + Uncounted(m)'
      BY <1>nat, <2>1, <3>3, <3>5
    <3>7. worker'.job = worker.job /\ crashes'.core >= crashes.core /\ crashes'.core \in Nat
      BY <1>nat, <2>1, <2>2, <2>4
    <3>8. Retrying(m)' =>
             /\ worker.job \in JobIds /\ worker'.job = worker.job
             /\ jobs[worker.job].batch \in SentRounds(m)
             /\ Exists(m)' => attempts'[m] \in 1 .. MAX_TX_ATTEMPTS - 1
             /\ worker'.pc # "checkRetry" =>
                  Cardinality(SentRounds(m)) < MAX_TX_ATTEMPTS + crashes'.core
      BY <2>1, <3>2, <3>4, <3>7
    <3> QED BY <1>0, <2>1, <3>5, <3>6, <3>7, <3>8, FrugalNext
  <2> QED BY <2>3, <2>4
<1>9. ASSUME CheckPending PROVE Frugal(m)'
  <2>1. /\ RoundsKept(m) /\ UNCHANGED <<status, attempts, crashes, jobs>>
        /\ worker.job \in JobIds /\ worker.pc = "checkPending" /\ Uncounted(m) = 0
    BY <1>0, <1>9, KeepsRounds DEF CheckPending, WorkerOK, Uncounted
  <2>2. \/ worker' = WorkerIdle
        \/ worker'.pc = "enqueueRetry" /\ worker'.job = worker.job
    BY <1>0, <1>9 DEF CheckPending, WorkerOK
  <2>3. Uncounted(m)' = 0 /\ ~(WorkerOn(m)' /\ worker'.pc = "update")
    BY <2>2 DEF Uncounted, WorkerIdle
  <2>4. Retrying(m)' => Retrying(m) /\ worker'.job = worker.job
    BY <2>1, <2>2 DEF Retrying, WorkerOn, WorkerMsg, WorkerIdle
  <2>5. (Exists(m)' <=> Exists(m)) /\ crashes'.core \in Nat /\ crashes'.core >= crashes.core
    BY <1>nat, <2>1 DEF Exists
  <2> QED BY <1>0, <2>1, <2>3, <2>4, <2>5, FrugalFrame
<1>10. ASSUME EnqueueRetry \/ FailMessage PROVE Frugal(m)'
  <2>1. /\ worker' = WorkerIdle /\ worker.pc \in {"enqueueRetry", "markFailed"}
        /\ UNCHANGED <<attempts, crashes>> /\ WorkerMsg \in Messages
    BY <1>0, <1>10 DEF EnqueueRetry, FailMessage, WorkerOK, JobsOK, WorkerMsg, Job
  <2>2. ~WorkerOn(m)' /\ Uncounted(m) = 0 /\ Uncounted(m)' = 0
    BY <2>1 DEF WorkerOn, WorkerIdle, Uncounted
  <2>3. status'[m] = status[m] \/ status'[m] = "failed"
    BY <1>0, <1>10, <2>1 DEF EnqueueRetry, FailMessage, MarkMessageFailed, RowsOK
  <2>4. CASE RoundsKept(m)
    BY <1>0, <2>1, <2>2, <2>3, <2>4, FrugalWithout
  <2>5. ASSUME NEW n \in 1 .. MaxTncs, InsertJobs(WorkerMsg, n, FALSE), UNCHANGED status,
               worker.pc = "enqueueRetry"
        PROVE  Frugal(m)'
    <3>1. CASE WorkerMsg # m
      <4>1. RoundsKept(m)
        BY <2>1, <2>5, <3>1, KeepsRounds
      <4> QED BY <2>4, <4>1
    <3>2. CASE WorkerMsg = m
      <4>1. WorkerOn(m) /\ InsertJobs(m, n, FALSE)
        BY <2>5, <3>2 DEF WorkerOn
      <4>2. /\ Follows(m)' /\ SentRounds(m)' = SentRounds(m)
            /\ AutomaticRounds(m)' < MAX_TX_ATTEMPTS + crashes.core
        BY <2>5, <4>1, AutomaticOneMore
      <4>3. Counted(m)'
        BY <2>1, <2>2, <2>5, <4>2 DEF Frugal, Counted
      <4>4. RoomForRetry(m)'
        BY <2>2 DEF RoomForRetry, Retrying
      <4> QED BY <2>1, <4>2, <4>3, <4>4 DEF Frugal
    <3> QED BY <3>1, <3>2
  <2>6. ASSUME UNCHANGED <<lastId, jobs>> PROVE RoundsKept(m)
    BY <2>6, KeepsRounds
  <2> QED BY <1>10, <2>4, <2>5, <2>6 DEF EnqueueRetry, FailMessage
<1>11. ASSUME RoundExhausted PROVE Frugal(m)'
  <2>1. /\ RoundsKept(m) /\ UNCHANGED <<status, attempts, crashes, jobs>>
        /\ worker.job \in JobIds /\ worker.pc = "exhausted" /\ Uncounted(m) = 0
    BY <1>0, <1>11, KeepsRounds DEF RoundExhausted, WorkerOK, Uncounted
  <2>2. \/ worker' = WorkerIdle
        \/ worker'.pc = "markFailed"
        \/ /\ worker'.pc = "checkRetry" /\ worker'.job = worker.job
           /\ \E j \in Round : jobs[j].status = "sent"
           /\ attempts[WorkerMsg] \in 1 .. MAX_TX_ATTEMPTS - 1
    BY <1>0, <1>11 DEF RoundExhausted, WorkerOK
  <2>3. CASE ~WorkerOn(m)' \/ worker'.pc = "markFailed"
    BY <1>0, <2>1, <2>3, FrugalWithout
  <2>4. CASE WorkerOn(m)' /\ worker'.pc # "markFailed"
    <3>1. /\ worker'.pc = "checkRetry" /\ worker'.job = worker.job /\ WorkerMsg = m
          /\ Uncounted(m)' = 0
      BY <2>1, <2>2, <2>4 DEF WorkerOn, WorkerMsg, WorkerIdle, Uncounted
    <3>2. PICK j \in Round : jobs[j].status = "sent"
      BY <2>2, <3>1 DEF WorkerIdle
    <3>3. j \in JobIds /\ jobs[j].msg = m /\ jobs[j].batch = jobs[worker.job].batch
      BY <2>1, <3>1, <3>2, InstantTellsRound DEF Round, JobsOf
    <3>4. jobs[worker.job].batch \in SentRounds(m)
      BY <3>2, <3>3 DEF SentRounds, JobsOf
    <3>5. attempts[m] \in 1 .. MAX_TX_ATTEMPTS - 1
      BY <2>2, <3>1 DEF WorkerIdle
    <3>6. status'[m] \in {"queued", "sent"} /\ attempts'[m] > 0 =>
            Cardinality(SentRounds(m)) <= attempts'[m] + crashes'.core + Uncounted(m)'
      BY <2>1, <3>1 DEF Frugal, Counted
    <3>7. crashes'.core >= crashes.core /\ crashes'.core \in Nat
      BY <1>nat, <2>1
    <3>8. Retrying(m)' =>
             /\ worker.job \in JobIds /\ worker'.job = worker.job
             /\ jobs[worker.job].batch \in SentRounds(m)
             /\ Exists(m)' => attempts'[m] \in 1 .. MAX_TX_ATTEMPTS - 1
             /\ worker'.pc # "checkRetry" =>
                  Cardinality(SentRounds(m)) < MAX_TX_ATTEMPTS + crashes'.core
      BY <2>1, <3>1, <3>4, <3>5
    <3> QED BY <1>0, <2>1, <3>1, <3>6, <3>7, <3>8, FrugalNext
  <2> QED BY <2>3, <2>4
<1> QED BY <1>1, <1>2, <1>3, <1>4, <1>5, <1>6, <1>7, <1>8, <1>9, <1>10, <1>11 DEF WorkerStep

\* Steps that leave the worker alone.
LEMMA FrugalAside ==
    ASSUME IndInv, Next, NEW m \in Messages, Frugal(m), RoundsKept(m), UNCHANGED <<worker, crashes>>,
           \/ attempts'[m] = attempts[m]
           \/ attempts'[m] = 0 /\ ~WorkerOn(m),
           status'[m] = status[m] \/ status'[m] \in {"acked", "rejected", "failed", "deleted"}
             \/ attempts'[m] = 0,
           Exists(m)' => Exists(m) \/ ~WorkerOn(m)
    PROVE  Frugal(m)'
<1>1. WorkerOn(m)' => WorkerOn(m)
  BY WorkerStays, Parts DEF WorkerOn, WorkerOK
<1>2. Uncounted(m)' = Uncounted(m)
  <2>1. worker.pc \in {"register", "update"} => worker.job \in JobIds
    BY Parts DEF WorkerOK
  <2> QED BY <2>1, RowsStay DEF Uncounted, WorkerMsg, SameRound
<1>3. crashes.core \in Nat /\ Uncounted(m) \in {0, 1}
  BY Parts DEF RowsOK, Uncounted
<1>4. Retrying(m)' => /\ Retrying(m)
                      /\ Exists(m)' => Exists(m) /\ attempts'[m] = attempts[m]
  BY <1>1 DEF Retrying, WorkerOn
<1>5. status'[m] \in {"queued", "sent"} /\ attempts'[m] > 0 =>
        /\ status[m] \in {"queued", "sent"} /\ attempts'[m] = attempts[m]
        /\ crashes.core + Uncounted(m) <= crashes'.core + Uncounted(m)'
  BY <1>2, <1>3
<1>6. WorkerOn(m)' /\ worker'.pc = "update" => WorkerOn(m)
  BY <1>1
<1> QED BY <1>3, <1>4, <1>5, <1>6, FrugalFrame

LEMMA OthersKeepFrugal ==
    ASSUME IndInv, Births, Next, ~WorkerStep, NEW m \in Messages, Orderly(m), Frugal(m)
    PROVE  Frugal(m)'
<1>0. RowsOK /\ JobsOK /\ RxOK /\ WebOK
  BY Parts
<1>nat. /\ crashes.core \in Nat /\ attempts[m] \in Nat /\ MAX_TX_ATTEMPTS \in Nat
        /\ Cardinality(SentRounds(m)) \in Nat
  BY <1>0, RoundSets, ConstantsAssumption DEF RowsOK
<1>cancel. ASSUME NEW j \in JobIds, CancelJob(j), UNCHANGED lastId PROVE RoundsKept(m)
  BY <1>cancel, CancelRow, KeepsRounds
<1>1. ASSUME NEW r \in Receivers, NEW k \in Messages, NEW v \in {"acked", "rejected"}, RxFind(r, k, v)
      PROVE  Frugal(m)'
  BY <1>1, KeepsRounds, FrugalAside DEF RxFind, Exists
<1>2. ASSUME NEW r \in Receivers, RxStep(r) PROVE Frugal(m)'
  <2>1. CASE RxSelect(r)
    BY <2>1, KeepsRounds, FrugalAside DEF RxSelect, Exists
  <2>2. CASE RxCancel(r)
    <3>1. RoundsKept(m)
      BY <1>0, <2>2, <1>cancel DEF RxCancel, RxOK
    <3> QED BY <2>2, <3>1, FrugalAside DEF RxCancel, Exists
  <2>3. CASE RxSettle(r)
    <3>1. \/ status'[m] = status[m]
          \/ status'[m] \in {"acked", "rejected"} /\ Exists(m)
      BY <1>0, <2>3 DEF RxSettle, SetStatus, RowsOK, RxOK
    <3> QED BY <2>3, <3>1, KeepsRounds, FrugalAside DEF RxSettle, Exists
  <2> QED BY <1>2, <2>1, <2>2, <2>3 DEF RxStep
<1>3. ASSUME NEW w \in WebThreads, NEW k \in Messages, StartRetry(w, k) \/ StartDelete(w, k)
      PROVE  Frugal(m)'
  <2>1. RoundsKept(m) /\ UNCHANGED <<worker, crashes, attempts, status>>
    BY <1>3, KeepsRounds DEF StartRetry, StartDelete
  <2> QED BY <2>1, FrugalAside DEF Exists
<1>4. ASSUME NEW w \in WebThreads, NEW k \in Messages, Send(w, k) PROVE Frugal(m)'
  <2>1. RoundsKept(m) /\ UNCHANGED <<worker, crashes, attempts>>
    BY <1>4, KeepsRounds DEF Send
  <2>2. CASE k # m
    <3>1. status'[m] = status[m]
      BY <1>0, <1>4, <2>2 DEF Send, RowsOK
    <3> QED BY <2>1, <3>1, FrugalAside DEF Exists
  <2>3. CASE k = m
    <3>1. status[m] = "none" /\ JobsOf(m) = {} /\ ~WorkerOn(m)
      BY <1>4, <2>3 DEF Send, Births, Orderly
    <3>2. SentRounds(m) = {} /\ Cardinality(SentRounds(m)) = 0
      BY <3>1, FS_EmptySet DEF SentRounds
    <3>3. ~WorkerOn(m)' /\ ~Retrying(m)' /\ Uncounted(m)' \in {0, 1}
      <4>1. ~WorkerOn(m)'
        BY <2>1, <3>1, WorkerStays, Parts DEF WorkerOn, WorkerOK
      <4> QED BY <4>1 DEF Retrying, Uncounted
    <3>4. status'[m] \in {"queued", "sent"} /\ attempts'[m] > 0 =>
            Cardinality(SentRounds(m)) <= attempts'[m] + crashes'.core + Uncounted(m)'
      BY <1>nat, <2>1, <3>2, <3>3
    <3> QED BY <1>nat, <2>1, <3>3, <3>4, FrugalNext
  <2> QED BY <2>2, <2>3
<1>5. ASSUME NEW w \in WebThreads, WebSelect(w) \/ WebCancel(w) PROVE Frugal(m)'
  <2>1. RoundsKept(m) /\ UNCHANGED <<worker, crashes, attempts, status>>
    <3>1. CASE WebSelect(w)
      BY <3>1, KeepsRounds DEF WebSelect
    <3>2. CASE WebCancel(w)
      <4>1. RoundsKept(m)
        BY <1>0, <3>2, <1>cancel DEF WebCancel, WebOK
      <4> QED BY <3>2, <4>1 DEF WebCancel
    <3> QED BY <1>5, <3>1, <3>2
  <2> QED BY <2>1, FrugalAside DEF Exists
<1>6. ASSUME NEW w \in WebThreads, Requeue(w) PROVE Frugal(m)'
  <2>1. /\ RoundsKept(m) /\ UNCHANGED <<worker, crashes>> /\ web[w].msg \in Messages
        /\ web[w].op = "retry"
    BY <1>0, <1>6, KeepsRounds DEF Requeue, WebOK
  <2>2. CASE web[w].msg = m /\ Exists(m)
    <3>1. ~WorkerOn(m)
      BY <2>1, <2>2 DEF Orderly, InRequest
    <3>2. attempts'[m] = 0
      BY <1>0, <1>6, <2>2 DEF Requeue, RowsOK
    <3> QED BY <2>1, <3>1, <3>2, FrugalAside
  <2>3. CASE web[w].msg # m \/ ~Exists(m)
    <3>1. status'[m] = status[m] /\ attempts'[m] = attempts[m]
      BY <1>0, <1>6, <2>1, <2>3 DEF Requeue, SetStatus, RowsOK
    <3> QED BY <2>1, <3>1, FrugalAside DEF Exists
  <2> QED BY <2>2, <2>3
<1>7. ASSUME NEW w \in WebThreads, Erase(w) PROVE Frugal(m)'
  <2>1. RoundsKept(m) /\ UNCHANGED <<worker, crashes, attempts>>
    BY <1>7, KeepsRounds DEF Erase
  <2>2. status'[m] = status[m] \/ status'[m] = "deleted"
    BY <1>0, <1>7 DEF Erase, SetStatus, RowsOK, WebOK
  <2> QED BY <2>1, <2>2, FrugalAside DEF Exists
<1>8. ASSUME NEW w \in WebThreads, WebEnqueue(w) PROVE Frugal(m)'
  <2>1. UNCHANGED <<worker, crashes, attempts>> /\ web[w].msg \in Messages
    BY <1>0, <1>8 DEF WebEnqueue, WebOK
  <2>2. RoundsKept(m)
    BY <1>8, <2>1, KeepsRounds DEF WebEnqueue
  <2>3. status'[m] = status[m] \/ (status'[m] = "failed" /\ Exists(m))
    BY <1>0, <1>8 DEF WebEnqueue, MarkMessageFailed, RowsOK, Exists
  <2> QED BY <2>1, <2>2, <2>3, FrugalAside DEF Exists
<1>9. ASSUME CoreCrash PROVE Frugal(m)'
  <2>1. /\ RoundsKept(m) /\ UNCHANGED <<status, attempts>> /\ ~WorkerOn(m)'
        /\ crashes'.core = crashes.core + 1
    BY <1>0, <1>9, KeepsRounds DEF CoreCrash, WorkerOn, WorkerDown, RowsOK
  <2>2. ~Retrying(m)' /\ Uncounted(m) \in {0, 1} /\ Uncounted(m)' \in {0, 1}
    BY <2>1 DEF Retrying, Uncounted
  <2>3. crashes.core + Uncounted(m) <= crashes'.core + Uncounted(m)'
        /\ crashes'.core >= crashes.core /\ crashes'.core \in Nat
    BY <1>nat, <2>1, <2>2
  <2> QED BY <2>1, <2>2, <2>3, FrugalFrame
<1>10. ASSUME CoreRestart PROVE Frugal(m)'
  <2>1. /\ RoundsKept(m) /\ UNCHANGED <<status, attempts, crashes>> /\ ~WorkerOn(m)'
        /\ Uncounted(m) = 0
    BY <1>10, KeepsRounds DEF CoreRestart, WorkerOn, WorkerIdle, Uncounted
  <2> QED BY <2>1, FrugalWithout
<1>11. ASSUME WebCrash PROVE Frugal(m)'
  <2>1. RoundsKept(m) /\ UNCHANGED <<status, attempts, worker>> /\ crashes'.core = crashes.core
    BY <1>0, <1>11, KeepsRounds DEF WebCrash, RowsOK
  <2>2. WorkerOn(m)' => WorkerOn(m)
    BY <2>1, WorkerStays, Parts DEF WorkerOn, WorkerOK
  <2>3. Uncounted(m)' = Uncounted(m) /\ Uncounted(m) \in {0, 1}
    BY <1>11 DEF WebCrash, Uncounted, WorkerMsg
  <2>4. /\ Retrying(m)' => Retrying(m)
        /\ Exists(m)' <=> Exists(m)
        /\ crashes'.core >= crashes.core /\ crashes'.core \in Nat
        /\ crashes.core + Uncounted(m) <= crashes'.core + Uncounted(m)'
    BY <1>nat, <2>1, <2>2, <2>3 DEF Retrying, Exists
  <2> QED BY <2>1, <2>2, <2>4, FrugalFrame
<1> QED BY <1>1, <1>2, <1>3, <1>4, <1>5, <1>6, <1>7, <1>8, <1>9, <1>10, <1>11 DEF Next, WebStep

\* A job is closed as sent before its message is counted, and stays so.
LEMMA NextKeepsSentInHand == ASSUME IndInv, SentInHand, Next PROVE SentInHand'
<1>0. JobsOK /\ WorkerOK /\ RxOK /\ WebOK
  BY Parts
<1>1. ASSUME Skip \/ MarkSent PROVE SentInHand'
  <2>1. worker.job \in JobIds /\ worker'.job = worker.job
    BY <1>0, <1>1 DEF Skip, MarkSent, Goto, WorkerOK, At
  <2> QED BY <1>1, <2>1, StatusRow DEF Skip, MarkSent, JobStatus, SentInHand
<1>2. ASSUME Register PROVE SentInHand'
  BY <1>0, <1>2 DEF Register, SentInHand, WorkerIdle, WorkerOK, At
<1>3. ASSUME WorkerStep, ~Skip, ~MarkSent, ~Register PROVE SentInHand'
  <2>1. worker'.pc \notin {"register", "update"}
    <3>1. CASE (\E m \in Messages : ExpireDirectMessageTimeouts(m)) \/ \E j \in JobIds : Claim(j)
      BY <1>0, <3>1 DEF ExpireDirectMessageTimeouts, Claim, WorkerOK, At
    <3>2. CASE Reschedule \/ Transmit \/ TransmitFails
      BY <1>0, <3>2 DEF Reschedule, Transmit, TransmitFails, Goto, WorkerOK, WorkerIdle
    <3>3. CASE Update \/ CheckRetry \/ CheckPending
      BY <1>0, <3>3 DEF Update, CheckRetry, CheckPending, WorkerOK, WorkerIdle
    <3>4. CASE EnqueueRetry
      BY <1>0, <3>4 DEF EnqueueRetry, WorkerOK, WorkerIdle
    <3>5. CASE RoundExhausted
      BY <1>0, <3>5 DEF RoundExhausted, WorkerOK, WorkerIdle, Goto
    <3>6. CASE FailMessage
      BY <1>0, <3>6 DEF FailMessage, WorkerOK, WorkerIdle
    <3> QED BY <1>3, <3>1, <3>2, <3>3, <3>4, <3>5, <3>6 DEF WorkerStep
  <2> QED BY <2>1 DEF SentInHand
<1>4. ASSUME NEW j \in JobIds, CancelJob(j), UNCHANGED <<lastId, worker>> PROVE SentInHand'
  BY <1>0, <1>4, CancelRow DEF SentInHand, WorkerOK, OneRow
<1>5. ASSUME NEW w \in WebThreads, WebEnqueue(w) PROVE SentInHand'
  <2>1. web[w].msg \in Messages
    BY <1>0, <1>5 DEF WebEnqueue, WebOK
  <2>2. \A j \in JobIds : jobs'[j] = jobs[j]
    BY <1>5, <2>1, InsertRows DEF WebEnqueue
  <2> QED BY <1>0, <1>5, <2>2 DEF WebEnqueue, SentInHand, WorkerOK
<1>6. ASSUME NEW r \in Receivers, RxStep(r) PROVE SentInHand'
  BY <1>0, <1>4, <1>6 DEF RxStep, RxSelect, RxCancel, RxSettle, RxOK, SentInHand
<1>7. ASSUME NEW w \in WebThreads, WebStep(w) PROVE SentInHand'
  BY <1>0, <1>4, <1>5, <1>7 DEF WebStep, WebSelect, WebCancel, Requeue, Erase, WebOK, SentInHand
<1> QED BY <1>1, <1>2, <1>3, <1>6, <1>7 DEF Next, RxFind, Send, StartRetry, StartDelete, CoreCrash,
        CoreRestart, WebCrash, WorkerIdle, WorkerDown, SentInHand

LEMMA InitRetries == Init => RetriesInv
<1> SUFFICES ASSUME Init PROVE RetriesInv
  OBVIOUS
<1>1. JobIds = {} /\ worker = WorkerIdle /\ crashes.core = 0 /\ MAX_TX_ATTEMPTS \in Nat \ {0}
  BY ConstantsAssumption DEF Init, JobIds
<1>2. ASSUME NEW m \in Messages
      PROVE  /\ SentRounds(m) = {} /\ AutoRounds(m) = {} /\ ~WorkerOn(m)
             /\ status[m] = "none"
  BY <1>1 DEF SentRounds, AutoRounds, JobsOf, WorkerOn, WorkerIdle, Init
<1>3. ASSUME NEW m \in Messages PROVE AutomaticRounds(m) = 0
  <2>1. AutomaticRounds(m) = Cardinality(AutoRounds(m))
    BY DEF AutomaticRounds, AutoRounds
  <2> QED BY <1>2, <2>1, FS_EmptySet
<1>4. \A m \in Messages : Frugal(m)
  BY <1>1, <1>2, <1>3 DEF Frugal, Follows, Counted, RoomForRetry, Retrying
<1>5. SentInHand
  BY <1>1 DEF SentInHand, WorkerIdle
<1> QED BY <1>4, <1>5 DEF RetriesInv

LEMMA NextKeepsRetries ==
    ASSUME IndInv, RoundsInv, RetriesInv, [Next]_vars
    PROVE  RetriesInv'
<1>1. CASE Next
  <2>1. SentInHand'
    BY <1>1, NextKeepsSentInHand DEF RetriesInv
  <2>2. ASSUME NEW m \in Messages, Unsplit(m)' PROVE Frugal(m)'
    <3>1. Unsplit(m) /\ Orderly(m) /\ Frugal(m)
      BY <1>1, <2>2, UnsplitBefore DEF RoundsInv, RetriesInv
    <3> QED BY <1>1, <3>1, WorkerKeepsFrugal, OthersKeepFrugal DEF RoundsInv, RetriesInv
  <2> QED BY <2>1, <2>2 DEF RetriesInv
<1>2. CASE UNCHANGED vars
  <2>1. ASSUME NEW m \in Messages
        PROVE  UNCHANGED <<SentRounds(m), AutoRounds(m), RoundsOf(m), WorkerOn(m), Uncounted(m),
                           AutomaticRounds(m), Retrying(m)>>
    BY <1>2 DEF vars, SentRounds, AutoRounds, RoundsOf, WorkerOn, WorkerMsg, Uncounted,
                AutomaticRounds, Retrying, JobsOf, JobIds
  <2>2. ASSUME NEW m \in Messages, Frugal(m) PROVE Frugal(m)'
    <3>1. Follows(m)' /\ Counted(m)'
      BY <1>2, <2>1, <2>2 DEF vars, Frugal, Follows, Counted
    <3>2. RoomForRetry(m)'
      BY <1>2, <2>1, <2>2 DEF vars, Frugal, RoomForRetry, Exists
    <3> QED BY <1>2, <2>1, <2>2, <3>1, <3>2 DEF vars, Frugal
  <2>3. ASSUME NEW m \in Messages PROVE Unsplit(m)' => Unsplit(m)
    BY <1>2 DEF vars, Unsplit, JobsOf, JobIds
  <2> QED BY <1>2, <2>2, <2>3 DEF vars, RetriesInv, SentInHand
<1> QED BY <1>1, <1>2

\* Over the whole life of a message fewer than MAX_TX_ATTEMPTS automatic rounds
\* are queued, and one more for each crash of the core, whatever is manually
\* retried, answered, failed or deleted meanwhile, if no two requests send or
\* retry the same message at once and pacing has split no round of it.
THEOREM RetriesAreBounded == Spec /\ []OneRequestEach => []RetriesBounded
<1>1. RetriesInv => RetriesBounded
  BY DEF RetriesInv, Frugal, RetriesBounded
<1> QED BY <1>1, InitRetries, NextKeepsRetries, RoundsInvariant, Invariance, PTL DEF Spec

-----------------------------------------------------------------------------
(* As long as no process has crashed, somebody attends to every message    *)
(* that owes a round.                                                      *)

NoCrash == crashes.core = 0 /\ crashes.web = 0

Handled(m) ==
    \/ \E r \in Receivers : rx[r].msg = m
    \/ \E w \in WebThreads : web[w].msg = m

Owes(m) ==
    \/ status[m] = "queued"
    \/ status[m] = "sent" /\ m \in Numbered /\ attempts[m] < MAX_TX_ATTEMPTS

\* A round of m after round b is on its way, or the attempt is about to be
\* counted.
Ahead(m, b) ==
    \/ Handled(m)
    \/ \E j \in QueuedJobs(m) : b < jobs[j].batch
    \/ /\ WorkerOn(m)
       /\ worker.pc \in {"claimed", "transmitted", "exhausted", "markFailed"}
       /\ b < jobs[worker.job].batch
    \/ WorkerOn(m) /\ worker.pc \in {"register", "update"}

\* A message without a counted attempt has not been sent, or it is retried
\* manually: then a later round is on its way.
Attended(m) ==
    /\ Owes(m) => Handled(m) \/ QueuedJobs(m) # {} \/ WorkerOn(m)
    /\ status[m] \in {"queued", "sent"} /\ attempts[m] = 0 =>
         \A b \in SentRounds(m) : Ahead(m, b)

InHandOnly ==
    \A j \in JobIds :
      jobs[j].status = "processing" => worker.pc \in {"claimed", "transmitted"} /\ worker.job = j

\* Handlers cancel jobs of their own message.
OwnJobs ==
    /\ \A r \in Receivers :
         /\ \A j \in rx[r].todo : jobs[j].msg = rx[r].msg
         /\ rx[r].pc = "idle" => rx[r].msg = NoMessage
    /\ \A w \in WebThreads :
         /\ \A j \in web[w].todo : jobs[j].msg = web[w].msg
         /\ web[w].pc = "idle" => web[w].msg = NoMessage

Uncredited == \A m \in Messages : status[m] \in {"none", "queued"} => attempts[m] = 0

\* What the worker has found out about the message of its job.
Credited == worker.pc = "update" => worker.next > 0
RetryAfterSent ==
    worker.pc \in {"checkRetry", "checkPending", "enqueueRetry"} => SentRounds(WorkerMsg) # {}

StallInv ==
    /\ InHandOnly /\ OwnJobs /\ Uncredited /\ Credited /\ RetryAfterSent
    /\ \A m \in Messages : Attended(m)

LEMMA NextKeepsInHand == ASSUME IndInv, InHandOnly, Next, ~CoreCrash PROVE InHandOnly'
<1>0. JobsOK /\ WorkerOK /\ RxOK /\ WebOK
  BY Parts
<1>1. ASSUME UNCHANGED <<lastId, jobs, worker>> PROVE InHandOnly'
  BY <1>1 DEF InHandOnly, JobIds
<1>2. ASSUME UNCHANGED <<lastId, jobs>>, worker.pc \notin {"claimed", "transmitted"} PROVE InHandOnly'
  BY <1>2 DEF InHandOnly, JobIds
<1>3. ASSUME NEW j \in JobIds, CancelJob(j), UNCHANGED <<lastId, worker>> PROVE InHandOnly'
  BY <1>3, CancelRow DEF InHandOnly, OneRow
<1>4. ASSUME NEW m \in Messages, NEW n \in 1 .. MaxTncs, NEW b \in BOOLEAN, InsertJobs(m, n, b),
             worker' = worker \/ worker.pc = "enqueueRetry"
      PROVE  InHandOnly'
  <2>1. \A j \in JobIds : jobs'[j] = jobs[j]
    BY <1>4, InsertRows
  <2>2. \A j \in JobIds' \ JobIds : jobs'[j].status = "queued"
    BY <1>4, InsertRows
  <2>3. ASSUME NEW j \in JobIds, jobs'[j].status = "processing"
        PROVE  worker'.pc \in {"claimed", "transmitted"} /\ worker'.job = j
    <3>1. worker.pc \in {"claimed", "transmitted"} /\ worker.job = j
      BY <2>1, <2>3 DEF InHandOnly
    <3> QED BY <1>4, <3>1
  <2> QED BY <2>2, <2>3 DEF InHandOnly
<1>5. ASSUME NEW j \in JobIds, Claim(j) PROVE InHandOnly'
  <2>1. worker'.pc = "claimed" /\ worker'.job = j /\ worker.pc = "idle"
    BY <1>0, <1>5 DEF Claim, At, WorkerOK
  <2> QED BY <1>5, <2>1, ClaimRow DEF InHandOnly, OneRow
<1>6. ASSUME Reschedule PROVE InHandOnly'
  <2>1. \A k \in JobIds \ {worker.job} : jobs[k].status # "processing"
    BY DEF InHandOnly
  <2> QED BY <1>6, <2>1, RescheduleRow DEF InHandOnly, OneRow
<1>7. ASSUME Skip \/ MarkSent \/ TransmitFails PROVE InHandOnly'
  <2>1. worker.job \in JobIds
    BY <1>0, <1>7 DEF WorkerOK, Skip, MarkSent, TransmitFails, At
  <2>2. OneRow(worker.job) /\ jobs'[worker.job].status \in {"sent", "failed"}
    BY <1>7, <2>1, StatusRow DEF Skip, MarkSent, TransmitFails, JobStatus
  <2>3. \A k \in JobIds \ {worker.job} : jobs[k].status # "processing"
    BY DEF InHandOnly
  <2> QED BY <2>2, <2>3 DEF InHandOnly, OneRow
<1>8. ASSUME Transmit PROVE InHandOnly'
  <2>1. worker'.pc = "transmitted" /\ worker'.job = worker.job
    BY <1>0, <1>8 DEF Transmit, Goto, At, WorkerOK
  <2> QED BY <1>8, <2>1 DEF Transmit, InHandOnly, JobIds
<1>9. ASSUME EnqueueRetry PROVE InHandOnly'
  <2>1. WorkerMsg \in Messages
    BY <1>0, <1>9 DEF EnqueueRetry, At, WorkerOK, JobsOK, WorkerMsg, Job
  <2> QED BY <1>2, <1>4, <1>9, <2>1 DEF EnqueueRetry, At
<1>10. CASE WorkerStep
  BY <1>1, <1>2, <1>5, <1>6, <1>7, <1>8, <1>9, <1>10 DEF WorkerStep, ExpireDirectMessageTimeouts,
     Register, Update, CheckRetry, CheckPending, RoundExhausted, FailMessage, At
<1>11. ASSUME NEW r \in Receivers, RxStep(r) PROVE InHandOnly'
  BY <1>0, <1>1, <1>3, <1>11 DEF RxStep, RxSelect, RxCancel, RxSettle, RxOK
<1>12. ASSUME NEW w \in WebThreads, WebStep(w) PROVE InHandOnly'
  BY <1>0, <1>1, <1>3, <1>4, <1>12 DEF WebStep, WebSelect, WebCancel, Requeue, Erase, WebEnqueue, WebOK
<1>13. CASE CoreRestart
  BY <1>2, <1>13 DEF CoreRestart
<1> QED BY <1>1, <1>10, <1>11, <1>12, <1>13 DEF Next, RxFind, Send, StartRetry, StartDelete, WebCrash

LEMMA NextKeepsOwnJobs == ASSUME IndInv, OwnJobs, Next PROVE OwnJobs'
<1>0. RxOK /\ WebOK
  BY Parts
<1>1. \A j \in JobIds : jobs'[j].msg = jobs[j].msg
  BY RowsStay DEF SameRound
<1> DEFINE RxOwn(r) == /\ \A j \in rx[r].todo : jobs[j].msg = rx[r].msg
                       /\ rx[r].pc = "idle" => rx[r].msg = NoMessage
           WebOwn(w) == /\ \A j \in web[w].todo : jobs[j].msg = web[w].msg
                        /\ web[w].pc = "idle" => web[w].msg = NoMessage
<1>2. ASSUME NEW r \in Receivers, rx'[r] = rx[r] \/ rx'[r] = RxIdle PROVE RxOwn(r)'
  BY <1>0, <1>1, <1>2 DEF OwnJobs, RxOK, RxIdle
<1>3. ASSUME NEW w \in WebThreads, web'[w] = web[w] \/ web'[w] = WebIdle PROVE WebOwn(w)'
  BY <1>0, <1>1, <1>3 DEF OwnJobs, WebOK, WebIdle
<1>4. ASSUME NEW r \in Receivers, NEW m \in Messages, NEW v \in {"acked", "rejected"}, RxFind(r, m, v)
      PROVE  OwnJobs'
  <2>1. rx'[r].todo = {} /\ rx'[r].pc = "select" /\ \A q \in Receivers \ {r} : rx'[q] = rx[q]
    BY <1>0, <1>4 DEF RxFind, RxOK
  <2>2. web' = web
    BY <1>4 DEF RxFind
  <2> QED BY <1>2, <1>3, <2>1, <2>2 DEF OwnJobs
<1>5. ASSUME NEW r \in Receivers, RxStep(r) PROVE OwnJobs'
  <2>1. web' = web /\ \A q \in Receivers \ {r} : rx'[q] = rx[q]
    BY <1>0, <1>5 DEF RxStep, RxSelect, RxCancel, RxSettle, RxOK
  <2>2. CASE RxSelect(r)
    <3>1. rx'[r].todo = QueuedJobs(rx[r].msg) /\ rx'[r].msg = rx[r].msg /\ rx'[r].pc = "cancel"
      BY <1>0, <2>2 DEF RxSelect, RxOK
    <3>2. RxOwn(r)'
      BY <1>1, <3>1 DEF QueuedJobs, JobsOf
    <3> QED BY <1>2, <1>3, <2>1, <3>2 DEF OwnJobs
  <2>3. CASE RxCancel(r)
    <3>1. rx'[r].todo \subseteq rx[r].todo /\ rx'[r].msg = rx[r].msg /\ rx'[r].pc = "cancel"
      BY <1>0, <2>3 DEF RxCancel, RxOK
    <3>2. RxOwn(r)'
      BY <1>0, <1>1, <3>1 DEF OwnJobs, RxOK
    <3> QED BY <1>2, <1>3, <2>1, <3>2 DEF OwnJobs
  <2>4. CASE RxSettle(r)
    <3>1. rx'[r] = RxIdle
      BY <1>0, <2>4 DEF RxSettle, RxOK
    <3> QED BY <1>2, <1>3, <2>1, <3>1 DEF OwnJobs
  <2> QED BY <1>5, <2>2, <2>3, <2>4 DEF RxStep
<1>6. ASSUME NEW w \in WebThreads, NEW m \in Messages,
             Send(w, m) \/ StartRetry(w, m) \/ StartDelete(w, m)
      PROVE  OwnJobs'
  <2>1. rx' = rx /\ \A v \in WebThreads \ {w} : web'[v] = web[v]
    BY <1>6, ThreadRow DEF Send, StartRetry, StartDelete
  <2>2. web'[w].todo = {} /\ web'[w].pc \in {"enqueue", "select"}
    BY <1>0, <1>6 DEF Send, StartRetry, StartDelete, WebOK
  <2> QED BY <1>2, <1>3, <2>1, <2>2 DEF OwnJobs
<1>7. ASSUME NEW w \in WebThreads, WebStep(w) PROVE OwnJobs'
  <2>1. rx' = rx /\ \A v \in WebThreads \ {w} : web'[v] = web[v]
    BY <1>7, ThreadRow DEF WebStep, WebSelect, WebCancel, Requeue, Erase, WebEnqueue
  <2>2. CASE WebSelect(w)
    <3>1. web'[w].todo = QueuedJobs(web[w].msg) /\ web'[w].msg = web[w].msg /\ web'[w].pc = "cancel"
      BY <1>0, <2>2 DEF WebSelect, WebOK
    <3>2. WebOwn(w)'
      BY <1>1, <3>1 DEF QueuedJobs, JobsOf
    <3> QED BY <1>2, <1>3, <2>1, <3>2 DEF OwnJobs
  <2>3. CASE WebCancel(w) \/ Requeue(w)
    <3>1. \/ /\ web'[w].todo \subseteq web[w].todo /\ web'[w].msg = web[w].msg
             /\ web'[w].pc \in {"cancel", "enqueue"}
          \/ web'[w] = WebIdle
      BY <1>0, <2>3 DEF WebCancel, Requeue, WebOK
    <3>2. WebOwn(w)'
      BY <1>0, <1>1, <1>3, <3>1 DEF OwnJobs, WebOK
    <3> QED BY <1>2, <1>3, <2>1, <3>2 DEF OwnJobs
  <2>4. CASE Erase(w) \/ WebEnqueue(w)
    BY <1>2, <1>3, <2>1, <2>4, ThreadRow DEF OwnJobs
  <2> QED BY <1>7, <2>2, <2>3, <2>4 DEF WebStep
<1>8. ASSUME \A r \in Receivers : rx'[r] = rx[r] \/ rx'[r] = RxIdle,
             \A w \in WebThreads : web'[w] = web[w] \/ web'[w] = WebIdle
      PROVE  OwnJobs'
  BY <1>2, <1>3, <1>8 DEF OwnJobs
<1>9. CASE WorkerStep
  BY <1>8, <1>9 DEF WorkerStep, ExpireDirectMessageTimeouts, Claim, Reschedule, Skip, Transmit,
     MarkSent, TransmitFails, Register, Update, CheckRetry, CheckPending, EnqueueRetry,
     RoundExhausted, FailMessage
<1>10. CASE CoreCrash \/ CoreRestart \/ WebCrash
  BY <1>8, <1>10 DEF CoreCrash, CoreRestart, WebCrash
<1> QED BY <1>4, <1>5, <1>6, <1>7, <1>9, <1>10 DEF Next

LEMMA NextKeepsUncredited == ASSUME IndInv, Uncredited, Next PROVE Uncredited'
<1>0. RowsOK /\ JobsOK /\ WorkerOK /\ RxOK /\ WebOK
  BY Parts
<1>1. ASSUME UNCHANGED attempts,
             \A m \in Messages :
               status'[m] \in {"none", "queued"} => status[m] \in {"none", "queued"}
      PROVE  Uncredited'
  BY <1>1 DEF Uncredited
<1>2. ASSUME Update PROVE Uncredited'
  <2>1. ASSUME NEW m \in Messages, status'[m] \in {"none", "queued"} PROVE attempts'[m] = 0
    <3>1. CASE Exists(WorkerMsg) /\ m = WorkerMsg
      BY <1>0, <1>2, <2>1, <3>1 DEF Update, SetStatus, RowsOK
    <3>2. CASE ~(Exists(WorkerMsg) /\ m = WorkerMsg)
      BY <1>0, <1>2, <2>1, <3>2 DEF Update, SetStatus, RowsOK, Uncredited
    <3> QED BY <3>1, <3>2
  <2> QED BY <2>1 DEF Uncredited
<1>3. ASSUME NEW w \in WebThreads, Requeue(w) PROVE Uncredited'
  <2>1. ASSUME NEW m \in Messages, status'[m] \in {"none", "queued"} PROVE attempts'[m] = 0
    <3>1. CASE Exists(web[w].msg) /\ m = web[w].msg
      BY <1>0, <1>3, <3>1 DEF Requeue, RowsOK
    <3>2. CASE ~(Exists(web[w].msg) /\ m = web[w].msg)
      BY <1>0, <1>3, <2>1, <3>2 DEF Requeue, SetStatus, RowsOK, Uncredited
    <3> QED BY <3>1, <3>2
  <2> QED BY <2>1 DEF Uncredited
<1>4. CASE WorkerStep
  <2>1. CASE ~Update
    BY <1>0, <1>1, <1>4, <2>1 DEF WorkerStep, ExpireDirectMessageTimeouts, Claim, Reschedule, Skip,
       Transmit, MarkSent, TransmitFails, Register, CheckRetry, CheckPending, EnqueueRetry,
       RoundExhausted, FailMessage, MarkMessageFailed, RowsOK
  <2> QED BY <1>2, <2>1
<1>5. ASSUME NEW r \in Receivers, RxStep(r) PROVE Uncredited'
  BY <1>0, <1>1, <1>5 DEF RxStep, RxSelect, RxCancel, RxSettle, SetStatus, RowsOK, RxOK
<1>6. ASSUME NEW w \in WebThreads, WebStep(w) PROVE Uncredited'
  BY <1>0, <1>1, <1>3, <1>6 DEF WebStep, WebSelect, WebCancel, Erase, WebEnqueue, SetStatus,
     MarkMessageFailed, RowsOK
<1>7. ASSUME NEW w \in WebThreads, NEW m \in Messages,
             Send(w, m) \/ StartRetry(w, m) \/ StartDelete(w, m)
      PROVE  Uncredited'
  BY <1>0, <1>1, <1>7 DEF Send, StartRetry, StartDelete, RowsOK
<1> QED BY <1>1, <1>4, <1>5, <1>6, <1>7 DEF Next, RxFind, CoreCrash, CoreRestart, WebCrash

\* Which step takes the worker where.
LEMMA WorkerMoves ==
    ASSUME IndInv, WorkerStep
    PROVE  /\ worker'.pc = "update" => Register
           /\ worker'.pc \in {"checkRetry", "checkPending", "enqueueRetry"} =>
                Update \/ RoundExhausted \/ CheckRetry \/ CheckPending
<1> DEFINE Late == {"update", "checkRetry", "checkPending", "enqueueRetry"}
<1>0. WorkerOK
  BY Parts
<1>1. ASSUME (\E m \in Messages : ExpireDirectMessageTimeouts(m)) \/ \E j \in JobIds : Claim(j)
      PROVE  worker'.pc \notin Late
  BY <1>0, <1>1 DEF ExpireDirectMessageTimeouts, Claim, At, WorkerOK
<1>2. ASSUME Reschedule \/ Skip \/ Transmit PROVE worker'.pc \notin Late
  BY <1>0, <1>2 DEF Reschedule, Skip, Transmit, Goto, WorkerOK, WorkerIdle
<1>3. ASSUME MarkSent \/ TransmitFails PROVE worker'.pc \notin Late
  BY <1>0, <1>3 DEF MarkSent, TransmitFails, Goto, WorkerOK
<1>4. ASSUME EnqueueRetry \/ FailMessage PROVE worker'.pc \notin Late
  <2>1. worker' = WorkerIdle
    BY <1>4 DEF EnqueueRetry, FailMessage
  <2> QED BY <2>1 DEF WorkerIdle
<1>5. ASSUME Register PROVE worker'.pc \in {"idle", "update"}
  <2> DEFINE n == IF attempts[WorkerMsg] >= RoundCount(WorkerMsg)
                  THEN attempts[WorkerMsg] ELSE RoundCount(WorkerMsg)
  <2>1. worker' = WorkerIdle \/ worker' = [worker EXCEPT !.pc = "update", !.next = n]
    <3>1. CASE status[WorkerMsg] \in {"queued", "sent"}
      BY <1>5, <3>1, Zenon DEF Register
    <3>2. CASE status[WorkerMsg] \notin {"queued", "sent"}
      BY <1>5, <3>2, Zenon DEF Register
    <3> QED BY <3>1, <3>2
  <2>2. worker \in [pc : WorkerPc, job : 0 .. lastId, next : Nat]
    BY <1>0 DEF WorkerOK
  <2>3. CASE worker' = WorkerIdle
    BY <2>3 DEF WorkerIdle
  <2>4. CASE worker' = [worker EXCEPT !.pc = "update", !.next = n]
    <3> HIDE DEF n
    <3> QED BY <2>2, <2>4
  <2> QED BY <2>1, <2>3, <2>4
<1>6. ASSUME Update \/ CheckRetry \/ CheckPending PROVE worker'.pc # "update"
  <2>1. ASSUME Update PROVE worker'.pc \in {"idle", "checkRetry"}
    BY <1>0, <2>1 DEF Update, WorkerOK, WorkerIdle
  <2>2. ASSUME CheckRetry PROVE worker'.pc \in {"idle", "checkPending"}
    BY <1>0, <2>2 DEF CheckRetry, WorkerOK, WorkerIdle
  <2>3. ASSUME CheckPending PROVE worker'.pc \in {"idle", "enqueueRetry"}
    BY <1>0, <2>3 DEF CheckPending, WorkerOK, WorkerIdle
  <2> QED BY <1>6, <2>1, <2>2, <2>3
<1>7. ASSUME RoundExhausted PROVE worker'.pc # "update"
  BY <1>0, <1>7 DEF RoundExhausted, WorkerOK, WorkerIdle
<1> QED BY <1>1, <1>2, <1>3, <1>4, <1>5, <1>6, <1>7 DEF WorkerStep

\* A round that has been sent is one to be counted.
LEMMA NextKeepsCredited == ASSUME IndInv, SentInHand, Credited, Next PROVE Credited'
<1>0. JobsOK /\ WorkerOK
  BY Parts
<1>1. ASSUME Register PROVE Credited'
  <2> DEFINE m == WorkerMsg
             S == {jobs[j].scheduled_at :
                     j \in {k \in JobsOf(m) : jobs[k].status \in {"processing", "sent"}}}
  <2>1. worker.job \in JobIds /\ jobs[worker.job].status = "sent"
    BY <1>0, <1>1 DEF Register, At, WorkerOK, SentInHand
  <2>2. jobs[worker.job].scheduled_at \in S
    BY <2>1 DEF JobsOf, WorkerMsg
  <2>3. S \subseteq -lastId .. lastId /\ lastId \in Nat
    BY <1>0 DEF JobsOK, JobsOf
  <2>4. RoundCount(m) = Cardinality(S)
    BY DEF RoundCount
  <2> HIDE DEF S
  <2>5. IsFiniteSet(S)
    <3>1. IsFiniteSet(-lastId .. lastId)
      BY <2>3, FS_Interval
    <3> QED BY <2>3, <3>1, FS_Subset
  <2>6. Cardinality(S) \in Nat /\ Cardinality(S) # 0
    BY <2>2, <2>5, FS_CardinalityType, FS_EmptySet
  <2>7. RoundCount(m) \in Nat \ {0}
    BY <2>4, <2>6
  <2>8. attempts[m] \in Nat
    <3>1. m \in Messages
      BY <1>0, <2>1 DEF JobsOK, WorkerMsg, Job
    <3> QED BY <3>1, Parts DEF RowsOK
  <2>9. \/ worker' = WorkerIdle
        \/ worker'.next = IF attempts[m] >= RoundCount(m) THEN attempts[m] ELSE RoundCount(m)
    BY <1>0, <1>1 DEF Register, WorkerOK
  <2> QED BY <2>7, <2>8, <2>9 DEF Credited, WorkerIdle
<1>2. ASSUME Next, ~Register PROVE Credited'
  <2>1. CASE worker' = worker
    BY <2>1 DEF Credited
  <2>2. CASE WorkerStep /\ worker' # worker
    <3>1. worker'.pc # "update"
      BY <1>2, <2>2, WorkerMoves
    <3> QED BY <3>1 DEF Credited
  <2>3. CASE CoreCrash \/ CoreRestart
    BY <2>3 DEF CoreCrash, CoreRestart, WorkerIdle, WorkerDown, Credited
  <2> QED BY <2>1, <2>2, <2>3, <1>2 DEF Next, RxFind, RxStep, RxSelect, RxCancel, RxSettle, WebStep,
          WebSelect, WebCancel, Requeue, Erase, WebEnqueue, Send, StartRetry, StartDelete, WebCrash
<1> QED BY <1>1, <1>2

\* What has been sent stays sent.
LEMMA SentStays ==
    ASSUME IndInv, InHandOnly, Next, NEW j \in JobIds, jobs[j].status = "sent"
    PROVE  jobs'[j].status = "sent"
<1>0. JobsOK /\ WorkerOK /\ RxOK /\ WebOK
  BY Parts
<1>1. ASSUME NEW k \in JobIds, OneRow(k), jobs[k].status # "sent" PROVE jobs'[j].status = "sent"
  BY <1>1 DEF OneRow
<1>2. ASSUME NEW k \in JobIds, CancelJob(k), UNCHANGED lastId PROVE jobs'[j].status = "sent"
  BY <1>1, <1>2, CancelRow DEF OneRow
<1>3. ASSUME NEW m \in Messages, NEW n \in 1 .. MaxTncs, NEW b \in BOOLEAN, InsertJobs(m, n, b)
      PROVE  jobs'[j].status = "sent"
  BY <1>3, InsertRows
<1>4. ASSUME NEW k \in JobIds, Claim(k) PROVE jobs'[j].status = "sent"
  BY <1>1, <1>4, ClaimRow DEF Claim, NextInLine
<1>5. ASSUME Reschedule \/ Skip \/ MarkSent \/ TransmitFails PROVE jobs'[j].status = "sent"
  <2>1. worker.job \in JobIds /\ jobs[worker.job].status = "processing"
    BY <1>0, <1>5 DEF WorkerOK, Reschedule, Skip, MarkSent, TransmitFails, At
  <2>2. OneRow(worker.job)
    BY <1>5, <2>1, StatusRow, RescheduleRow DEF Skip, MarkSent, TransmitFails, JobStatus
  <2> QED BY <1>1, <2>1, <2>2
<1>6. CASE EnqueueRetry
  <2>1. WorkerMsg \in Messages
    BY <1>0, <1>6 DEF EnqueueRetry, At, WorkerOK, JobsOK, WorkerMsg, Job
  <2> QED BY <1>3, <1>6, <2>1 DEF EnqueueRetry
<1>7. CASE WorkerStep
  BY <1>4, <1>5, <1>6, <1>7 DEF WorkerStep, ExpireDirectMessageTimeouts,
     Transmit, Register, Update, CheckRetry, CheckPending, RoundExhausted, FailMessage
<1>8. ASSUME NEW r \in Receivers, RxStep(r) PROVE jobs'[j].status = "sent"
  BY <1>0, <1>2, <1>8 DEF RxStep, RxSelect, RxCancel, RxSettle, RxOK
<1>9. ASSUME NEW w \in WebThreads, WebStep(w) PROVE jobs'[j].status = "sent"
  BY <1>0, <1>2, <1>3, <1>9 DEF WebStep, WebSelect, WebCancel, Requeue, Erase, WebEnqueue, WebOK
<1> QED BY <1>7, <1>8, <1>9 DEF Next, RxFind, Send, StartRetry, StartDelete, CoreCrash, CoreRestart,
        WebCrash

\* A retry is considered only after a job of the message has been sent.
LEMMA NextKeepsRetryAfterSent ==
    ASSUME IndInv, InHandOnly, SentInHand, RetryAfterSent, Next
    PROVE  RetryAfterSent'
<1>0. JobsOK /\ WorkerOK
  BY Parts
<1> DEFINE Late == {"checkRetry", "checkPending", "enqueueRetry"}
<1>1. ASSUME NEW m, SentRounds(m) # {} PROVE SentRounds(m)' # {}
  <2>1. PICK j \in JobsOf(m) : jobs[j].status = "sent"
    BY <1>1 DEF SentRounds
  <2>2. j \in JobsOf(m)' /\ jobs'[j].status = "sent"
    BY <2>1, SentStays, RowsStay DEF JobsOf, SameRound
  <2> QED BY <2>2 DEF SentRounds
<1>2. ASSUME worker.pc \notin {"idle", "down"}, worker'.job = worker.job, SentRounds(WorkerMsg) # {}
      PROVE  RetryAfterSent'
  <2>1. WorkerMsg' = WorkerMsg
    BY <1>0, <1>2, RowsStay DEF WorkerMsg, WorkerOK, SameRound
  <2> QED BY <1>1, <1>2, <2>1 DEF RetryAfterSent
<1>3. CASE worker' = worker
  <2>1. CASE worker.pc \in Late
    BY <1>2, <1>3, <2>1 DEF RetryAfterSent
  <2> QED BY <1>3, <2>1 DEF RetryAfterSent
<1>4. CASE Update
  <2>1. worker.job \in JobIds /\ jobs[worker.job].status = "sent"
    BY <1>0, <1>4 DEF Update, At, WorkerOK, SentInHand
  <2>2. SentRounds(WorkerMsg) # {}
    BY <2>1 DEF SentRounds, JobsOf, WorkerMsg
  <2>3. worker' = WorkerIdle \/ worker'.job = worker.job
    BY <1>0, <1>4 DEF Update, WorkerOK
  <2> QED BY <1>2, <1>4, <2>2, <2>3 DEF Update, At, WorkerIdle, RetryAfterSent
<1>5. CASE RoundExhausted
  <2>1. \/ worker'.pc \notin Late
        \/ worker'.job = worker.job /\ \E j \in Round : jobs[j].status = "sent"
    BY <1>0, <1>5 DEF RoundExhausted, WorkerOK, WorkerIdle
  <2>2. (\E j \in Round : jobs[j].status = "sent") => SentRounds(WorkerMsg) # {}
    BY DEF Round, SentRounds
  <2> QED BY <1>2, <1>5, <2>1, <2>2 DEF RoundExhausted, At, RetryAfterSent
<1>6. CASE CheckRetry \/ CheckPending
  <2>1. worker' = WorkerIdle \/ worker'.job = worker.job
    BY <1>0, <1>6 DEF CheckRetry, CheckPending, WorkerOK
  <2>2. SentRounds(WorkerMsg) # {}
    BY <1>6 DEF CheckRetry, CheckPending, At, RetryAfterSent
  <2> QED BY <1>2, <1>6, <2>1, <2>2 DEF CheckRetry, CheckPending, At, WorkerIdle, RetryAfterSent
<1>7. CASE WorkerStep
  <2>1. CASE worker' # worker /\ ~Update /\ ~RoundExhausted /\ ~CheckRetry /\ ~CheckPending
    <3>1. worker'.pc \notin Late
      BY <1>7, <2>1, WorkerMoves
    <3> QED BY <3>1 DEF RetryAfterSent
  <2> QED BY <1>3, <1>4, <1>5, <1>6, <2>1
<1>8. CASE CoreCrash \/ CoreRestart
  BY <1>8 DEF CoreCrash, CoreRestart, WorkerIdle, WorkerDown, RetryAfterSent
<1> QED BY <1>3, <1>7, <1>8 DEF Next, RxFind, RxStep, RxSelect, RxCancel, RxSettle, WebStep,
          WebSelect, WebCancel, Requeue, Erase, WebEnqueue, Send, StartRetry, StartDelete, WebCrash

\* The queued jobs of m stay queued, and no job of it is closed as sent.
TableKept(m) ==
    /\ \A j \in QueuedJobs(m) : j \in QueuedJobs(m)' /\ jobs'[j].batch = jobs[j].batch
    /\ SentRounds(m)' \subseteq SentRounds(m)

LEMMA TableKeeps ==
    ASSUME IndInv, NEW m \in Messages
    PROVE  /\ UNCHANGED <<lastId, jobs>> => TableKept(m)
           /\ \A j \in JobIds :
                OneRow(j) /\ (jobs[j].msg = m => jobs[j].status # "queued" /\ jobs'[j].status # "sent")
                  => TableKept(m)
           /\ \A k \in Messages, n \in 1 .. MaxTncs, b \in BOOLEAN :
                InsertJobs(k, n, b) => TableKept(m)
<1>1. UNCHANGED <<lastId, jobs>> => TableKept(m)
  BY DEF TableKept, QueuedJobs, SentRounds, JobsOf, JobIds
<1>2. ASSUME NEW j \in JobIds, OneRow(j),
             jobs[j].msg = m => jobs[j].status # "queued" /\ jobs'[j].status # "sent"
      PROVE  TableKept(m)
  <2>1. \A k \in QueuedJobs(m) : k \in QueuedJobs(m)' /\ jobs'[k].batch = jobs[k].batch
    BY <1>2 DEF QueuedJobs, JobsOf, OneRow
  <2>2. \A k \in JobsOf(m)' : jobs'[k].status = "sent" =>
          k \in JobsOf(m) /\ jobs[k].status = "sent" /\ jobs'[k].batch = jobs[k].batch
    BY <1>2 DEF JobsOf, OneRow, SameRound
  <2> QED BY <2>1, <2>2 DEF TableKept, SentRounds
<1>3. ASSUME NEW k \in Messages, NEW n \in 1 .. MaxTncs, NEW b \in BOOLEAN, InsertJobs(k, n, b)
      PROVE  TableKept(m)
  <2>1. \A i \in QueuedJobs(m) : i \in QueuedJobs(m)' /\ jobs'[i].batch = jobs[i].batch
    BY <1>3, InsertRows DEF QueuedJobs, JobsOf
  <2>2. \A i \in JobsOf(m)' : jobs'[i].status = "sent" =>
          i \in JobsOf(m) /\ jobs[i].status = "sent" /\ jobs'[i].batch = jobs[i].batch
    BY <1>3, InsertRows DEF JobsOf
  <2> QED BY <2>1, <2>2 DEF TableKept, SentRounds
<1> QED BY <1>1, <1>2, <1>3

\* A message that is handled, or needs no transmission any more, is attended.
LEMMA AttendedAtOnce ==
    ASSUME NEW m, Handled(m)' \/ status'[m] \notin {"queued", "sent"}
    PROVE  Attended(m)'
BY DEF Attended, Owes, Ahead

\* A step that leaves m and its jobs, and a worker busy with m, where they are.
LEMMA AttendedFrame ==
    ASSUME NEW m \in Messages, Attended(m), TableKept(m),
           status'[m] = status[m], attempts'[m] = attempts[m],
           Handled(m) => Handled(m)',
           WorkerOn(m) =>
             /\ WorkerOn(m)'
             /\ worker.pc \in {"claimed", "transmitted", "exhausted", "markFailed"} =>
                  /\ worker'.pc \in {"claimed", "transmitted", "exhausted", "markFailed"}
                  /\ jobs'[worker'.job].batch = jobs[worker.job].batch
             /\ worker.pc \in {"register", "update"} => worker'.pc \in {"register", "update"}
    PROVE  Attended(m)'
<1>1. QueuedJobs(m) # {} => QueuedJobs(m)' # {}
  BY DEF TableKept
<1>2. Owes(m)' => Handled(m)' \/ QueuedJobs(m)' # {} \/ WorkerOn(m)'
  BY <1>1 DEF Attended, Owes
<1>3. ASSUME NEW b, Ahead(m, b) PROVE Ahead(m, b)'
  BY <1>3 DEF Ahead, TableKept
<1>4. status'[m] \in {"queued", "sent"} /\ attempts'[m] = 0 =>
        \A b \in SentRounds(m)' : Ahead(m, b)'
  BY <1>3 DEF Attended, TableKept
<1> QED BY <1>2, <1>4 DEF Attended

\* A worker that moves on does not leave the message of its job.
LEMMA WorkerStaysOn ==
    ASSUME IndInv, Next, NEW m \in Messages, WorkerOn(m),
           worker'.job = worker.job, worker'.pc \notin {"idle", "down"}
    PROVE  WorkerOn(m)' /\ jobs'[worker'.job].batch = jobs[worker.job].batch
<1>1. worker.job \in JobIds
  BY Parts DEF WorkerOn, WorkerOK
<1> QED BY <1>1, RowsStay DEF WorkerOn, WorkerMsg, SameRound

LEMMA WorkerAttends ==
    ASSUME IndInv, Instants, StallInv, NEW m \in Messages, WorkerStep
    PROVE  Attended(m)'
<1> USE DEF At
<1>0. RowsOK /\ JobsOK /\ WorkerOK /\ Next /\ Attended(m)
  BY Parts DEF Next, StallInv
\* The handlers go on with their messages.
<1>h. Handled(m)' <=> Handled(m)
  BY DEF WorkerStep, ExpireDirectMessageTimeouts, Claim, Reschedule, Skip, Transmit, MarkSent,
     TransmitFails, Register, Update, CheckRetry, CheckPending, EnqueueRetry, RoundExhausted,
     FailMessage, Handled
\* The steps that concern another message.
<1>1. ASSUME ~WorkerOn(m), TableKept(m), status'[m] = status[m], attempts'[m] = attempts[m]
      PROVE  Attended(m)'
  BY <1>0, <1>h, <1>1, AttendedFrame
<1>2. ASSUME NEW k \in Messages, ExpireDirectMessageTimeouts(k) PROVE Attended(m)'
  <2>1. TableKept(m) /\ ~WorkerOn(m) /\ attempts' = attempts
    BY <1>2, TableKeeps DEF ExpireDirectMessageTimeouts, WorkerOn
  <2>2. status'[m] = status[m] \/ status'[m] = "failed"
    BY <1>0, <1>2 DEF ExpireDirectMessageTimeouts, RowsOK
  <2> QED BY <1>1, <2>1, <2>2, AttendedAtOnce
<1>3. ASSUME NEW j \in JobIds, Claim(j) PROVE Attended(m)'
  <2>1. /\ OneRow(j) /\ jobs'[j].status = "processing" /\ jobs[j].status = "queued"
        /\ worker'.pc = "claimed" /\ worker'.job = j /\ ~WorkerOn(m)
        /\ status' = status /\ attempts' = attempts
    BY <1>0, <1>3, ClaimRow DEF Claim, NextInLine, WorkerOn, WorkerOK
  <2>2. CASE jobs[j].msg # m
    BY <1>1, <2>1, <2>2, TableKeeps
  <2>3. CASE jobs[j].msg = m
    <3>1. WorkerOn(m)'
      BY <2>1, <2>3 DEF WorkerOn, WorkerMsg, OneRow, SameRound
    <3>2. SentRounds(m)' \subseteq SentRounds(m)
      BY <2>1, ClaimRow DEF SentRounds, JobsOf, OneRow, SameRound
    <3>3. jobs'[j].batch = jobs[j].batch
          /\ \A k \in QueuedJobs(m) \ {j} : k \in QueuedJobs(m)' /\ jobs'[k].batch = jobs[k].batch
      BY <2>1 DEF QueuedJobs, JobsOf, OneRow, SameRound
    <3>4. ASSUME NEW b, Ahead(m, b) PROVE Ahead(m, b)'
      BY <1>h, <2>1, <3>1, <3>3, <3>4 DEF Ahead
    <3> QED BY <1>0, <2>1, <3>1, <3>2, <3>4 DEF Attended
  <2> QED BY <2>2, <2>3
<1>4. ASSUME Reschedule PROVE Attended(m)'
  <2> DEFINE j == worker.job
  <2>1. /\ j \in JobIds /\ OneRow(j) /\ jobs'[j].status = "queued" /\ jobs[j].status = "processing"
        /\ worker.pc = "claimed" /\ status' = status /\ attempts' = attempts
    BY <1>0, <1>4, RescheduleRow DEF Reschedule, WorkerOK
  <2>2. TableKept(m)
    BY <2>1, TableKeeps
  <2>3. CASE ~WorkerOn(m)
    BY <1>1, <2>1, <2>2, <2>3
  <2>4. CASE WorkerOn(m)
    <3>1. j \in QueuedJobs(m)' /\ jobs'[j].batch = jobs[j].batch
      BY <2>1, <2>4 DEF WorkerOn, WorkerMsg, QueuedJobs, JobsOf, OneRow, SameRound
    <3>2. ASSUME NEW b, Ahead(m, b) PROVE Ahead(m, b)'
      BY <1>h, <2>1, <2>2, <3>1, <3>2 DEF Ahead, TableKept
    <3> QED BY <1>0, <2>1, <2>2, <3>1, <3>2 DEF Attended, TableKept
  <2> QED BY <2>3, <2>4
<1>5. ASSUME Skip \/ MarkSent PROVE Attended(m)'
  <2>1. /\ worker.job \in JobIds /\ OneRow(worker.job) /\ jobs[worker.job].status = "processing"
        /\ worker'.pc = "register" /\ worker'.job = worker.job
        /\ worker.pc \notin {"idle", "down"} /\ status' = status /\ attempts' = attempts
    BY <1>0, <1>5, StatusRow DEF Skip, MarkSent, Goto, WorkerOK, JobStatus
  <2>2. CASE ~WorkerOn(m)
    <3>1. jobs[worker.job].msg # m
      BY <2>1, <2>2 DEF WorkerOn, WorkerMsg
    <3> QED BY <1>1, <2>1, <2>2, <3>1, TableKeeps
  <2>3. CASE WorkerOn(m)
    <3>1. WorkerOn(m)'
      BY <1>0, <2>1, <2>3, WorkerStaysOn
    <3> QED BY <2>1, <3>1 DEF Attended, Ahead
  <2> QED BY <2>2, <2>3
<1>6. ASSUME Transmit \/ TransmitFails PROVE Attended(m)'
  <2>1. /\ worker.job \in JobIds /\ worker.pc \in {"claimed", "transmitted"}
        /\ worker'.pc \in {"transmitted", "exhausted"} /\ worker'.job = worker.job
        /\ status' = status /\ attempts' = attempts
    BY <1>0, <1>6 DEF Transmit, TransmitFails, Goto, WorkerOK
  <2>2. TableKept(m)
    <3>1. CASE TransmitFails
      <4>1. OneRow(worker.job) /\ jobs'[worker.job].status = "failed"
            /\ jobs[worker.job].status = "processing"
        BY <1>0, <2>1, <3>1, StatusRow DEF TransmitFails, WorkerOK, JobStatus
      <4> QED BY <2>1, <4>1, TableKeeps
    <3>2. CASE Transmit
      BY <3>2, TableKeeps DEF Transmit
    <3> QED BY <1>6, <3>1, <3>2
  <2>3. WorkerOn(m) => WorkerOn(m)' /\ jobs'[worker'.job].batch = jobs[worker.job].batch
    BY <1>0, <2>1, WorkerStaysOn
  <2> QED BY <1>0, <1>h, <2>1, <2>2, <2>3, AttendedFrame
<1>7. ASSUME Register PROVE Attended(m)'
  <2>1. /\ TableKept(m) /\ status' = status /\ attempts' = attempts /\ worker.pc = "register"
        /\ \/ worker' = WorkerIdle /\ status[WorkerMsg] \notin {"queued", "sent"}
           \/ worker'.pc = "update" /\ worker'.job = worker.job
    BY <1>0, <1>7, TableKeeps DEF Register, WorkerOK
  <2>2. CASE ~WorkerOn(m)
    BY <1>1, <2>1, <2>2
  <2>3. CASE WorkerOn(m) /\ status[m] \notin {"queued", "sent"}
    BY <2>1, <2>3, AttendedAtOnce
  <2>4. CASE WorkerOn(m) /\ status[m] \in {"queued", "sent"}
    <3>1. worker'.pc = "update" /\ worker'.job = worker.job
      BY <2>1, <2>4 DEF WorkerOn
    <3>2. WorkerOn(m)'
      BY <1>0, <2>4, <3>1, WorkerStaysOn
    <3> QED BY <3>1, <3>2 DEF Attended, Ahead
  <2> QED BY <2>2, <2>3, <2>4
<1>8. ASSUME Update PROVE Attended(m)'
  <2>1. TableKept(m) /\ worker.pc = "update" /\ worker.next \in Nat \ {0}
    BY <1>0, <1>8, TableKeeps DEF Update, WorkerOK, StallInv, Credited
  <2>2. CASE ~WorkerOn(m)
    <3>1. WorkerMsg # m
      BY <2>1, <2>2 DEF WorkerOn
    <3>2. status'[m] = status[m] /\ attempts'[m] = attempts[m]
      BY <1>0, <1>8, <3>1 DEF Update, SetStatus, RowsOK
    <3> QED BY <1>1, <2>1, <2>2, <3>2
  <2>3. CASE WorkerOn(m) /\ ~Exists(m)
    <3>1. status'[m] = status[m]
      BY <1>8, <2>3 DEF Update, SetStatus, WorkerOn
    <3> QED BY <2>3, <3>1, AttendedAtOnce DEF Exists
  <2>4. CASE WorkerOn(m) /\ Exists(m)
    <3>1. status'[m] = "sent" /\ attempts'[m] = worker.next
      BY <1>0, <1>8, <2>4 DEF Update, SetStatus, RowsOK, WorkerOn
    <3>2. CASE m \in Numbered /\ worker.next < MAX_TX_ATTEMPTS
      <4>1. worker'.pc = "checkRetry" /\ worker'.job = worker.job
        BY <1>0, <1>8, <2>4, <3>2 DEF Update, WorkerOn, WorkerOK
      <4>2. WorkerOn(m)'
        BY <1>0, <2>4, <4>1, WorkerStaysOn
      <4> QED BY <2>1, <3>1, <4>2 DEF Attended
    <3>3. CASE ~(m \in Numbered /\ worker.next < MAX_TX_ATTEMPTS)
      <4>1. ~Owes(m)'
        BY <3>1, <3>3 DEF Owes
      <4> QED BY <2>1, <3>1, <4>1 DEF Attended
    <3> QED BY <3>2, <3>3
  <2> QED BY <2>2, <2>3, <2>4
\* A worker that is about to retry does not vouch for a later round.
<1>9. ASSUME worker.pc \in {"checkRetry", "checkPending", "enqueueRetry"}, TableKept(m),
             status'[m] = status[m], attempts'[m] = attempts[m],
             Owes(m) => Handled(m) \/ QueuedJobs(m)' # {} \/ WorkerOn(m)'
      PROVE  Attended(m)'
  <2>1. ASSUME NEW b, Ahead(m, b) PROVE Ahead(m, b)'
    BY <1>h, <1>9, <2>1 DEF Ahead, TableKept
  <2>2. Owes(m)' <=> Owes(m)
    BY <1>9 DEF Owes
  <2> QED BY <1>0, <1>h, <1>9, <2>1, <2>2 DEF Attended, TableKept
<1>10. ASSUME CheckRetry PROVE Attended(m)'
  <2>1. /\ TableKept(m) /\ status' = status /\ attempts' = attempts /\ worker.pc = "checkRetry"
        /\ \/ /\ worker' = WorkerIdle
              /\ status[WorkerMsg] \notin {"queued", "sent"} \/ WorkerMsg \notin Numbered
           \/ worker'.pc = "checkPending" /\ worker'.job = worker.job
    BY <1>0, <1>10, TableKeeps DEF CheckRetry, WorkerOK
  <2>2. CASE ~WorkerOn(m)
    BY <1>1, <2>1, <2>2
  <2>3. CASE WorkerOn(m) /\ worker' # WorkerIdle
    <3>1. WorkerOn(m)'
      BY <1>0, <2>1, <2>3, WorkerStaysOn
    <3> QED BY <1>9, <2>1, <3>1
  <2>4. CASE WorkerOn(m) /\ worker' = WorkerIdle /\ Owes(m)
    <3>1. status[m] = "queued"
      BY <2>1, <2>4 DEF WorkerOn, Owes, WorkerIdle
    <3>2. attempts[m] = 0
      BY <3>1 DEF StallInv, Uncredited
    <3>3. PICK b \in SentRounds(m) : TRUE
      BY <2>1, <2>4 DEF StallInv, RetryAfterSent, WorkerOn
    <3>4. Ahead(m, b)
      BY <1>0, <3>1, <3>2, <3>3 DEF Attended
    <3>5. Handled(m) \/ QueuedJobs(m) # {}
      BY <2>1, <3>4 DEF Ahead
    <3>6. Handled(m) \/ QueuedJobs(m)' # {}
      BY <2>1, <3>5 DEF TableKept
    <3> QED BY <1>9, <2>1, <3>6
  <2>5. CASE ~Owes(m)
    BY <1>9, <2>1, <2>5
  <2> QED BY <2>2, <2>3, <2>4, <2>5
<1>11. ASSUME CheckPending PROVE Attended(m)'
  <2>1. /\ TableKept(m) /\ status' = status /\ attempts' = attempts /\ worker.pc = "checkPending"
        /\ \/ worker' = WorkerIdle /\ QueuedJobs(WorkerMsg) # {}
           \/ worker'.pc = "enqueueRetry" /\ worker'.job = worker.job
    BY <1>0, <1>11, TableKeeps DEF CheckPending, WorkerOK
  <2>2. CASE ~WorkerOn(m)
    BY <1>1, <2>1, <2>2
  <2>3. CASE WorkerOn(m) /\ worker' # WorkerIdle
    <3>1. WorkerOn(m)'
      BY <1>0, <2>1, <2>3, WorkerStaysOn
    <3> QED BY <1>9, <2>1, <3>1
  <2>4. CASE WorkerOn(m) /\ worker' = WorkerIdle
    <3>1. QueuedJobs(m) # {}
      BY <2>1, <2>4 DEF WorkerOn, WorkerIdle
    <3>2. QueuedJobs(m)' # {}
      BY <2>1, <3>1 DEF TableKept
    <3> QED BY <1>9, <2>1, <3>2
  <2> QED BY <2>2, <2>3, <2>4
<1>12. ASSUME EnqueueRetry PROVE Attended(m)'
  <2>1. /\ worker.pc = "enqueueRetry" /\ attempts' = attempts /\ WorkerMsg \in Messages
        /\ \/ /\ \E n \in 1 .. MaxTncs : InsertJobs(WorkerMsg, n, FALSE)
              /\ status' = status
           \/ MarkMessageFailed(WorkerMsg) /\ UNCHANGED <<lastId, jobs>>
    BY <1>0, <1>12 DEF EnqueueRetry, WorkerOK, JobsOK, WorkerMsg, Job
  <2>2. TableKept(m)
    BY <2>1, TableKeeps
  <2>3. CASE ~WorkerOn(m)
    <3>1. WorkerMsg # m
      BY <2>1, <2>3 DEF WorkerOn
    <3>2. status'[m] = status[m]
      BY <1>0, <2>1, <3>1 DEF MarkMessageFailed, RowsOK
    <3> QED BY <1>1, <2>1, <2>2, <2>3, <3>2
  <2>4. CASE WorkerOn(m) /\ \E n \in 1 .. MaxTncs : InsertJobs(m, n, FALSE)
    <3>1. PICK n \in 1 .. MaxTncs : InsertJobs(m, n, FALSE)
      BY <2>4
    <3>2. lastId + 1 \in QueuedJobs(m)'
      BY <3>1, InsertRows DEF QueuedJobs, JobsOf
    <3>3. CASE status' = status
      BY <1>9, <2>1, <2>2, <3>2, <3>3
    <3>4. CASE MarkMessageFailed(m)
      BY <1>0, <3>4, AttendedAtOnce DEF MarkMessageFailed, RowsOK
    <3> QED BY <2>1, <2>4, <3>3, <3>4 DEF WorkerOn
  <2>5. CASE WorkerOn(m) /\ MarkMessageFailed(m)
    BY <1>0, <2>5, AttendedAtOnce DEF MarkMessageFailed, RowsOK
  <2> QED BY <2>1, <2>3, <2>4, <2>5 DEF WorkerOn
<1>13. ASSUME RoundExhausted PROVE Attended(m)'
  <2> DEFINE c == jobs[worker.job].batch
  <2>1. /\ TableKept(m) /\ status' = status /\ attempts' = attempts /\ worker.pc = "exhausted"
        /\ worker.job \in JobIds
    BY <1>0, <1>13, TableKeeps DEF RoundExhausted, WorkerOK
  <2>2. CASE ~WorkerOn(m)
    BY <1>1, <2>1, <2>2
  <2>3. ASSUME NEW j \in Round PROVE j \in JobsOf(WorkerMsg) /\ jobs[j].batch = c
    BY <2>1, <2>3, InstantTellsRound DEF Round, JobsOf
  <2>4. CASE WorkerOn(m) /\ \E j \in Round : jobs[j].status \in {"queued", "processing"}
    <3>1. PICK j \in Round : jobs[j].status \in {"queued", "processing"}
      BY <2>4
    <3>2. jobs[j].status # "processing"
      BY <2>1, <2>3 DEF StallInv, InHandOnly, JobsOf
    <3>3. j \in QueuedJobs(m) /\ jobs[j].batch = c
      BY <2>3, <2>4, <3>1, <3>2 DEF QueuedJobs, WorkerOn
    <3>4. j \in QueuedJobs(m)' /\ jobs'[j].batch = c
      BY <2>1, <3>3 DEF TableKept
    <3>5. ASSUME NEW b, Ahead(m, b) PROVE Ahead(m, b)'
      BY <1>h, <2>1, <3>4, <3>5 DEF Ahead, TableKept
    <3> QED BY <1>0, <2>1, <3>4, <3>5 DEF Attended, TableKept
  <2>5. CASE WorkerOn(m) /\ worker'.pc = "markFailed" /\ worker'.job = worker.job
    <3>1. WorkerOn(m)' /\ jobs'[worker'.job].batch = jobs[worker.job].batch
      BY <1>0, <2>5, WorkerStaysOn
    <3> QED BY <1>0, <1>h, <2>1, <2>5, <3>1, AttendedFrame
  <2>6. CASE WorkerOn(m) /\ worker'.pc = "checkRetry" /\ worker'.job = worker.job /\ attempts[m] # 0
    <3>1. WorkerOn(m)'
      BY <1>0, <2>6, WorkerStaysOn
    <3> QED BY <2>1, <2>6, <3>1 DEF Attended
  <2>7. CASE /\ WorkerOn(m)
             /\ \E j \in Round : jobs[j].status = "sent"
             /\ ~(Exists(m) /\ attempts[m] \in 1 .. MAX_TX_ATTEMPTS - 1)
    <3>1. CASE status[m] \notin {"queued", "sent"}
      BY <2>1, <3>1, AttendedAtOnce
    <3>2. CASE status[m] \in {"queued", "sent"} /\ attempts[m] = 0
      <4>1. c \in SentRounds(m)
        BY <2>3, <2>7 DEF SentRounds, WorkerOn
      <4>2. Ahead(m, c)
        BY <1>0, <3>2, <4>1 DEF Attended
      <4>3. c \in Nat
        BY <1>0, <2>1 DEF JobsOK
      <4>4. Handled(m) \/ \E j \in QueuedJobs(m) : c < jobs[j].batch
        BY <2>1, <4>2, <4>3 DEF Ahead
      <4>5. Handled(m)' \/ \E j \in QueuedJobs(m)' : c < jobs'[j].batch
        BY <1>h, <2>1, <4>4 DEF TableKept
      <4>6. ASSUME NEW b \in Nat, Ahead(m, b) PROVE Ahead(m, b)'
        <5>1. CASE Handled(m)'
          BY <5>1 DEF Ahead
        <5>2. CASE ~Handled(m)' /\ \E j \in QueuedJobs(m) : b < jobs[j].batch
          BY <2>1, <5>2 DEF Ahead, TableKept
        <5>3. CASE ~Handled(m)' /\ b < c
          <6>1. PICK j \in QueuedJobs(m) : c < jobs[j].batch
            BY <1>h, <4>4, <5>3
          <6>2. jobs[j].batch \in Nat
            BY <1>0 DEF JobsOK, QueuedJobs, JobsOf
          <6>3. b < jobs[j].batch
            BY <4>3, <5>3, <6>1, <6>2
          <6> QED BY <2>1, <6>1, <6>3 DEF Ahead, TableKept
        <5> QED BY <1>h, <2>1, <4>6, <5>1, <5>2, <5>3 DEF Ahead
      <4>7. SentRounds(m) \subseteq Nat
        BY <1>0 DEF JobsOK, SentRounds, JobsOf
      <4>8. QueuedJobs(m)' # {} \/ Handled(m)'
        BY <4>5
      <4> QED BY <1>0, <2>1, <3>2, <4>6, <4>7, <4>8 DEF Attended, TableKept
    <3>3. CASE status[m] \in {"queued", "sent"} /\ attempts[m] # 0
      <4>1. attempts[m] \in Nat /\ MAX_TX_ATTEMPTS \in Nat
        BY <1>0, ConstantsAssumption DEF RowsOK
      <4>2. attempts[m] >= MAX_TX_ATTEMPTS
        BY <2>7, <3>3, <4>1 DEF Exists
      <4>3. status[m] # "queued"
        BY <3>3 DEF StallInv, Uncredited
      <4>4. ~Owes(m)'
        BY <2>1, <4>1, <4>2, <4>3 DEF Owes
      <4> QED BY <2>1, <3>3, <4>4 DEF Attended
    <3> QED BY <3>1, <3>2, <3>3
  <2>8. \/ \E j \in Round : jobs[j].status \in {"queued", "processing"}
        \/ worker'.pc = "markFailed" /\ worker'.job = worker.job
        \/ /\ worker'.pc = "checkRetry" /\ worker'.job = worker.job
           /\ attempts[WorkerMsg] \in 1 .. MAX_TX_ATTEMPTS - 1
        \/ /\ \E j \in Round : jobs[j].status = "sent"
           /\ ~(Exists(WorkerMsg) /\ attempts[WorkerMsg] \in 1 .. MAX_TX_ATTEMPTS - 1)
    BY <1>0, <1>13 DEF RoundExhausted, WorkerOK
  <2>9. MAX_TX_ATTEMPTS \in Nat
    BY ConstantsAssumption
  <2>10. WorkerOn(m) => WorkerMsg = m
    BY DEF WorkerOn
  <2>11. attempts[m] \in 1 .. MAX_TX_ATTEMPTS - 1 => attempts[m] # 0
    BY <2>9
  <2> QED BY <2>2, <2>4, <2>5, <2>6, <2>7, <2>8, <2>10, <2>11
<1>14. ASSUME FailMessage PROVE Attended(m)'
  <2>1. TableKept(m) /\ worker.pc = "markFailed" /\ attempts' = attempts
    BY <1>14, TableKeeps DEF FailMessage
  <2>2. CASE WorkerMsg = m
    BY <1>0, <1>14, <2>2, AttendedAtOnce DEF FailMessage, MarkMessageFailed, RowsOK
  <2>3. CASE WorkerMsg # m
    <3>1. status'[m] = status[m] /\ ~WorkerOn(m)
      BY <1>0, <1>14, <2>3 DEF FailMessage, MarkMessageFailed, RowsOK, WorkerOn
    <3> QED BY <1>1, <2>1, <3>1
  <2> QED BY <2>2, <2>3
<1> QED BY <1>2, <1>3, <1>4, <1>5, <1>6, <1>7, <1>8, <1>10, <1>11, <1>12, <1>13, <1>14 DEF WorkerStep

\* A handler gives its message up only when it has settled or erased it, or
\* queued its round.
LEMMA HandlersAttend ==
    ASSUME IndInv, Births, StallInv, NEW m \in Messages, Next, ~WorkerStep, ~CoreCrash, ~WebCrash
    PROVE  Attended(m)'
<1>0. /\ RowsOK /\ JobsOK /\ WorkerOK /\ RxOK /\ WebOK
      /\ Attended(m) /\ OwnJobs /\ m # NoMessage
  BY Parts, ConstantsAssumption DEF StallInv
<1>1. ASSUME TableKept(m), status'[m] = status[m], attempts'[m] = attempts[m], worker' = worker,
             Handled(m) => Handled(m)'
      PROVE  Attended(m)'
  <2>1. WorkerOn(m) => WorkerOn(m)' /\ jobs'[worker'.job].batch = jobs[worker.job].batch
    BY <1>0, <1>1, WorkerStaysOn DEF WorkerOn
  <2> QED BY <1>0, <1>1, <2>1, AttendedFrame
<1>2. ASSUME NEW r \in Receivers, rx[r].msg # m, \A q \in Receivers \ {r} : rx'[q] = rx[q],
             web' = web, Handled(m)
      PROVE  Handled(m)'
  BY <1>2 DEF Handled
<1>3. ASSUME NEW w \in WebThreads, web[w].msg # m, \A v \in WebThreads \ {w} : web'[v] = web[v],
             rx' = rx, Handled(m)
      PROVE  Handled(m)'
  BY <1>3 DEF Handled
<1>4. ASSUME NEW r \in Receivers, rx'[r].msg = m PROVE Attended(m)'
  BY <1>4, AttendedAtOnce DEF Handled
<1>5. ASSUME NEW w \in WebThreads, web'[w].msg = m PROVE Attended(m)'
  BY <1>5, AttendedAtOnce DEF Handled
<1>6. ASSUME NEW r \in Receivers, NEW k \in Messages, NEW v \in {"acked", "rejected"}, RxFind(r, k, v)
      PROVE  Attended(m)'
  <2>1. rx[r].msg # m /\ (\A q \in Receivers \ {r} : rx'[q] = rx[q]) /\ web' = web
    BY <1>0, <1>6 DEF RxFind, OwnJobs
  <2> QED BY <1>1, <1>2, <1>6, <2>1, TableKeeps DEF RxFind
<1>7. ASSUME NEW r \in Receivers, RxStep(r) PROVE Attended(m)'
  <2>1. (\A q \in Receivers \ {r} : rx'[q] = rx[q]) /\ web' = web /\ worker' = worker /\ attempts' = attempts
        /\ rx[r].pc # "idle"
    BY <1>0, <1>7 DEF RxStep, RxSelect, RxCancel, RxSettle, RxOK
  <2>2. CASE rx[r].msg = m /\ ~RxSettle(r)
    <3>1. rx'[r].msg = m
      BY <1>0, <1>7, <2>2 DEF RxStep, RxSelect, RxCancel, RxOK
    <3> QED BY <1>4, <3>1
  <2>3. CASE rx[r].msg = m /\ RxSettle(r)
    <3>1. status'[m] \notin {"queued", "sent"}
      BY <1>0, <2>3 DEF RxSettle, SetStatus, RowsOK, RxOK, Exists
    <3> QED BY <3>1, AttendedAtOnce
  <2>4. CASE rx[r].msg # m
    <3>1. status'[m] = status[m]
      BY <1>0, <1>7, <2>4 DEF RxStep, RxSelect, RxCancel, RxSettle, SetStatus, RowsOK
    <3>2. TableKept(m)
      <4>1. ASSUME NEW j \in rx[r].todo, CancelJob(j), UNCHANGED lastId PROVE TableKept(m)
        <5>1. j \in JobIds /\ jobs[j].msg # m
          BY <1>0, <2>4 DEF OwnJobs, RxOK
        <5> QED BY <4>1, <5>1, CancelRow, TableKeeps
      <4> QED BY <1>7, <4>1, TableKeeps DEF RxStep, RxSelect, RxCancel, RxSettle
    <3> QED BY <1>1, <1>2, <2>1, <2>4, <3>1, <3>2
  <2> QED BY <2>2, <2>3, <2>4
<1>8. ASSUME NEW w \in WebThreads, NEW k \in Messages,
             Send(w, k) \/ StartRetry(w, k) \/ StartDelete(w, k)
      PROVE  Attended(m)'
  <2>1. /\ web'[w].msg = k /\ (\A v \in WebThreads \ {w} : web'[v] = web[v])
        /\ rx' = rx /\ worker' = worker /\ attempts' = attempts /\ web[w].msg = NoMessage
    BY <1>0, <1>8, ThreadRow DEF Send, StartRetry, StartDelete, OwnJobs
  <2>2. CASE k = m
    BY <1>5, <2>1, <2>2
  <2>3. CASE k # m
    <3>1. status'[m] = status[m] /\ TableKept(m)
      BY <1>0, <1>8, <2>3, TableKeeps DEF Send, StartRetry, StartDelete, RowsOK
    <3> QED BY <1>0, <1>1, <1>3, <2>1, <3>1
  <2> QED BY <2>2, <2>3
<1>9. ASSUME NEW w \in WebThreads, WebStep(w) PROVE Attended(m)'
  <2>1. (\A v \in WebThreads \ {w} : web'[v] = web[v]) /\ rx' = rx /\ worker' = worker
        /\ web[w].pc # "idle"
    BY <1>9, ThreadRow DEF WebStep, WebSelect, WebCancel, Requeue, Erase, WebEnqueue
  <2>2. CASE web[w].msg = m
    <3>1. CASE WebSelect(w) \/ WebCancel(w)
      BY <1>5, <2>2, <3>1, ThreadRow
    <3>2. CASE Requeue(w)
      <4>1. web'[w].msg = m \/ (~Exists(m) /\ status' = status)
        BY <2>2, <3>2, ThreadRow DEF Requeue, SetStatus
      <4> QED BY <1>5, <4>1, AttendedAtOnce DEF Exists
    <3>3. CASE Erase(w)
      <4>1. status'[m] \notin {"queued", "sent"}
        BY <1>0, <2>2, <3>3 DEF Erase, SetStatus, RowsOK, Exists
      <4> QED BY <4>1, AttendedAtOnce
    <3>4. CASE WebEnqueue(w) /\ \E n \in 1 .. MaxTncs : InsertJobs(m, n, TRUE) /\ UNCHANGED status
      <4>1. PICK n \in 1 .. MaxTncs : InsertJobs(m, n, TRUE) /\ UNCHANGED status
        BY <3>4
      <4>2. lastId + 1 \in QueuedJobs(m)' /\ jobs'[lastId + 1].batch = lastId + 1
        BY <4>1, InsertRows DEF QueuedJobs, JobsOf
      <4>3. SentRounds(m)' \subseteq SentRounds(m)
        BY <4>1, TableKeeps DEF TableKept
      <4>4. \A b \in SentRounds(m) : b \in Nat /\ b < lastId + 1
        BY <1>0 DEF JobsOK, SentRounds, JobsOf
      <4>5. \A b \in SentRounds(m)' : Ahead(m, b)'
        BY <4>2, <4>3, <4>4 DEF Ahead
      <4> QED BY <4>2, <4>5 DEF Attended
    <3>5. CASE WebEnqueue(w) /\ MarkMessageFailed(m)
      BY <1>0, <3>5, AttendedAtOnce DEF MarkMessageFailed, RowsOK
    <3> QED BY <1>9, <2>2, <3>1, <3>2, <3>3, <3>4, <3>5 DEF WebStep, WebEnqueue
  <2>3. CASE web[w].msg # m
    <3>1. status'[m] = status[m] /\ attempts'[m] = attempts[m]
      <4>1. CASE Requeue(w)
        BY <1>0, <2>3, <4>1 DEF Requeue, SetStatus, RowsOK
      <4>2. CASE ~Requeue(w)
        BY <1>0, <1>9, <2>3, <4>2 DEF WebStep, WebSelect, WebCancel, Erase, WebEnqueue, SetStatus,
           MarkMessageFailed, RowsOK
      <4> QED BY <4>1, <4>2
    <3>2. TableKept(m)
      <4>1. ASSUME NEW j \in web[w].todo, CancelJob(j), UNCHANGED lastId PROVE TableKept(m)
        <5>1. j \in JobIds /\ jobs[j].msg # m
          BY <1>0, <2>3 DEF OwnJobs, WebOK
        <5> QED BY <4>1, <5>1, CancelRow, TableKeeps
      <4>2. CASE WebEnqueue(w)
        <5>1. web[w].msg \in Messages
          BY <1>0, <4>2 DEF WebEnqueue, WebOK
        <5> QED BY <4>2, <5>1, TableKeeps DEF WebEnqueue
      <4>3. CASE WebCancel(w)
        BY <4>1, <4>3 DEF WebCancel
      <4> QED BY <1>9, <4>2, <4>3, TableKeeps DEF WebStep, WebSelect, Requeue, Erase
    <3> QED BY <1>1, <1>3, <2>1, <2>3, <3>1, <3>2
  <2> QED BY <2>2, <2>3
<1>10. ASSUME CoreRestart PROVE Attended(m)'
  <2>1. TableKept(m) /\ status' = status /\ attempts' = attempts /\ ~WorkerOn(m)
        /\ (Handled(m)' <=> Handled(m))
    BY <1>10, TableKeeps DEF CoreRestart, WorkerOn, Handled
  <2> QED BY <1>0, <2>1, AttendedFrame
<1> QED BY <1>6, <1>7, <1>8, <1>9, <1>10 DEF Next

StallFree == SentInHand /\ (NoCrash => StallInv)

LEMMA InitStallFree == Init => StallFree
<1> SUFFICES ASSUME Init PROVE SentInHand /\ StallInv
  BY DEF StallFree
<1>1. JobIds = {} /\ worker = WorkerIdle
  BY DEF Init, JobIds
<1>2. SentInHand /\ InHandOnly /\ Credited /\ RetryAfterSent
  BY <1>1 DEF SentInHand, InHandOnly, Credited, RetryAfterSent, WorkerIdle
<1>3. OwnJobs /\ Uncredited
  BY DEF Init, OwnJobs, Uncredited, RxIdle, WebIdle
<1>4. \A m \in Messages : Attended(m)
  BY DEF Init, Attended, Owes
<1> QED BY <1>2, <1>3, <1>4 DEF StallInv

LEMMA NextKeepsStallFree ==
    ASSUME IndInv, Instants, Births, StallFree, [Next]_vars
    PROVE  StallFree'
<1>1. CASE Next
  <2>1. SentInHand'
    BY <1>1, NextKeepsSentInHand DEF StallFree
  <2>2. ASSUME NoCrash' PROVE StallInv'
    <3>1. crashes \in [core : 0 .. MaxCoreCrashes, web : 0 .. MaxWebCrashes]
      BY Parts DEF RowsOK
    <3>2. ~CoreCrash
      BY <2>2, <3>1 DEF CoreCrash, NoCrash
    <3>3. ~WebCrash
      BY <2>2, <3>1 DEF WebCrash, NoCrash
    <3>4. crashes' = crashes
      BY <1>1, <3>2, <3>3 DEF Next, WorkerStep, ExpireDirectMessageTimeouts, Claim, Reschedule, Skip,
         Transmit, MarkSent, TransmitFails, Register, Update, CheckRetry, CheckPending, EnqueueRetry,
         RoundExhausted, FailMessage, RxFind, RxStep, RxSelect, RxCancel, RxSettle, Send, StartRetry,
         StartDelete, WebStep, WebSelect, WebCancel, Requeue, Erase, WebEnqueue, CoreRestart
    <3>5. StallInv
      BY <2>2, <3>4 DEF StallFree, NoCrash
    <3>6. InHandOnly' /\ OwnJobs' /\ Uncredited'
      BY <1>1, <3>2, <3>5, NextKeepsInHand, NextKeepsOwnJobs, NextKeepsUncredited DEF StallInv
    <3>7. Credited' /\ RetryAfterSent'
      BY <1>1, <3>5, NextKeepsCredited, NextKeepsRetryAfterSent DEF StallInv, StallFree
    <3>8. \A m \in Messages : Attended(m)'
      BY <1>1, <3>2, <3>3, <3>5, WorkerAttends, HandlersAttend
    <3> QED BY <3>6, <3>7, <3>8 DEF StallInv
  <2> QED BY <2>1, <2>2 DEF StallFree
<1>2. CASE UNCHANGED vars
  <2>1. SentInHand' /\ (NoCrash' => NoCrash)
    BY <1>2 DEF vars, StallFree, SentInHand, NoCrash
  <2>2. ASSUME StallInv PROVE StallInv'
    <3>1. InHandOnly' /\ OwnJobs' /\ Uncredited' /\ Credited'
      BY <1>2, <2>2 DEF vars, StallInv, InHandOnly, OwnJobs, Uncredited, Credited, JobIds
    <3>2. RetryAfterSent'
      BY <1>2, <2>2 DEF vars, StallInv, RetryAfterSent, SentRounds, WorkerMsg, JobsOf, JobIds
    <3>3. ASSUME NEW m \in Messages PROVE Attended(m)'
      <4>1. Attended(m) /\ TableKept(m)
        BY <1>2, <2>2, TableKeeps DEF vars, StallInv
      <4>2. (WorkerOn(m)' <=> WorkerOn(m)) /\ (Handled(m)' <=> Handled(m))
        BY <1>2 DEF vars, WorkerOn, WorkerMsg, Handled
      <4> QED BY <1>2, <4>1, <4>2, AttendedFrame DEF vars
    <3> QED BY <3>1, <3>2, <3>3 DEF StallInv
  <2> QED BY <2>1, <2>2 DEF StallFree
<1> QED BY <1>1, <1>2

\* As long as neither process has crashed no message is forgotten: one that owes
\* a round has a job queued or with the worker, or a handler at work on it,
\* whatever is answered, failed, held back, retried or deleted, by any number
\* of requests at once.
THEOREM NobodyForgotten == Spec => [](NoCrash => NoStall)
<1>1. ASSUME StallFree, NoCrash PROVE NoStall
  <2> SUFFICES ASSUME NEW m \in Messages, Owes(m) PROVE InService(m)
    BY DEF NoStall, Owes
  <2>1. Handled(m) \/ QueuedJobs(m) # {} \/ WorkerOn(m)
    BY <1>1 DEF StallFree, StallInv, Attended
  <2> QED BY <2>1 DEF InService, Handled, QueuedJobs, WorkerOn
<1>2. StallFree => (NoCrash => NoStall)
  BY <1>1
<1> DEFINE Inv == Instants /\ Births /\ StallFree
<1>3. Init => Inv
  BY InitStallFree, InitRounds DEF RoundsInv
<1>4. IndInv /\ Inv /\ [Next]_vars => Inv'
  <2>1. Instants /\ Births /\ UNCHANGED vars => (Instants /\ Births)'
    BY DEF vars, Instants, Births, JobsOf, JobIds, InRequest
  <2> QED BY <2>1, NextKeepsStallFree, NextKeepsInstants, NextKeepsBirths
<1> QED BY <1>2, <1>3, <1>4, Invariance, PTL DEF Spec
=============================================================================
