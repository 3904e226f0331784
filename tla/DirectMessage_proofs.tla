------------------------ MODULE DirectMessage_proofs ------------------------
(***************************************************************************)
(* Proofs about DirectMessage for all values of its constants: the         *)
(* invariants TypeOK and Consistent, that a settled message stays settled, *)
(* and that the job table implements the at-most-once queue.               *)
(***************************************************************************)
EXTENDS DirectMessage, FiniteSetTheorems, TLAPS

-----------------------------------------------------------------------------
(* The inductive invariant in four parts, by the variables it speaks of.   *)

RowsOK ==
    /\ status \in [Messages -> {"none", "queued", "sent", "acked", "rejected", "failed", "deleted"}]
    /\ attempts \in [Messages -> Nat]
    /\ crashes \in [core : 0 .. MaxCoreCrashes, web : 0 .. MaxWebCrashes]

JobsOK ==
    /\ lastId \in Nat
    /\ jobs \in [JobIds -> Job]
    /\ \A j \in JobIds :
         jobs[j].batch \in 1 .. lastId /\ jobs[j].scheduled_at \in -lastId .. lastId

WorkerOK ==
    /\ worker \in [pc : WorkerPc, job : 0 .. lastId, next : Nat]
    /\ worker.pc \notin {"idle", "down"} => worker.job \in JobIds
    /\ worker.pc \in {"claimed", "transmitted"} =>
         jobs[worker.job].status = "processing" /\ jobs[worker.job].attempt_count > 0

RxOK ==
    /\ rx \in [Receivers -> [pc : {"idle", "select", "cancel"},
                             msg : Messages \cup {NoMessage},
                             verdict : {"acked", "rejected"}, todo : SUBSET JobIds]]
    /\ \A r \in Receivers : rx[r].pc # "idle" => rx[r].msg \in Messages

WebOK ==
    /\ web \in [WebThreads -> [op : {"none", "send", "retry", "delete"},
                               pc : {"idle", "select", "cancel", "enqueue"},
                               msg : Messages \cup {NoMessage}, todo : SUBSET JobIds]]
    /\ \A w \in WebThreads :
         /\ web[w].pc # "idle" => web[w].msg \in Messages
         /\ web[w].pc = "enqueue" => web[w].op # "delete"

\* The parts are the invariant, in this state and in the next.
LEMMA Parts ==
    /\ IndInv <=> RowsOK /\ JobsOK /\ WorkerOK /\ RxOK /\ WebOK
    /\ IndInv' <=> (RowsOK /\ JobsOK /\ WorkerOK /\ RxOK /\ WebOK)'
BY DEF IndInv, TypeOK, Consistent, RowsOK, JobsOK, WorkerOK, RxOK, WebOK

\* Handlers refer to jobs by id, and ids are never taken back.
LEMMA HandlersFrame ==
    ASSUME IndInv, JobIds \subseteq JobIds'
    PROVE  /\ UNCHANGED rx => RxOK'
           /\ UNCHANGED web => WebOK'
BY Parts DEF RxOK, WebOK

-----------------------------------------------------------------------------
(* Lemmas about the operators the actions are built from.                  *)

\* The count of the rounds of a message is a number: its jobs share a finite set
\* of instants.
LEMMA RoundCountType ==
    ASSUME IndInv
    PROVE  \A m : RoundCount(m) \in Nat
<1> SUFFICES ASSUME NEW m PROVE RoundCount(m) \in Nat
  OBVIOUS
<1> DEFINE S == {jobs[j].scheduled_at :
                   j \in {k \in JobsOf(m) : jobs[k].status \in {"processing", "sent"}}}
<1>1. S \subseteq -lastId .. lastId
  BY Parts DEF JobsOK, JobsOf
<1>2. IsFiniteSet(-lastId .. lastId)
  BY Parts, FS_Interval DEF JobsOK
<1>3. Cardinality(S) \in Nat
  BY <1>1, <1>2, FS_Subset, FS_CardinalityType
<1> QED BY <1>3 DEF RoundCount

\* A new round leaves the rows that are there as they are, and adds queued ones.
LEMMA InsertJobsAdds ==
    ASSUME IndInv, NEW m \in Messages, NEW n \in 1 .. MaxTncs, NEW b \in BOOLEAN,
           InsertJobs(m, n, b)
    PROVE  /\ JobIds \subseteq JobIds' /\ lastId' >= lastId
           /\ \A j \in JobIds : jobs'[j] = jobs[j]
           /\ \A j \in JobIds' \ JobIds : jobs'[j].status = "queued" /\ jobs'[j].msg = m
           /\ JobsOK'
<1>1. lastId \in Nat /\ lastId' \in Nat /\ lastId' = lastId + n /\ n \in Nat /\ n > 0
  BY Parts, ConstantsAssumption DEF JobsOK, InsertJobs
<1>2. JobIds \subseteq JobIds' /\ JobIds' = 1 .. lastId + n
  BY <1>1 DEF JobIds
<1>3. jobs' = [j \in JobIds' |-> IF j <= lastId THEN jobs[j] ELSE NewJob(m, lastId + 1, b)]
  BY <1>2 DEF InsertJobs
<1>4. \A j \in JobIds : jobs'[j] = jobs[j]
  BY <1>1, <1>2, <1>3 DEF JobIds
<1>5. \A j \in JobIds' \ JobIds : jobs'[j] = NewJob(m, lastId + 1, b)
  BY <1>1, <1>2, <1>3 DEF JobIds
<1>6. NewJob(m, lastId + 1, b) \in Job
  BY <1>1 DEF NewJob, Job, JobStatus
<1>7. \A j \in JobIds : jobs[j] \in Job
  BY Parts DEF JobsOK
<1>8. jobs' \in [JobIds' -> Job]
  BY <1>2, <1>3, <1>4, <1>5, <1>6, <1>7
<1>9. \A j \in JobIds : jobs[j].batch \in 1 .. lastId /\ jobs[j].scheduled_at \in -lastId .. lastId
  BY Parts DEF JobsOK
<1>10. ASSUME NEW j \in JobIds'
       PROVE  jobs'[j].batch \in 1 .. lastId' /\ jobs'[j].scheduled_at \in -lastId' .. lastId'
  <2>1. CASE j \in JobIds
    BY <2>1, <1>1, <1>4, <1>9
  <2>2. CASE j \notin JobIds
    BY <2>2, <1>1, <1>5 DEF NewJob
  <2> QED BY <2>1, <2>2
<1>11. \A j \in JobIds' \ JobIds : jobs'[j].status = "queued" /\ jobs'[j].msg = m
  BY <1>5 DEF NewJob
<1> QED BY <1>1, <1>2, <1>4, <1>8, <1>10, <1>11 DEF JobsOK

\* A row replaced by a row of the same round at a known instant.
LEMMA JobReplaced ==
    ASSUME IndInv, NEW j \in JobIds, NEW r \in Job,
           r.batch \in 1 .. lastId, r.scheduled_at \in -lastId .. lastId,
           jobs' = [jobs EXCEPT ![j] = r], UNCHANGED lastId
    PROVE  JobIds' = JobIds /\ JobsOK' /\ jobs'[j] = r /\ \A k \in JobIds \ {j} : jobs'[k] = jobs[k]
<1>1. jobs \in [JobIds -> Job] /\ JobIds' = JobIds
  BY Parts DEF JobsOK, JobIds
<1>2. jobs' \in [JobIds -> Job] /\ jobs'[j] = r /\ \A k \in JobIds \ {j} : jobs'[k] = jobs[k]
  BY <1>1
<1> QED BY <1>1, <1>2, Parts DEF JobsOK

\* The rows after SetJobStatus: one status differs.
LEMMA JobStatusSet ==
    ASSUME IndInv, NEW j \in JobIds, NEW s \in JobStatus, SetJobStatus(j, s), UNCHANGED lastId
    PROVE  /\ JobIds' = JobIds /\ JobsOK'
           /\ jobs'[j] = [jobs[j] EXCEPT !.status = s]
           /\ \A k \in JobIds \ {j} : jobs'[k] = jobs[k]
<1> DEFINE r == [jobs[j] EXCEPT !.status = s]
<1>1. jobs[j] \in Job /\ jobs[j].batch \in 1 .. lastId /\ jobs[j].scheduled_at \in -lastId .. lastId
  BY Parts DEF JobsOK
<1>2. r \in Job /\ r.batch = jobs[j].batch /\ r.scheduled_at = jobs[j].scheduled_at
  BY <1>1 DEF Job
<1>3. jobs' = [jobs EXCEPT ![j] = r]
  BY DEF SetJobStatus
<1> HIDE DEF r
<1>4. JobIds' = JobIds /\ JobsOK' /\ jobs'[j] = r /\ \A k \in JobIds \ {j} : jobs'[k] = jobs[k]
  BY <1>1, <1>2, <1>3, JobReplaced
<1> QED BY <1>4 DEF r

\* Cancelling touches a queued job only, and only its status.
LEMMA CancelJobKeeps ==
    ASSUME IndInv, NEW j \in JobIds, CancelJob(j), UNCHANGED lastId
    PROVE  /\ JobIds' = JobIds /\ JobsOK'
           /\ \A k \in JobIds \ {j} : jobs'[k] = jobs[k]
           /\ IF jobs[j].status = "queued"
              THEN jobs'[j] = [jobs[j] EXCEPT !.status = "cancelled"] ELSE jobs' = jobs
<1>1. CASE jobs[j].status = "queued"
  <2>1. SetJobStatus(j, "cancelled") /\ "cancelled" \in JobStatus
    BY <1>1 DEF CancelJob, SetJobStatus, JobStatus
  <2> QED BY <1>1, <2>1, JobStatusSet
<1>2. CASE jobs[j].status # "queued"
  BY <1>2, Parts DEF CancelJob, JobsOK, JobIds
<1> QED BY <1>1, <1>2

-----------------------------------------------------------------------------
(* The inductive invariant, one lemma for each process.                    *)

LEMMA StutterKeeps == ASSUME IndInv, UNCHANGED vars PROVE IndInv'
BY DEF IndInv, TypeOK, Consistent, vars, JobIds, WorkerPc, Job, JobStatus

LEMMA InitIndInv == Init => IndInv
<1> SUFFICES ASSUME Init PROVE IndInv
  OBVIOUS
<1>1. JobIds = {} /\ 1 .. 0 = {}
  BY DEF Init, JobIds
<1>2. TypeOK
  BY <1>1, ConstantsAssumption DEF Init, TypeOK, WorkerIdle, WorkerPc, RxIdle, WebIdle
<1>3. Consistent
  BY <1>1 DEF Init, Consistent, WorkerIdle, RxIdle, WebIdle
<1> QED BY <1>2, <1>3 DEF IndInv

\* Where the worker may go without a change to the job table.
LEMMA WorkerGoes ==
    ASSUME IndInv, UNCHANGED <<lastId, jobs>>,
           \/ worker' = WorkerIdle
           \/ /\ worker.pc \notin {"idle", "down"}
              /\ \E pc \in WorkerPc \ {"claimed"}, n \in Nat :
                   /\ pc = "transmitted" => worker.pc = "claimed"
                   /\ worker' = [worker EXCEPT !.pc = pc, !.next = n]
    PROVE  JobsOK' /\ WorkerOK' /\ JobIds' = JobIds
<1>1. lastId \in Nat /\ JobIds' = JobIds /\ JobsOK'
  BY Parts DEF JobsOK, JobIds
<1>2. WorkerOK
  BY Parts
<1>3. CASE worker' = WorkerIdle
  BY <1>1, <1>3 DEF WorkerOK, WorkerIdle, WorkerPc
<1>4. ASSUME worker.pc \notin {"idle", "down"}, NEW pc \in WorkerPc \ {"claimed"}, NEW n \in Nat,
             pc = "transmitted" => worker.pc = "claimed",
             worker' = [worker EXCEPT !.pc = pc, !.next = n]
      PROVE  WorkerOK'
  <2>1. worker'.pc = pc /\ worker'.job = worker.job
    BY <1>2, <1>4 DEF WorkerOK
  <2>2. worker' \in [pc : WorkerPc, job : 0 .. lastId', next : Nat]
    BY <1>2, <1>4 DEF WorkerOK
  <2>3. worker.job \in JobIds'
    BY <1>1, <1>2, <1>4 DEF WorkerOK
  <2>4. worker'.pc \in {"claimed", "transmitted"} =>
          jobs'[worker'.job].status = "processing" /\ jobs'[worker'.job].attempt_count > 0
    BY <1>2, <1>4, <2>1 DEF WorkerOK
  <2> QED BY <2>1, <2>2, <2>3, <2>4 DEF WorkerOK
<1> QED BY <1>1, <1>3, <1>4

\* The same, in the form in which most actions say it.
LEMMA GotoGoes ==
    ASSUME IndInv, worker.pc \notin {"idle", "down"}, NEW pc \in WorkerPc \ {"claimed"},
           pc = "transmitted" => worker.pc = "claimed",
           UNCHANGED <<lastId, jobs>>, worker' = [worker EXCEPT !.pc = pc]
    PROVE  JobsOK' /\ WorkerOK' /\ JobIds' = JobIds
<1>1. worker.next \in Nat /\ worker' = [worker EXCEPT !.pc = pc, !.next = worker.next]
  BY Parts DEF WorkerOK
<1> QED BY <1>1, WorkerGoes

\* The worker closes the job in its hand.
LEMMA JobClosed ==
    ASSUME IndInv, worker.pc \in {"claimed", "transmitted"}, NEW s \in JobStatus,
           NEW pc \in WorkerPc \ {"claimed", "transmitted"},
           SetJobStatus(worker.job, s), worker' = [worker EXCEPT !.pc = pc], UNCHANGED lastId
    PROVE  JobsOK' /\ WorkerOK' /\ JobIds' = JobIds
<1>1. WorkerOK /\ worker.job \in JobIds
  BY Parts DEF WorkerOK
<1>2. JobsOK' /\ JobIds' = JobIds
  BY <1>1, JobStatusSet
<1>3. worker' \in [pc : WorkerPc, job : 0 .. lastId', next : Nat] /\ worker'.pc = pc
      /\ worker'.job = worker.job
  BY <1>1 DEF WorkerOK
<1> QED BY <1>1, <1>2, <1>3 DEF WorkerOK

LEMMA WorkerKeepsIndInv == ASSUME IndInv, WorkerStep PROVE IndInv'
<1> USE DEF At
<1>0. RowsOK /\ JobsOK /\ WorkerOK
  BY Parts
<1>1. ASSUME NEW m \in Messages, ExpireDirectMessageTimeouts(m) PROVE IndInv'
  <2>1. RowsOK'
    BY <1>0, <1>1 DEF ExpireDirectMessageTimeouts, RowsOK
  <2>2. JobsOK' /\ WorkerOK' /\ JobIds' = JobIds
    BY <1>0, <1>1 DEF ExpireDirectMessageTimeouts, JobsOK, WorkerOK, JobIds
  <2> QED BY <1>1, <2>1, <2>2, HandlersFrame, Parts DEF ExpireDirectMessageTimeouts
<1>2. ASSUME NEW j \in JobIds, Claim(j) PROVE IndInv'
  <2> DEFINE r == [jobs[j] EXCEPT !.status = "processing", !.attempt_count = @ + 1]
  <2>1. jobs[j] \in Job /\ jobs[j].batch \in 1 .. lastId /\ jobs[j].scheduled_at \in -lastId .. lastId
        /\ jobs[j].attempt_count \in Nat
    BY <1>0 DEF JobsOK, Job
  <2>2. r \in Job /\ r.batch = jobs[j].batch /\ r.scheduled_at = jobs[j].scheduled_at
        /\ r.status = "processing" /\ r.attempt_count > 0
    <3>1. jobs[j].attempt_count + 1 \in Nat /\ jobs[j].attempt_count + 1 > 0
      BY <2>1
    <3> DEFINE a == jobs[j].attempt_count + 1
               x == jobs[j]
    <3>3. r = [x EXCEPT !.status = "processing", !.attempt_count = a]
      OBVIOUS
    <3>4. x \in Job /\ a \in Nat
      BY <2>1, <3>1
    <3> HIDE DEF r, a, x
    <3>5. r \in Job /\ r.batch = x.batch /\ r.scheduled_at = x.scheduled_at
          /\ r.status = "processing" /\ r.attempt_count = a
      BY <3>3, <3>4 DEF Job, JobStatus
    <3> QED BY <3>1, <3>5 DEF a, x
  <2>3. jobs' = [jobs EXCEPT ![j] = r] /\ UNCHANGED lastId
    BY <1>2 DEF Claim
  <2> HIDE DEF r
  <2>4. JobsOK' /\ JobIds' = JobIds /\ jobs'[j] = r
    BY <2>1, <2>2, <2>3, JobReplaced
  <2>5. worker' = [worker EXCEPT !.pc = "claimed", !.job = j] /\ j \in 0 .. lastId
    BY <1>2 DEF Claim, JobIds
  <2>6. worker' \in [pc : WorkerPc, job : 0 .. lastId', next : Nat] /\ worker'.job = j
    BY <1>0, <2>3, <2>5 DEF WorkerOK, WorkerPc
  <2>7. WorkerOK'
    BY <2>2, <2>4, <2>6 DEF WorkerOK
  <2>8. RowsOK'
    BY <1>0, <1>2 DEF Claim, RowsOK
  <2> QED BY <1>2, <2>4, <2>7, <2>8, HandlersFrame, Parts DEF Claim
<1>3. ASSUME Reschedule PROVE IndInv'
  <2> DEFINE j == worker.job
  <2>1. PICK t \in {jobs[j].batch, -jobs[j].batch, -j} :
          jobs' = [jobs EXCEPT ![j].status = "queued", ![j].scheduled_at = t,
                               ![j].paced = TRUE, ![j].attempt_count = @ - 1]
    BY <1>3 DEF Reschedule
  <2> DEFINE r == [jobs[j] EXCEPT !.status = "queued", !.scheduled_at = t, !.paced = TRUE,
                                  !.attempt_count = @ - 1]
  <2>2. j \in JobIds /\ j \in 1 .. lastId /\ lastId \in Nat
    BY <1>0, <1>3 DEF Reschedule, WorkerOK, JobsOK, JobIds
  <2>3. jobs[j] \in Job /\ jobs[j].batch \in 1 .. lastId /\ jobs[j].attempt_count \in Nat
        /\ jobs[j].attempt_count > 0
    BY <1>0, <1>3, <2>2 DEF Reschedule, JobsOK, WorkerOK, Job
  <2>4. t \in -lastId .. lastId
    BY <2>1, <2>2, <2>3
  <2>5. r \in Job /\ r.batch = jobs[j].batch /\ r.scheduled_at = t
    <3>1. jobs[j].attempt_count - 1 \in Nat /\ t \in Int
      BY <2>2, <2>3, <2>4
    <3> DEFINE a == jobs[j].attempt_count - 1
               x == jobs[j]
    <3>3. r = [x EXCEPT !.status = "queued", !.scheduled_at = t, !.paced = TRUE,
                        !.attempt_count = a]
      OBVIOUS
    <3>4. x \in Job /\ a \in Nat
      BY <2>3, <3>1
    <3> HIDE DEF r, a, x
    <3>5. r \in Job /\ r.batch = x.batch /\ r.scheduled_at = t
      BY <3>1, <3>3, <3>4 DEF Job, JobStatus
    <3> QED BY <3>5 DEF x
  <2>6. jobs' = [jobs EXCEPT ![j] = r] /\ UNCHANGED lastId
    BY <1>3, <2>1 DEF Reschedule
  <2> HIDE DEF r
  <2>7. JobsOK' /\ JobIds' = JobIds
    BY <2>2, <2>3, <2>4, <2>5, <2>6, JobReplaced
  <2>8. WorkerOK'
    BY <1>3, <2>2, <2>6 DEF Reschedule, WorkerOK, WorkerIdle, WorkerPc
  <2>9. RowsOK'
    BY <1>0, <1>3 DEF Reschedule, RowsOK
  <2> QED BY <1>3, <2>7, <2>8, <2>9, HandlersFrame, Parts DEF Reschedule
<1>4. ASSUME Skip PROVE IndInv'
  <2>1. JobsOK' /\ WorkerOK' /\ JobIds' = JobIds
    BY <1>4, JobClosed DEF Skip, Goto, WorkerPc, JobStatus
  <2> QED BY <1>0, <1>4, <2>1, HandlersFrame, Parts DEF Skip, RowsOK
<1>5. ASSUME Transmit PROVE IndInv'
  <2>1. JobsOK' /\ WorkerOK' /\ JobIds' = JobIds
    BY <1>5, GotoGoes DEF Transmit, Goto, WorkerPc
  <2> QED BY <1>0, <1>5, <2>1, HandlersFrame, Parts DEF Transmit, RowsOK
<1>6. ASSUME MarkSent PROVE IndInv'
  <2>1. JobsOK' /\ WorkerOK' /\ JobIds' = JobIds
    BY <1>6, JobClosed DEF MarkSent, Goto, WorkerPc, JobStatus
  <2> QED BY <1>0, <1>6, <2>1, HandlersFrame, Parts DEF MarkSent, RowsOK
<1>7. ASSUME TransmitFails PROVE IndInv'
  <2>1. JobsOK' /\ WorkerOK' /\ JobIds' = JobIds
    BY <1>7, JobClosed DEF TransmitFails, Goto, WorkerPc, JobStatus
  <2> QED BY <1>0, <1>7, <2>1, HandlersFrame, Parts DEF TransmitFails, RowsOK
<1>8. ASSUME Register PROVE IndInv'
  <2> DEFINE n == IF attempts[WorkerMsg] >= RoundCount(WorkerMsg)
                  THEN attempts[WorkerMsg] ELSE RoundCount(WorkerMsg)
  <2>1. WorkerMsg \in Messages
    BY <1>0, <1>8 DEF Register, WorkerOK, JobsOK, WorkerMsg, Job
  <2>2. n \in Nat
    BY <1>0, <2>1, RoundCountType DEF RowsOK
  <2>3. worker' = WorkerIdle \/ worker' = [worker EXCEPT !.pc = "update", !.next = n]
    BY <1>8 DEF Register
  <2> HIDE DEF n
  <2>4. JobsOK' /\ WorkerOK' /\ JobIds' = JobIds
    BY <1>8, <2>2, <2>3, WorkerGoes DEF Register, WorkerPc
  <2> QED BY <1>0, <1>8, <2>4, HandlersFrame, Parts DEF Register, RowsOK
<1>9. ASSUME Update PROVE IndInv'
  <2>1. WorkerMsg \in Messages /\ worker.next \in Nat
    BY <1>0, <1>9 DEF Update, WorkerOK, JobsOK, WorkerMsg, Job
  <2>2. RowsOK'
    BY <1>0, <1>9, <2>1 DEF Update, RowsOK, SetStatus
  <2>3. worker' = WorkerIdle \/ worker' = [worker EXCEPT !.pc = "checkRetry"]
    BY <1>9 DEF Update
  <2>4. JobsOK' /\ WorkerOK' /\ JobIds' = JobIds
    BY <1>9, <2>3, WorkerGoes, GotoGoes DEF Update, WorkerPc
  <2> QED BY <1>9, <2>2, <2>4, HandlersFrame, Parts DEF Update
<1>10. ASSUME CheckRetry PROVE IndInv'
  <2>1. JobsOK' /\ WorkerOK' /\ JobIds' = JobIds
    BY <1>10, WorkerGoes, GotoGoes DEF CheckRetry, WorkerPc
  <2> QED BY <1>0, <1>10, <2>1, HandlersFrame, Parts DEF CheckRetry, RowsOK
<1>11. ASSUME CheckPending PROVE IndInv'
  <2>1. JobsOK' /\ WorkerOK' /\ JobIds' = JobIds
    BY <1>11, WorkerGoes, GotoGoes DEF CheckPending, WorkerPc
  <2> QED BY <1>0, <1>11, <2>1, HandlersFrame, Parts DEF CheckPending, RowsOK
<1>12. ASSUME EnqueueRetry PROVE IndInv'
  <2>1. WorkerMsg \in Messages
    BY <1>0, <1>12 DEF EnqueueRetry, WorkerOK, JobsOK, WorkerMsg, Job
  <2>2. RowsOK'
    BY <1>0, <1>12, <2>1 DEF EnqueueRetry, RowsOK, MarkMessageFailed
  <2>3. JobsOK' /\ JobIds \subseteq JobIds' /\ lastId' \in Nat
    BY <1>0, <1>12, <2>1, InsertJobsAdds DEF EnqueueRetry, JobsOK, JobIds
  <2>4. WorkerOK'
    BY <1>12, <2>3 DEF EnqueueRetry, WorkerOK, WorkerIdle, WorkerPc
  <2> QED BY <1>12, <2>2, <2>3, <2>4, HandlersFrame, Parts DEF EnqueueRetry
<1>13. ASSUME RoundExhausted PROVE IndInv'
  <2>1. \/ worker' = WorkerIdle
        \/ worker' = [worker EXCEPT !.pc = "markFailed"]
        \/ worker' = [worker EXCEPT !.pc = "checkRetry"]
    BY <1>13 DEF RoundExhausted
  <2>2. JobsOK' /\ WorkerOK' /\ JobIds' = JobIds
    BY <1>13, <2>1, WorkerGoes, GotoGoes DEF RoundExhausted, WorkerPc
  <2> QED BY <1>0, <1>13, <2>2, HandlersFrame, Parts DEF RoundExhausted, RowsOK
<1>14. ASSUME FailMessage PROVE IndInv'
  <2>1. RowsOK'
    BY <1>0, <1>14 DEF FailMessage, RowsOK, MarkMessageFailed
  <2>2. JobsOK' /\ WorkerOK' /\ JobIds' = JobIds
    BY <1>14, WorkerGoes DEF FailMessage
  <2> QED BY <1>14, <2>1, <2>2, HandlersFrame, Parts DEF FailMessage
<1> QED BY <1>1, <1>2, <1>3, <1>4, <1>5, <1>6, <1>7, <1>8, <1>9, <1>10, <1>11, <1>12,
           <1>13, <1>14 DEF WorkerStep

\* Handlers that leave the job table alone.
LEMMA TableFrame ==
    ASSUME IndInv, UNCHANGED <<lastId, jobs>>
    PROVE  JobsOK' /\ JobIds' = JobIds /\ (UNCHANGED worker => WorkerOK')
BY Parts DEF JobsOK, JobIds, WorkerOK

\* A cancellation never takes the job in the worker's hand.
LEMMA CancelFrame ==
    ASSUME IndInv, NEW j \in JobIds, CancelJob(j), UNCHANGED <<lastId, worker>>
    PROVE  JobsOK' /\ JobIds' = JobIds /\ WorkerOK'
<1>1. JobsOK' /\ JobIds' = JobIds /\ (\A k \in JobIds \ {j} : jobs'[k] = jobs[k])
      /\ (jobs[j].status # "queued" => jobs' = jobs)
  BY CancelJobKeeps
<1>2. WorkerOK
  BY Parts
<1>3. worker.pc \in {"claimed", "transmitted"} => jobs'[worker.job] = jobs[worker.job]
  BY <1>1, <1>2 DEF WorkerOK
<1> QED BY <1>1, <1>2, <1>3 DEF WorkerOK

LEMMA QueuedJobsAreIds == \A m : QueuedJobs(m) \subseteq JobIds
BY DEF QueuedJobs, JobsOf

LEMMA ReceiversKeepIndInv ==
    ASSUME IndInv, NEW r \in Receivers,
           \/ \E m \in Messages, v \in {"acked", "rejected"} : RxFind(r, m, v)
           \/ RxStep(r)
    PROVE  IndInv'
<1>0. RowsOK /\ JobsOK /\ WorkerOK /\ RxOK
  BY Parts
<1>1. ASSUME NEW m \in Messages, NEW v \in {"acked", "rejected"}, RxFind(r, m, v) PROVE IndInv'
  <2>1. RxOK'
    BY <1>0, <1>1 DEF RxFind, RxOK, JobIds
  <2> QED BY <1>0, <1>1, <2>1, TableFrame, HandlersFrame, Parts DEF RxFind, RowsOK
<1>2. ASSUME RxSelect(r) PROVE IndInv'
  <2> DEFINE Q == QueuedJobs(rx[r].msg)
  <2>1. Q \in SUBSET JobIds
    BY QueuedJobsAreIds
  <2>2. RxOK'
    <3>1. rx' = [rx EXCEPT ![r].pc = "cancel", ![r].todo = Q] /\ rx[r].pc = "select"
          /\ JobIds' = JobIds
      BY <1>2 DEF RxSelect, JobIds
    <3>2. rx[r].msg \in Messages
      BY <1>0, <3>1 DEF RxOK
    <3> HIDE DEF Q
    <3>3. rx' \in [Receivers -> [pc : {"idle", "select", "cancel"},
                                msg : Messages \cup {NoMessage},
                                verdict : {"acked", "rejected"}, todo : SUBSET JobIds']]
      <4> DEFINE x == rx[r]
                 y == [x EXCEPT !.pc = "cancel", !.todo = Q]
      <4>1. rx' = [rx EXCEPT ![r] = y]
        BY <3>1
      <4>2. x \in [pc : {"idle", "select", "cancel"}, msg : Messages \cup {NoMessage},
                   verdict : {"acked", "rejected"}, todo : SUBSET JobIds]
        BY <1>0 DEF RxOK
      <4> HIDE DEF x
      <4>3. y \in [pc : {"idle", "select", "cancel"}, msg : Messages \cup {NoMessage},
                   verdict : {"acked", "rejected"}, todo : SUBSET JobIds']
        BY <2>1, <3>1, <4>2
      <4> HIDE DEF y
      <4> QED BY <1>0, <3>1, <4>1, <4>3 DEF RxOK
    <3>4. \A q \in Receivers : rx'[q].pc # "idle" => rx'[q].msg \in Messages
      BY <1>0, <3>1, <3>2 DEF RxOK
    <3> QED BY <3>3, <3>4 DEF RxOK
  <2> QED BY <1>0, <1>2, <2>2, TableFrame, HandlersFrame, Parts DEF RxSelect, RowsOK
<1>3. ASSUME RxCancel(r) PROVE IndInv'
  <2>1. PICK j \in rx[r].todo : CancelJob(j) /\ rx' = [rx EXCEPT ![r].todo = @ \ {j}]
    BY <1>3 DEF RxCancel
  <2>2. j \in JobIds
    BY <1>0, <2>1 DEF RxOK
  <2>3. JobsOK' /\ JobIds' = JobIds /\ WorkerOK'
    BY <1>3, <2>1, <2>2, CancelFrame DEF RxCancel
  <2>4. RxOK'
    BY <1>0, <2>1, <2>3 DEF RxOK
  <2> QED BY <1>0, <1>3, <2>3, <2>4, HandlersFrame, Parts DEF RxCancel, RowsOK
<1>4. ASSUME RxSettle(r) PROVE IndInv'
  <2>1. RxOK'
    BY <1>0, <1>4 DEF RxSettle, RxOK, RxIdle, JobIds
  <2>2. RowsOK'
    BY <1>0, <1>4 DEF RxSettle, RowsOK, RxOK, SetStatus
  <2> QED BY <1>4, <2>1, <2>2, TableFrame, HandlersFrame, Parts DEF RxSettle
<1> QED BY <1>1, <1>2, <1>3, <1>4 DEF RxStep

LEMMA RequestsKeepIndInv ==
    ASSUME IndInv, NEW w \in WebThreads,
           \/ \E m \in Messages : Send(w, m) \/ StartRetry(w, m) \/ StartDelete(w, m)
           \/ WebStep(w)
    PROVE  IndInv'
<1>0. RowsOK /\ JobsOK /\ WorkerOK /\ WebOK
  BY Parts
<1>1. ASSUME NEW m \in Messages, Send(w, m) PROVE IndInv'
  <2>1. WebOK'
    BY <1>0, <1>1 DEF Send, WebOK, JobIds
  <2>2. RowsOK'
    BY <1>0, <1>1 DEF Send, RowsOK
  <2> QED BY <1>1, <2>1, <2>2, TableFrame, HandlersFrame, Parts DEF Send
<1>2. ASSUME NEW m \in Messages, StartRetry(w, m) PROVE IndInv'
  <2>1. WebOK'
    BY <1>0, <1>2 DEF StartRetry, WebOK, JobIds
  <2> QED BY <1>0, <1>2, <2>1, TableFrame, HandlersFrame, Parts DEF StartRetry, RowsOK
<1>3. ASSUME NEW m \in Messages, StartDelete(w, m) PROVE IndInv'
  <2>1. WebOK'
    BY <1>0, <1>3 DEF StartDelete, WebOK, JobIds
  <2> QED BY <1>0, <1>3, <2>1, TableFrame, HandlersFrame, Parts DEF StartDelete, RowsOK
<1>4. ASSUME WebSelect(w) PROVE IndInv'
  <2>1. QueuedJobs(web[w].msg) \in SUBSET JobIds
    BY QueuedJobsAreIds
  <2>2. WebOK'
    BY <1>0, <1>4, <2>1 DEF WebSelect, WebOK, JobIds
  <2> QED BY <1>0, <1>4, <2>2, TableFrame, HandlersFrame, Parts DEF WebSelect, RowsOK
<1>5. ASSUME WebCancel(w) PROVE IndInv'
  <2>1. PICK j \in web[w].todo : CancelJob(j) /\ web' = [web EXCEPT ![w].todo = @ \ {j}]
    BY <1>5 DEF WebCancel
  <2>2. j \in JobIds
    BY <1>0, <2>1 DEF WebOK
  <2>3. JobsOK' /\ JobIds' = JobIds /\ WorkerOK'
    BY <1>5, <2>1, <2>2, CancelFrame DEF WebCancel
  <2>4. WebOK'
    BY <1>0, <2>1, <2>3 DEF WebOK
  <2> QED BY <1>0, <1>5, <2>3, <2>4, HandlersFrame, Parts DEF WebCancel, RowsOK
<1>6. ASSUME Requeue(w) PROVE IndInv'
  <2>1. WebOK'
    BY <1>0, <1>6 DEF Requeue, WebOK, WebIdle, JobIds
  <2>2. RowsOK'
    BY <1>0, <1>6 DEF Requeue, RowsOK, WebOK, SetStatus
  <2> QED BY <1>6, <2>1, <2>2, TableFrame, HandlersFrame, Parts DEF Requeue
<1>7. ASSUME Erase(w) PROVE IndInv'
  <2>1. WebOK'
    BY <1>0, <1>7 DEF Erase, WebOK, WebIdle, JobIds
  <2>2. RowsOK'
    BY <1>0, <1>7 DEF Erase, RowsOK, WebOK, SetStatus
  <2> QED BY <1>7, <2>1, <2>2, TableFrame, HandlersFrame, Parts DEF Erase
<1>8. ASSUME WebEnqueue(w) PROVE IndInv'
  <2>1. web[w].msg \in Messages
    BY <1>0, <1>8 DEF WebEnqueue, WebOK
  <2>2. RowsOK'
    BY <1>0, <1>8, <2>1 DEF WebEnqueue, RowsOK, MarkMessageFailed
  <2>3. JobsOK' /\ JobIds \subseteq JobIds' /\ lastId' >= lastId
        /\ \A j \in JobIds : jobs'[j] = jobs[j]
    <3>1. CASE UNCHANGED <<lastId, jobs>>
      BY <1>0, <3>1 DEF JobsOK, JobIds
    <3>2. CASE \E n \in 1 .. MaxTncs : InsertJobs(web[w].msg, n, TRUE)
      BY <2>1, <3>2, InsertJobsAdds
    <3> QED BY <1>8, <3>1, <3>2 DEF WebEnqueue
  <2>4. WorkerOK'
    BY <1>0, <1>8, <2>3 DEF WebEnqueue, WorkerOK, JobsOK
  <2>5. WebOK'
    BY <1>0, <1>8, <2>3 DEF WebEnqueue, WebOK, WebIdle
  <2> QED BY <1>8, <2>2, <2>3, <2>4, <2>5, HandlersFrame, Parts DEF WebEnqueue
<1> QED BY <1>1, <1>2, <1>3, <1>4, <1>5, <1>6, <1>7, <1>8 DEF WebStep

LEMMA CrashesKeepIndInv ==
    ASSUME IndInv, CoreCrash \/ CoreRestart \/ WebCrash
    PROVE  IndInv'
<1>0. RowsOK /\ JobsOK /\ WorkerOK
  BY Parts
<1>1. ASSUME CoreCrash PROVE IndInv'
  <2>1. RowsOK'
    BY <1>0, <1>1, ConstantsAssumption DEF CoreCrash, RowsOK
  <2>2. WorkerOK'
    BY <1>0, <1>1 DEF CoreCrash, WorkerOK, JobsOK, WorkerDown, WorkerPc
  <2>3. RxOK'
    BY <1>1 DEF CoreCrash, RxOK, RxIdle
  <2> QED BY <1>1, <2>1, <2>2, <2>3, TableFrame, HandlersFrame, Parts DEF CoreCrash
<1>2. ASSUME CoreRestart PROVE IndInv'
  <2>1. WorkerOK'
    BY <1>0, <1>2 DEF CoreRestart, WorkerOK, JobsOK, WorkerIdle, WorkerPc
  <2> QED BY <1>0, <1>2, <2>1, TableFrame, HandlersFrame, Parts DEF CoreRestart, RowsOK
<1>3. ASSUME WebCrash PROVE IndInv'
  <2>1. RowsOK'
    BY <1>0, <1>3, ConstantsAssumption DEF WebCrash, RowsOK
  <2>2. WebOK'
    BY <1>3 DEF WebCrash, WebOK, WebIdle
  <2> QED BY <1>3, <2>1, <2>2, TableFrame, HandlersFrame, Parts DEF WebCrash
<1> QED BY <1>1, <1>2, <1>3

LEMMA NextKeepsIndInv == IndInv /\ [Next]_vars => IndInv'
<1> SUFFICES ASSUME IndInv, Next \/ UNCHANGED vars PROVE IndInv'
  OBVIOUS
<1> QED BY WorkerKeepsIndInv, ReceiversKeepIndInv, RequestsKeepIndInv, CrashesKeepIndInv,
           StutterKeeps DEF Next

\* The inductive invariant holds in every state.
THEOREM Invariance == Spec => []IndInv
BY InitIndInv, NextKeepsIndInv, PTL DEF Spec

\* The columns and the local state keep their types, whatever the interleaving
\* of worker, receivers, requests and crashes.
THEOREM TypeCorrect == Spec => []TypeOK
<1>1. IndInv => TypeOK
  BY DEF IndInv
<1> QED BY <1>1, Invariance, PTL

\* While the worker holds a job, the job stays in processing and nobody cancels
\* or reclaims it; handlers under way have a message.
THEOREM WorkerKeepsItsJob == Spec => []Consistent
<1>1. IndInv => Consistent
  BY DEF IndInv
<1> QED BY <1>1, Invariance, PTL

-----------------------------------------------------------------------------
(* The job table implements the at-most-once queue.                        *)

QueueStep == [Queue!Next]_(Queue!queueVars)

\* A job in the worker's hand is a job in processing, all others of the sets
\* are told apart by their status.
LEMMA HandIsProcessing ==
    ASSUME IndInv
    PROVE  InHand \subseteq {j \in JobIds : jobs[j].status = "processing"}
BY Parts DEF InHand, WorkerOK

\* Steps that change neither the table nor the hand.
LEMMA MapsToStutter ==
    ASSUME UNCHANGED <<lastId, jobs, InHand>>
    PROVE  QueueStep
BY DEF QueueStep, Queue!queueVars, Waiting, Lost, Closed, JobIds

\* The worker puts its job away.
LEMMA MapsToClose ==
    ASSUME IndInv, worker.pc \in {"claimed", "transmitted"}, NEW s \in {"sent", "failed"},
           SetJobStatus(worker.job, s), UNCHANGED lastId,
           worker'.pc \notin {"claimed", "transmitted"}
    PROVE  QueueStep
<1> DEFINE j == worker.job
<1>1. j \in JobIds /\ InHand = {j} /\ InHand' = {} /\ jobs[j].status = "processing"
  BY Parts DEF InHand, WorkerOK
<1>2. JobIds' = JobIds /\ jobs'[j] = [jobs[j] EXCEPT !.status = s] /\ jobs[j] \in Job
      /\ \A k \in JobIds \ {j} : jobs'[k] = jobs[k]
  BY <1>1, JobStatusSet, Parts DEF JobStatus, JobsOK
<1>3. jobs'[j].status = s
  BY <1>2 DEF Job
<1>4. Waiting' = Waiting
  BY <1>1, <1>2, <1>3 DEF Waiting
<1>5. Lost' = Lost
  BY <1>1, <1>2, <1>3 DEF Lost
<1>6. Closed' = Closed \cup {j}
  BY <1>1, <1>2, <1>3 DEF Closed
<1>7. Queue!Close
  BY <1>1, <1>4, <1>5, <1>6 DEF Queue!Close
<1> QED BY <1>7 DEF QueueStep, Queue!Next

\* Somebody cancels a queued job.
LEMMA MapsToWithdraw ==
    ASSUME IndInv, NEW j \in JobIds, CancelJob(j), UNCHANGED <<lastId, worker>>
    PROVE  QueueStep
<1>1. JobIds' = JobIds /\ InHand' = InHand /\ \A k \in JobIds \ {j} : jobs'[k] = jobs[k]
  BY CancelJobKeeps DEF InHand
<1>2. CASE jobs[j].status = "queued"
  <2>1. jobs'[j] = [jobs[j] EXCEPT !.status = "cancelled"] /\ jobs[j] \in Job
    BY <1>2, CancelJobKeeps, Parts DEF JobsOK
  <2>2. jobs'[j].status = "cancelled"
    BY <2>1 DEF Job
  <2>3. Waiting' = Waiting \ {j} /\ j \in Waiting
    BY <1>1, <1>2, <2>2 DEF Waiting
  <2>4. Lost' = Lost
    BY <1>1, <1>2, <2>2 DEF Lost
  <2>5. Closed' = Closed \cup {j}
    BY <1>1, <1>2, <2>2 DEF Closed
  <2>6. Queue!Withdraw
    BY <1>1, <2>3, <2>4, <2>5 DEF Queue!Withdraw
  <2> QED BY <2>6 DEF QueueStep, Queue!Next
<1>3. CASE jobs[j].status # "queued"
  BY <1>1, <1>3, CancelJobKeeps, MapsToStutter
<1> QED BY <1>2, <1>3

\* Jobs of a new round are jobs nobody has seen before.
LEMMA MapsToEnqueue ==
    ASSUME IndInv, NEW m \in Messages, NEW n \in 1 .. MaxTncs, NEW b \in BOOLEAN,
           InsertJobs(m, n, b), InHand' = InHand
    PROVE  QueueStep
<1>1. /\ JobIds \subseteq JobIds'
      /\ \A j \in JobIds : jobs'[j] = jobs[j]
      /\ \A j \in JobIds' \ JobIds : jobs'[j].status = "queued"
  BY InsertJobsAdds
<1>2. Waiting' = Waiting \cup (JobIds' \ JobIds)
  BY <1>1 DEF Waiting
<1>3. Lost' = Lost
  BY <1>1 DEF Lost
<1>4. Closed' = Closed
  BY <1>1 DEF Closed
<1>5. Waiting \cup InHand \cup Lost \cup Closed \subseteq JobIds
  BY HandIsProcessing DEF Waiting, Lost, Closed
<1>6. Queue!Enqueue
  BY <1>2, <1>3, <1>4, <1>5 DEF Queue!Enqueue, Queue!Known
<1> QED BY <1>6 DEF QueueStep, Queue!Next

LEMMA InitMaps == Init => Queue!Init
<1> SUFFICES ASSUME Init PROVE Queue!Init
  OBVIOUS
<1>1. JobIds = {} /\ InHand = {}
  BY DEF Init, JobIds, InHand, WorkerIdle
<1> QED BY <1>1 DEF Queue!Init, Waiting, Lost, Closed

LEMMA WorkerStepMaps == ASSUME IndInv, WorkerStep PROVE QueueStep
<1> USE DEF At
<1>0. JobsOK /\ WorkerOK
  BY Parts
<1>1. ASSUME NEW m \in Messages, ExpireDirectMessageTimeouts(m) PROVE QueueStep
  BY <1>1, MapsToStutter DEF ExpireDirectMessageTimeouts, InHand
<1>2. ASSUME NEW j \in JobIds, Claim(j) PROVE QueueStep
  <2>1. jobs[j].status = "queued" /\ InHand = {}
    BY <1>2 DEF Claim, NextInLine, InHand
  <2>2. InHand' = {j} /\ JobIds' = JobIds
    BY <1>0, <1>2 DEF Claim, InHand, WorkerOK, JobIds
  <2>3. jobs'[j].status = "processing" /\ \A k \in JobIds \ {j} : jobs'[k] = jobs[k]
    BY <1>0, <1>2 DEF Claim, JobsOK, Job
  <2>4. Waiting' = Waiting \ {j} /\ j \in Waiting
    BY <2>1, <2>2, <2>3 DEF Waiting
  <2>5. Lost' = Lost /\ Closed' = Closed
    BY <2>1, <2>2, <2>3 DEF Lost, Closed
  <2>6. Queue!Take
    BY <2>1, <2>2, <2>4, <2>5 DEF Queue!Take
  <2> QED BY <2>6 DEF QueueStep, Queue!Next
<1>3. ASSUME Reschedule PROVE QueueStep
  <2> DEFINE j == worker.job
  <2>1. j \in JobIds /\ InHand = {j} /\ jobs[j].status = "processing"
    BY <1>0, <1>3 DEF Reschedule, WorkerOK, InHand
  <2>2. InHand' = {} /\ JobIds' = JobIds
    BY <1>3 DEF Reschedule, InHand, WorkerIdle, JobIds
  <2>3. jobs'[j].status = "queued" /\ \A k \in JobIds \ {j} : jobs'[k] = jobs[k]
    BY <1>0, <1>3, <2>1 DEF Reschedule, JobsOK, Job
  <2>4. Waiting' = Waiting \cup {j}
    BY <2>1, <2>2, <2>3 DEF Waiting
  <2>5. Lost' = Lost /\ Closed' = Closed
    BY <2>1, <2>2, <2>3 DEF Lost, Closed
  <2>6. Queue!GiveBack
    BY <2>1, <2>2, <2>4, <2>5 DEF Queue!GiveBack
  <2> QED BY <2>6 DEF QueueStep, Queue!Next
<1>4. ASSUME Skip \/ MarkSent \/ TransmitFails PROVE QueueStep
  <2>1. worker'.pc \in {"register", "exhausted"}
    BY <1>0, <1>4 DEF Skip, MarkSent, TransmitFails, Goto, WorkerOK
  <2> QED BY <1>4, <2>1, MapsToClose DEF Skip, MarkSent, TransmitFails
<1>5. ASSUME Transmit PROVE QueueStep
  <2>1. InHand' = InHand
    BY <1>0, <1>5 DEF Transmit, Goto, InHand, WorkerOK
  <2> QED BY <1>5, <2>1, MapsToStutter DEF Transmit
<1>6. ASSUME Register \/ Update \/ CheckRetry \/ CheckPending \/ RoundExhausted \/ FailMessage
      PROVE  QueueStep
  <2>1. InHand = {}
    BY <1>6 DEF Register, Update, CheckRetry, CheckPending, RoundExhausted, FailMessage, InHand
  <2>2. worker'.pc \in {"idle", "update", "checkRetry", "checkPending", "enqueueRetry", "markFailed"}
    <3>1. CASE Register
      BY <1>0, <3>1 DEF Register, WorkerOK, WorkerIdle
    <3>2. CASE Update
      BY <1>0, <3>2 DEF Update, WorkerOK, WorkerIdle
    <3>3. CASE CheckRetry \/ CheckPending
      BY <1>0, <3>3 DEF CheckRetry, CheckPending, WorkerOK, WorkerIdle
    <3>4. CASE RoundExhausted \/ FailMessage
      BY <1>0, <3>4 DEF RoundExhausted, FailMessage, WorkerOK, WorkerIdle
    <3> QED BY <1>6, <3>1, <3>2, <3>3, <3>4
  <2>3. InHand' = {}
    BY <2>2 DEF InHand
  <2> QED BY <1>6, <2>1, <2>3, MapsToStutter
      DEF Register, Update, CheckRetry, CheckPending, RoundExhausted, FailMessage
<1>7. ASSUME EnqueueRetry PROVE QueueStep
  <2>1. WorkerMsg \in Messages
    BY <1>0, <1>7 DEF EnqueueRetry, WorkerOK, JobsOK, WorkerMsg, Job
  <2>2. InHand' = InHand
    BY <1>7 DEF EnqueueRetry, InHand, WorkerIdle
  <2> QED BY <1>7, <2>1, <2>2, MapsToEnqueue, MapsToStutter DEF EnqueueRetry
<1> QED BY <1>1, <1>2, <1>3, <1>4, <1>5, <1>6, <1>7 DEF WorkerStep

LEMMA HandlersMap ==
    ASSUME IndInv,
           \/ \E r \in Receivers, m \in Messages, v \in {"acked", "rejected"} : RxFind(r, m, v)
           \/ \E r \in Receivers : RxStep(r)
           \/ \E w \in WebThreads, m \in Messages :
                Send(w, m) \/ StartRetry(w, m) \/ StartDelete(w, m)
           \/ \E w \in WebThreads : WebStep(w)
    PROVE  QueueStep
<1>0. RxOK /\ WebOK
  BY Parts
<1>1. ASSUME NEW r \in Receivers, NEW m, NEW v, RxFind(r, m, v) PROVE QueueStep
  BY <1>1, MapsToStutter DEF RxFind, InHand
<1>2. ASSUME NEW r \in Receivers, RxSelect(r) \/ RxSettle(r) PROVE QueueStep
  BY <1>2, MapsToStutter DEF RxSelect, RxSettle, InHand
<1>3. ASSUME NEW r \in Receivers, RxCancel(r) PROVE QueueStep
  BY <1>0, <1>3, MapsToWithdraw DEF RxCancel, RxOK
<1>4. ASSUME NEW w \in WebThreads, NEW m, Send(w, m) \/ StartRetry(w, m) \/ StartDelete(w, m)
      PROVE  QueueStep
  BY <1>4, MapsToStutter DEF Send, StartRetry, StartDelete, InHand
<1>5. ASSUME NEW w \in WebThreads, WebSelect(w) \/ Requeue(w) \/ Erase(w) PROVE QueueStep
  BY <1>5, MapsToStutter DEF WebSelect, Requeue, Erase, InHand
<1>6. ASSUME NEW w \in WebThreads, WebCancel(w) PROVE QueueStep
  BY <1>0, <1>6, MapsToWithdraw DEF WebCancel, WebOK
<1>7. ASSUME NEW w \in WebThreads, WebEnqueue(w) PROVE QueueStep
  <2>1. web[w].msg \in Messages /\ InHand' = InHand
    BY <1>0, <1>7 DEF WebEnqueue, WebOK, InHand
  <2> QED BY <1>7, <2>1, MapsToEnqueue, MapsToStutter DEF WebEnqueue
<1> QED BY <1>1, <1>2, <1>3, <1>4, <1>5, <1>6, <1>7 DEF RxStep, WebStep

LEMMA CrashesMap == ASSUME IndInv, CoreCrash \/ CoreRestart \/ WebCrash PROVE QueueStep
<1>1. ASSUME CoreCrash PROVE QueueStep
  <2>1. InHand' = {} /\ JobIds' = JobIds /\ jobs' = jobs
    BY <1>1 DEF CoreCrash, WorkerDown, InHand, JobIds
  <2>2. Waiting' = Waiting /\ Closed' = Closed
    BY <2>1 DEF Waiting, Closed
  <2>3. Lost' = Lost \cup InHand
    BY <2>1, HandIsProcessing DEF Lost
  <2>4. Queue!Die
    BY <2>1, <2>2, <2>3 DEF Queue!Die
  <2> QED BY <2>4 DEF QueueStep, Queue!Next
<1>2. ASSUME CoreRestart PROVE QueueStep
  BY <1>2, MapsToStutter DEF CoreRestart, InHand, WorkerIdle
<1>3. ASSUME WebCrash PROVE QueueStep
  BY <1>3, MapsToStutter DEF WebCrash, InHand
<1> QED BY <1>1, <1>2, <1>3

\* The job table and its users implement AtMostOnceQueue: whatever is held back,
\* cancelled or lost in a crash, a transmitted job is never taken again.
THEOREM ImplementsQueue == Spec => AtMostOnce
<1>1. Init => Queue!Init
  BY InitMaps
<1>2. IndInv /\ [Next]_vars => QueueStep
  <2>1. ASSUME IndInv, UNCHANGED vars PROVE QueueStep
    BY <2>1, MapsToStutter DEF vars, InHand
  <2> QED BY <2>1, WorkerStepMaps, HandlersMap, CrashesMap DEF Next
<1> QED BY <1>1, <1>2, Invariance, PTL DEF Spec, AtMostOnce, Queue!Spec, QueueStep

-----------------------------------------------------------------------------
(* A settled message stays settled.                                        *)

\* No job of m is queued by this step, and jobs keep their message.
NoNewJob(m) ==
    /\ JobIds \subseteq JobIds'
    /\ \A j \in JobIds :
         /\ jobs'[j].msg = jobs[j].msg
         /\ jobs[j].msg = m /\ jobs'[j].status = "queued" => jobs[j].status = "queued"
    /\ \A j \in JobIds' \ JobIds : jobs'[j].msg # m

\* The worker does not look at m anew.
WorkerKeepsOff(m) ==
    \/ worker' = worker
    \/ worker'.pc \notin {"claimed", "update", "checkPending", "enqueueRetry"}
    \/ worker'.job \in JobIds /\ jobs[worker'.job].msg # m

StaysSettled(m) == Settled(m)' /\ status'[m] \in {status[m], "deleted"}

\* What a step has to leave alone for a settled message to stay settled.
LEMMA SettledFrame ==
    ASSUME IndInv, NEW m \in Messages, Settled(m), NoNewJob(m), WorkerKeepsOff(m),
           status'[m] \in {status[m], "deleted"},
           \A r \in Receivers : rx'[r].msg # m,
           \A w \in WebThreads : web'[w].msg = m => web'[w].op = "delete"
    PROVE  StaysSettled(m)
<1>1. status'[m] \in {"acked", "rejected", "deleted"}
  BY DEF Settled
<1>2. QueuedJobs(m)' = {}
  <2>1. \A j \in JobIds' : jobs'[j].msg = m /\ jobs'[j].status = "queued" =>
          j \in JobIds /\ jobs[j].msg = m /\ jobs[j].status = "queued"
    BY DEF NoNewJob
  <2>2. \A j \in JobIds : ~(jobs[j].msg = m /\ jobs[j].status = "queued")
    BY DEF Settled, QueuedJobs, JobsOf
  <2> QED BY <2>1, <2>2 DEF QueuedJobs, JobsOf
<1>3. ~WorkerBusyWith(m)'
  <2>1. CASE worker' = worker
    <3>1. worker.pc \in {"claimed", "update", "checkPending", "enqueueRetry"} => worker.job \in JobIds
      BY Parts DEF WorkerOK
    <3> QED BY <2>1, <3>1 DEF Settled, WorkerBusyWith, WorkerMsg, NoNewJob
  <2>2. CASE worker'.pc \notin {"claimed", "update", "checkPending", "enqueueRetry"}
    BY <2>2 DEF WorkerBusyWith
  <2>3. CASE worker'.job \in JobIds /\ jobs[worker'.job].msg # m
    BY <2>3 DEF WorkerBusyWith, WorkerMsg, NoNewJob
  <2> QED BY <2>1, <2>2, <2>3 DEF WorkerKeepsOff
<1> QED BY <1>1, <1>2, <1>3 DEF StaysSettled, Settled

\* The ways in which the table changes, for NoNewJob.
LEMMA TableQuiet ==
    ASSUME IndInv, NEW m \in Messages
    PROVE  /\ UNCHANGED <<lastId, jobs>> => NoNewJob(m)
           /\ \A j \in JobIds, s \in JobStatus \ {"queued"} :
                SetJobStatus(j, s) /\ UNCHANGED lastId => NoNewJob(m)
           /\ \A j \in JobIds : CancelJob(j) /\ UNCHANGED lastId => NoNewJob(m)
           /\ \A k \in Messages \ {m}, n \in 1 .. MaxTncs, b \in BOOLEAN :
                InsertJobs(k, n, b) => NoNewJob(m)
<1>0. JobsOK
  BY Parts
<1>1. UNCHANGED <<lastId, jobs>> => NoNewJob(m)
  BY DEF NoNewJob, JobIds
<1>2. ASSUME NEW j \in JobIds, NEW s \in JobStatus \ {"queued"}, SetJobStatus(j, s), UNCHANGED lastId
      PROVE  NoNewJob(m)
  <2>1. JobIds' = JobIds /\ jobs'[j] = [jobs[j] EXCEPT !.status = s] /\ jobs[j] \in Job
        /\ \A k \in JobIds \ {j} : jobs'[k] = jobs[k]
    BY <1>0, <1>2, JobStatusSet DEF JobsOK
  <2>2. jobs'[j].msg = jobs[j].msg /\ jobs'[j].status # "queued"
    BY <1>2, <2>1 DEF Job
  <2> QED BY <2>1, <2>2 DEF NoNewJob
<1>3. ASSUME NEW j \in JobIds, CancelJob(j), UNCHANGED lastId PROVE NoNewJob(m)
  <2>1. CASE jobs[j].status = "queued"
    <3>1. SetJobStatus(j, "cancelled")
      BY <1>3, <2>1 DEF CancelJob, SetJobStatus
    <3> QED BY <1>2, <1>3, <3>1 DEF JobStatus
  <2>2. CASE jobs[j].status # "queued"
    BY <1>1, <1>3, <2>2 DEF CancelJob
  <2> QED BY <2>1, <2>2
<1>4. ASSUME NEW k \in Messages \ {m}, NEW n \in 1 .. MaxTncs, NEW b \in BOOLEAN, InsertJobs(k, n, b)
      PROVE  NoNewJob(m)
  BY <1>4, InsertJobsAdds DEF NoNewJob
<1> QED BY <1>1, <1>2, <1>3, <1>4

LEMMA WorkerKeepsSettled ==
    ASSUME IndInv, NEW m \in Messages, Settled(m), WorkerStep
    PROVE  StaysSettled(m)
<1> USE DEF At
<1>0. RowsOK /\ JobsOK /\ WorkerOK
  BY Parts
<1>1. /\ status[m] \in {"acked", "rejected", "deleted"}
      /\ ~WorkerBusyWith(m)
      /\ \A r \in Receivers : rx[r].msg # m
      /\ \A w \in WebThreads : web[w].msg = m => web[w].op = "delete"
      /\ \A j \in JobIds : jobs[j].msg = m => jobs[j].status # "queued"
  BY DEF Settled, QueuedJobs, JobsOf
<1>2. ASSUME UNCHANGED <<rx, web>>, status'[m] = status[m], NoNewJob(m), WorkerKeepsOff(m)
      PROVE  StaysSettled(m)
  BY <1>1, <1>2, SettledFrame
<1>3. ASSUME NEW k \in Messages, ExpireDirectMessageTimeouts(k) PROVE StaysSettled(m)
  BY <1>0, <1>1, <1>2, <1>3, TableQuiet DEF ExpireDirectMessageTimeouts, RowsOK, WorkerKeepsOff
<1>4. ASSUME NEW j \in JobIds, Claim(j) PROVE StaysSettled(m)
  <2>1. jobs[j].msg # m
    BY <1>1, <1>4 DEF Claim, NextInLine
  <2>2. jobs'[j].msg = jobs[j].msg /\ \A k \in JobIds \ {j} : jobs'[k] = jobs[k]
    BY <1>0, <1>4 DEF Claim, JobsOK, Job
  <2>3. NoNewJob(m)
    BY <1>4, <2>1, <2>2 DEF Claim, NoNewJob, JobIds
  <2>4. WorkerKeepsOff(m)
    BY <1>0, <1>4, <2>1 DEF Claim, WorkerKeepsOff, WorkerOK
  <2> QED BY <1>2, <1>4, <2>3, <2>4 DEF Claim
<1>5. ASSUME Reschedule PROVE StaysSettled(m)
  <2> DEFINE j == worker.job
  <2>1. j \in JobIds /\ jobs[j].msg # m
    BY <1>0, <1>1, <1>5 DEF Reschedule, WorkerOK, WorkerBusyWith, WorkerMsg
  <2>2. jobs'[j].msg = jobs[j].msg /\ \A k \in JobIds \ {j} : jobs'[k] = jobs[k]
    BY <1>0, <1>5, <2>1 DEF Reschedule, JobsOK, Job
  <2>3. NoNewJob(m)
    BY <1>5, <2>1, <2>2 DEF Reschedule, NoNewJob, JobIds
  <2> QED BY <1>2, <1>5, <2>3 DEF Reschedule, WorkerKeepsOff, WorkerIdle
<1>6. ASSUME Skip \/ MarkSent \/ TransmitFails PROVE StaysSettled(m)
  <2>1. worker.job \in JobIds /\ worker'.pc \in {"register", "exhausted"}
    BY <1>0, <1>6 DEF Skip, MarkSent, TransmitFails, Goto, WorkerOK
  <2>2. NoNewJob(m)
    BY <1>6, <2>1, TableQuiet DEF Skip, MarkSent, TransmitFails, JobStatus
  <2> QED BY <1>2, <1>6, <2>1, <2>2 DEF Skip, MarkSent, TransmitFails, WorkerKeepsOff
<1>7. ASSUME Transmit PROVE StaysSettled(m)
  <2>1. worker'.pc = "transmitted"
    BY <1>0, <1>7 DEF Transmit, Goto, WorkerOK
  <2> QED BY <1>2, <1>7, <2>1, TableQuiet DEF Transmit, WorkerKeepsOff
<1>8. ASSUME Register \/ CheckRetry PROVE StaysSettled(m)
  <2>1. CASE WorkerMsg = m
    <3>1. worker' = WorkerIdle
      BY <1>1, <1>8, <2>1 DEF Register, CheckRetry
    <3> QED BY <1>2, <1>8, <3>1, TableQuiet DEF Register, CheckRetry, WorkerKeepsOff, WorkerIdle
  <2>2. CASE WorkerMsg # m
    <3>1. worker' = WorkerIdle \/ worker'.job = worker.job
      BY <1>0, <1>8 DEF Register, CheckRetry, WorkerOK
    <3>2. WorkerKeepsOff(m)
      BY <1>0, <1>8, <2>2, <3>1 DEF Register, CheckRetry, WorkerKeepsOff, WorkerIdle, WorkerMsg, WorkerOK
    <3> QED BY <1>2, <1>8, <3>2, TableQuiet DEF Register, CheckRetry
  <2> QED BY <2>1, <2>2
<1>9. ASSUME Update PROVE StaysSettled(m)
  <2>1. WorkerMsg # m
    BY <1>1, <1>9 DEF Update, WorkerBusyWith
  <2>2. status'[m] = status[m]
    BY <1>0, <1>9, <2>1 DEF Update, SetStatus, RowsOK
  <2>3. worker'.pc \in {"idle", "checkRetry"}
    BY <1>0, <1>9 DEF Update, WorkerIdle, WorkerOK
  <2> QED BY <1>2, <1>9, <2>2, <2>3, TableQuiet DEF Update, WorkerKeepsOff
<1>10. ASSUME CheckPending PROVE StaysSettled(m)
  <2>1. WorkerMsg # m
    BY <1>1, <1>10 DEF CheckPending, WorkerBusyWith
  <2>2. worker' = WorkerIdle \/ worker'.job = worker.job
    BY <1>0, <1>10 DEF CheckPending, WorkerOK
  <2>3. WorkerKeepsOff(m)
    BY <1>0, <1>10, <2>1, <2>2 DEF CheckPending, WorkerKeepsOff, WorkerIdle, WorkerMsg, WorkerOK
  <2> QED BY <1>2, <1>10, <2>3, TableQuiet DEF CheckPending
<1>11. ASSUME EnqueueRetry PROVE StaysSettled(m)
  <2>1. WorkerMsg \in Messages \ {m}
    BY <1>0, <1>1, <1>11 DEF EnqueueRetry, WorkerBusyWith, WorkerOK, JobsOK, WorkerMsg, Job
  <2>2. status'[m] = status[m] /\ NoNewJob(m)
    BY <1>0, <1>11, <2>1, TableQuiet DEF EnqueueRetry, MarkMessageFailed, RowsOK
  <2> QED BY <1>2, <1>11, <2>2 DEF EnqueueRetry, WorkerKeepsOff, WorkerIdle
<1>12. ASSUME RoundExhausted PROVE StaysSettled(m)
  <2>1. worker'.pc \in {"idle", "markFailed", "checkRetry"}
    BY <1>0, <1>12 DEF RoundExhausted, WorkerIdle, WorkerOK
  <2> QED BY <1>2, <1>12, <2>1, TableQuiet DEF RoundExhausted, WorkerKeepsOff
<1>13. ASSUME FailMessage PROVE StaysSettled(m)
  <2>1. status'[m] = status[m]
    BY <1>0, <1>1, <1>13 DEF FailMessage, MarkMessageFailed, RowsOK
  <2> QED BY <1>2, <1>13, <2>1, TableQuiet DEF FailMessage, WorkerKeepsOff, WorkerIdle
<1> QED BY <1>3, <1>4, <1>5, <1>6, <1>7, <1>8, <1>9, <1>10, <1>11, <1>12, <1>13 DEF WorkerStep

LEMMA HandlersKeepSettled ==
    ASSUME IndInv, NEW m \in Messages, Settled(m),
           \/ \E r \in Receivers, k \in Messages, v \in {"acked", "rejected"} : RxFind(r, k, v)
           \/ \E r \in Receivers : RxStep(r)
           \/ \E w \in WebThreads, k \in Messages :
                Send(w, k) \/ StartRetry(w, k) \/ StartDelete(w, k)
           \/ \E w \in WebThreads : WebStep(w)
    PROVE  StaysSettled(m)
<1>0. RowsOK /\ JobsOK /\ RxOK /\ WebOK
  BY Parts
<1>1. /\ status[m] \in {"acked", "rejected", "deleted"} /\ m # NoMessage
      /\ \A r \in Receivers : rx[r].msg # m
      /\ \A w \in WebThreads : web[w].msg = m => web[w].op = "delete"
  BY ConstantsAssumption DEF Settled
<1>2. ASSUME UNCHANGED <<worker, web>>, status'[m] = status[m], NoNewJob(m),
             \A r \in Receivers : rx'[r].msg # m
      PROVE  StaysSettled(m)
  BY <1>1, <1>2, SettledFrame DEF WorkerKeepsOff
<1>3. ASSUME UNCHANGED <<worker, rx>>, status'[m] \in {status[m], "deleted"}, NoNewJob(m),
             \A w \in WebThreads : web'[w].msg = m => web'[w].op = "delete"
      PROVE  StaysSettled(m)
  BY <1>1, <1>3, SettledFrame DEF WorkerKeepsOff
<1>4. ASSUME NEW r \in Receivers, NEW k \in Messages, NEW v \in {"acked", "rejected"}, RxFind(r, k, v)
      PROVE  StaysSettled(m)
  <2>1. k # m
    BY <1>1, <1>4 DEF RxFind, Answerable
  <2>2. \A q \in Receivers : rx'[q].msg # m
    BY <1>0, <1>1, <1>4, <2>1 DEF RxFind, RxOK
  <2> QED BY <1>2, <1>4, <2>2, TableQuiet DEF RxFind
<1>5. ASSUME NEW r \in Receivers, RxSelect(r) \/ RxCancel(r) PROVE StaysSettled(m)
  <2>1. \A q \in Receivers : rx'[q].msg # m
    BY <1>0, <1>1, <1>5 DEF RxSelect, RxCancel, RxOK
  <2>2. NoNewJob(m)
    BY <1>0, <1>5, TableQuiet DEF RxSelect, RxCancel, RxOK
  <2> QED BY <1>2, <1>5, <2>1, <2>2 DEF RxSelect, RxCancel
<1>6. ASSUME NEW r \in Receivers, RxSettle(r) PROVE StaysSettled(m)
  <2>1. \A q \in Receivers : rx'[q].msg # m
    BY <1>0, <1>1, <1>6 DEF RxSettle, RxIdle, RxOK
  <2>2. status'[m] = status[m]
    BY <1>0, <1>1, <1>6 DEF RxSettle, SetStatus, RowsOK
  <2> QED BY <1>2, <1>6, <2>1, <2>2, TableQuiet DEF RxSettle
<1>7. ASSUME NEW w \in WebThreads, NEW k \in Messages,
             Send(w, k) \/ StartRetry(w, k) \/ StartDelete(w, k)
      PROVE  StaysSettled(m)
  <2>1. status'[m] = status[m]
    BY <1>0, <1>1, <1>7 DEF Send, StartRetry, StartDelete, RowsOK
  <2>2. \A q \in WebThreads : web'[q].msg = m => web'[q].op = "delete"
    BY <1>0, <1>1, <1>7 DEF Send, StartRetry, StartDelete, WebOK
  <2> QED BY <1>3, <1>7, <2>1, <2>2, TableQuiet DEF Send, StartRetry, StartDelete
<1>8. ASSUME NEW w \in WebThreads, WebSelect(w) \/ WebCancel(w) PROVE StaysSettled(m)
  <2>1. \A q \in WebThreads : web'[q].msg = m => web'[q].op = "delete"
    BY <1>0, <1>1, <1>8 DEF WebSelect, WebCancel, WebOK
  <2>2. NoNewJob(m)
    BY <1>0, <1>8, TableQuiet DEF WebSelect, WebCancel, WebOK
  <2> QED BY <1>3, <1>8, <2>1, <2>2 DEF WebSelect, WebCancel
<1>9. ASSUME NEW w \in WebThreads, Requeue(w) \/ Erase(w) PROVE StaysSettled(m)
  <2>1. status'[m] \in {status[m], "deleted"}
    BY <1>0, <1>1, <1>9 DEF Requeue, Erase, SetStatus, RowsOK, WebOK
  <2>2. \A q \in WebThreads : web'[q].msg = m => web'[q].op = "delete"
    BY <1>0, <1>1, <1>9 DEF Requeue, Erase, WebIdle, WebOK
  <2> QED BY <1>3, <1>9, <2>1, <2>2, TableQuiet DEF Requeue, Erase
<1>10. ASSUME NEW w \in WebThreads, WebEnqueue(w) PROVE StaysSettled(m)
  <2>1. web[w].msg \in Messages \ {m}
    BY <1>0, <1>1, <1>10 DEF WebEnqueue, WebOK
  <2>2. status'[m] = status[m] /\ NoNewJob(m)
    BY <1>0, <1>10, <2>1, TableQuiet DEF WebEnqueue, MarkMessageFailed, RowsOK
  <2>3. \A q \in WebThreads : web'[q].msg = m => web'[q].op = "delete"
    BY <1>0, <1>1, <1>10 DEF WebEnqueue, WebIdle, WebOK
  <2> QED BY <1>3, <1>10, <2>2, <2>3 DEF WebEnqueue
<1> QED BY <1>4, <1>5, <1>6, <1>7, <1>8, <1>9, <1>10 DEF RxStep, WebStep

LEMMA CrashesKeepSettled ==
    ASSUME IndInv, NEW m \in Messages, Settled(m), CoreCrash \/ CoreRestart \/ WebCrash
    PROVE  StaysSettled(m)
<1>1. /\ m # NoMessage
      /\ \A r \in Receivers : rx[r].msg # m
      /\ \A w \in WebThreads : web[w].msg = m => web[w].op = "delete"
  BY ConstantsAssumption DEF Settled
<1>2. ASSUME CoreCrash \/ CoreRestart PROVE StaysSettled(m)
  <2>1. \A r \in Receivers : rx'[r].msg # m
    BY <1>1, <1>2 DEF CoreCrash, CoreRestart, RxIdle
  <2>2. WorkerKeepsOff(m)
    BY <1>2 DEF CoreCrash, CoreRestart, WorkerDown, WorkerIdle, WorkerKeepsOff
  <2> QED BY <1>1, <1>2, <2>1, <2>2, TableQuiet, SettledFrame DEF CoreCrash, CoreRestart
<1>3. ASSUME WebCrash PROVE StaysSettled(m)
  <2>1. \A w \in WebThreads : web'[w].msg # m
    BY <1>1, <1>3 DEF WebCrash, WebIdle
  <2> QED BY <1>1, <1>3, <2>1, TableQuiet, SettledFrame DEF WebCrash, WorkerKeepsOff
<1> QED BY <1>2, <1>3

\* Once a message is acknowledged, rejected or deleted and nobody is left who
\* looked at it before, no handler changes its status (but to delete it) and no
\* frame of it is queued again, for any number of interfaces, retries, requests
\* and crashes.
THEOREM SettledForGood == Spec => SettledIsFinal
<1> DEFINE A == \A m \in Messages :
                  Settled(m) => Settled(m)' /\ status'[m] \in {status[m], "deleted"}
<1>1. IndInv /\ [Next]_vars => [A]_vars
  <2> SUFFICES ASSUME IndInv, Next, NEW m \in Messages, Settled(m) PROVE StaysSettled(m)
    BY DEF StaysSettled
  <2> QED BY WorkerKeepsSettled, HandlersKeepSettled, CrashesKeepSettled DEF Next
<1>2. Spec => [][A]_vars
  BY <1>1, Invariance, PTL DEF Spec
<1> QED BY <1>2 DEF SettledIsFinal

=============================================================================
