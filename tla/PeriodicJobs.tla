---------------------------- MODULE PeriodicJobs ----------------------------
(***************************************************************************)
(* The jobs that keep a station on the air: beacon, status and weather, in *)
(* the mode with a single station (services/beacon_scheduler.py,           *)
(* services/wx_scheduler.py), and their way through the job table          *)
(* (services/outbound.py) to the worker (services/outbound_runtime.py).    *)
(*                                                                         *)
(* The count of the pending jobs, the insert of a job and the stamp of its *)
(* time are transactions of their own; the web process inserts manual jobs *)
(* at any time.  There is one TNC: the code inserts a job for each target  *)
(* modem.  The module gives the actions; Station composes them with the    *)
(* transmission of the job in hand.                                        *)
(***************************************************************************)
EXTENDS Integers, Sequences

CONSTANTS
    Kinds,         \* kinds of periodic jobs
    ServiceOf,     \* ServiceOf[k]: the scheduler that enqueues k
    NoJob,         \* stands for no job
    MaxManual,     \* bound: manual jobs
    MaxRestarts    \* bound: stops and crashes of the core

\* A job: Job(k, trigger) of some kind k, before and after it was paced.
Jobs == [kind : Kinds, trigger : {"scheduled", "manual"}, paced : BOOLEAN]

ASSUME PeriodicAssumption ==
    /\ MaxManual \in Nat /\ MaxRestarts \in Nat
    /\ NoJob \notin Jobs

VARIABLES
    core,          \* is the core running, stopping or down?
    jobs,          \* queued jobs, in the order of scheduled_at and id
    hand,          \* the job the worker processes
    stale,         \* stale[k]: jobs in processing whose worker is gone
    due,           \* due[k]: the interval has passed since the last stamp
    tick,          \* tick[k]: how far the scheduler's tick has come with k
    rounds,        \* history: jobs of k enqueued since it became due, see Crash
    manual,        \* manual jobs so far
    restarts       \* stops and crashes so far

schedule == <<due, tick, rounds>>
table == <<jobs, hand, stale>>
bounds == <<manual, restarts>>
periodic == <<core, table, schedule, bounds>>

Job(kind, trigger) == [kind |-> kind, trigger |-> trigger, paced |-> FALSE]

HandKinds == IF hand = NoJob THEN {} ELSE {hand.kind}

\* pending_outbound_job_count.  Variant: only the queued jobs count.
IsPendingQueued(k) == \E i \in DOMAIN jobs : jobs[i].kind = k

IsPending(k) == \/ \E i \in DOMAIN jobs : jobs[i].kind = k
                \/ k \in HandKinds
                \/ stale[k] > 0

-----------------------------------------------------------------------------
(* The schedulers.  A tick of the beacon scheduler takes the beacon, then  *)
(* the status; it runs in a thread of its own, so does that of the WX      *)
(* scheduler.  An interval lasts longer than a tick.                       *)

IntervalPasses(k) ==
    /\ ~due[k] /\ tick[k] = "idle"
    /\ due' = [due EXCEPT ![k] = TRUE]
    /\ rounds' = [rounds EXCEPT ![k] = 0]
    /\ UNCHANGED <<core, table, tick, bounds>>

CheckDue(k) ==
    /\ core = "running"
    /\ \A l \in Kinds : ServiceOf[l] = ServiceOf[k] => tick[l] = "idle"
    /\ ~IsPending(k)
    /\ due[k]
    /\ tick' = [tick EXCEPT ![k] = "checked"]
    /\ UNCHANGED <<core, table, due, rounds, bounds>>

Enqueue(k) ==
    /\ tick[k] = "checked"
    /\ jobs' = Append(jobs, Job(k, "scheduled"))
    /\ tick' = [tick EXCEPT ![k] = "enqueued"]
    /\ rounds' = [rounds EXCEPT ![k] = @ + 1]
    /\ UNCHANGED <<core, hand, stale, due, bounds>>

\* The settings or the interfaces do not allow to send the frame; nothing is stamped.
EnqueueFails(k) ==
    /\ tick[k] = "checked"
    /\ tick' = [tick EXCEPT ![k] = "idle"]
    /\ UNCHANGED <<core, table, due, rounds, bounds>>

\* Variant: the time is not stored.
StampNothing(k) ==
    /\ tick[k] = "enqueued"
    /\ tick' = [tick EXCEPT ![k] = "idle"]
    /\ UNCHANGED <<core, table, due, rounds, bounds>>

Stamp(k) ==
    /\ tick[k] = "enqueued"
    /\ due' = [due EXCEPT ![k] = FALSE]
    /\ tick' = [tick EXCEPT ![k] = "idle"]
    /\ UNCHANGED <<core, table, rounds, bounds>>

\* A page or a query of another station asks for the frame now.
EnqueueManual(k) ==
    /\ manual < MaxManual
    /\ manual' = manual + 1
    /\ jobs' = Append(jobs, Job(k, "manual"))
    /\ UNCHANGED <<core, hand, stale, schedule, restarts>>

-----------------------------------------------------------------------------
(* The worker.                                                             *)

Claim ==
    /\ core = "running"
    /\ hand = NoJob /\ jobs # <<>>
    /\ hand' = Head(jobs)
    /\ jobs' = Tail(jobs)
    /\ UNCHANGED <<core, stale, schedule, bounds>>

\* _maybe_delay_local_generated_tx: once, behind what is queued now.
Pace ==
    /\ hand # NoJob /\ ~hand.paced
    /\ jobs' = Append(jobs, [hand EXCEPT !.paced = TRUE])
    /\ hand' = NoJob
    /\ UNCHANGED <<core, stale, schedule, bounds>>

\* The job ends as sent, skipped or failed.
Finish ==
    /\ hand # NoJob
    /\ hand' = NoJob
    /\ UNCHANGED <<core, jobs, stale, schedule, bounds>>

-----------------------------------------------------------------------------
(* The end of the core and its start.  The schedulers' tasks are cancelled *)
(* first, but a tick goes on in its thread, for which the process waits.   *)

\* The job in hand stays in processing.
HandGoesStale ==
    /\ hand' = NoJob
    /\ stale' = [k \in Kinds |-> IF k \in HandKinds THEN stale[k] + 1 ELSE stale[k]]

StopWorker ==
    /\ core = "running" /\ restarts < MaxRestarts
    /\ core' = "stopping"
    /\ restarts' = restarts + 1
    /\ HandGoesStale
    /\ UNCHANGED <<jobs, schedule, manual>>

Exit ==
    /\ core = "stopping"
    /\ \A k \in Kinds : tick[k] = "idle"
    /\ core' = "down"
    /\ UNCHANGED <<table, schedule, bounds>>

\* A tick may have enqueued its job and not yet stored the time: history does not
\* count that job.
Crash ==
    /\ core = "running" /\ restarts < MaxRestarts
    /\ core' = "down"
    /\ restarts' = restarts + 1
    /\ HandGoesStale
    /\ tick' = [k \in Kinds |-> "idle"]
    /\ rounds' = [k \in Kinds |-> IF tick[k] = "enqueued" THEN rounds[k] - 1 ELSE rounds[k]]
    /\ UNCHANGED <<jobs, due, manual>>

\* recover_stale_processing_beacon_jobs and recover_stale_processing_wx_jobs.
\* Variant: only weather is thought of.
RecoveredWx == {"wx"}

Recovered == {"beacon", "wx"}

Start ==
    /\ core = "down"
    /\ core' = "running"
    /\ stale' = [k \in Kinds |-> IF k \in Recovered THEN 0 ELSE stale[k]]
    /\ UNCHANGED <<jobs, hand, schedule, bounds>>

PeriodicInit ==
    /\ core = "down" /\ jobs = <<>> /\ hand = NoJob
    /\ stale = [k \in Kinds |-> 0]
    /\ due = [k \in Kinds |-> TRUE]
    /\ tick = [k \in Kinds |-> "idle"]
    /\ rounds = [k \in Kinds |-> 0]
    /\ manual = 0 /\ restarts = 0

-----------------------------------------------------------------------------
PeriodicTypeOK ==
    /\ core \in {"running", "stopping", "down"}
    /\ jobs \in Seq(Jobs)
    /\ hand \in Jobs \cup {NoJob}
    /\ stale \in [Kinds -> 0 .. MaxRestarts]
    /\ due \in [Kinds -> BOOLEAN]
    /\ tick \in [Kinds -> {"idle", "checked", "enqueued"}]
    /\ rounds \in [Kinds -> Nat]
    /\ manual \in 0 .. MaxManual /\ restarts \in 0 .. MaxRestarts
=============================================================================
