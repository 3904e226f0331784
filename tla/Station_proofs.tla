--------------------------- MODULE Station_proofs ---------------------------
(***************************************************************************)
(* Proofs about Station for any kinds of periodic jobs and any bounds:     *)
(* TypeOK, OneScheduledPending, OncePerInterval, OutcomeTrue and           *)
(* CutsNoFrame.  The parts of PeriodicJobs and of RfTransmit are proved    *)
(* apart and put together for the actions of Station.                      *)
(***************************************************************************)
EXTENDS Station, LockQueueLemmas

-----------------------------------------------------------------------------
(* The inductive invariant: the senders and their link.                    *)

\* A sender is in the queue of the lock where the code waits for it or holds it, and has
\* it while a frame drains.
Places ==
    \A s \in Senders :
      /\ s \in Range(lock) <=> pc[s] \in {"waiting", "draining", "cut", "recovering"}
      /\ Drains(s) => Holds(s)

\* What has become of the frame at each place.
Progress ==
    \A s \in Senders :
      /\ pc[s] \in {"idle", "gap", "waiting"} => written[s] = "no"
      /\ pc[s] \in {"draining", "cut", "recovering", "fallback", "failed"} => written[s] # "yes"
      /\ pc[s] = "sent" => written[s] = "yes"

RfInv == RfTypeOK /\ Once(lock) /\ Places /\ Progress

(* The periodic jobs.                                                      *)

HandIsScheduled(k) == hand # NoJob /\ hand.kind = k /\ hand.trigger = "scheduled"

\* A scheduler that has found nothing pending is the only one to add a scheduled job.
CheckedAlone == \A k \in Kinds : tick[k] = "checked" => Scheduled(k) = {} /\ ~ HandIsScheduled(k)

\* The jobs of this interval, by the place of the tick.
Rounds ==
    \A k \in Kinds :
      /\ tick[k] # "idle" => due[k]
      /\ tick[k] = "enqueued" => rounds[k] = 1
      /\ tick[k] # "enqueued" /\ due[k] => rounds[k] = 0

PeriodicInv ==
    /\ PeriodicTypeOK /\ OneScheduledPending /\ OncePerInterval /\ CheckedAlone /\ Rounds
    /\ \A k \in Kinds : stale[k] <= restarts

(* Both.                                                                   *)

\* The worker's place in the transmission is that of its job.
InHand ==
    /\ hand = NoJob <=> pc["outbound"] = "idle"
    /\ core # "running" => hand = NoJob

IndInv == RfInv /\ PeriodicInv /\ InHand

-----------------------------------------------------------------------------
(* The lock of the TNC.                                                    *)

\* Each of the two senders is in the queue once.
LEMMA TwoSenders ==
    ASSUME NEW q \in Seq(Senders), Once(q)
    PROVE  Len(q) <= 2
<1>1. Len(q) \in Nat /\ DOMAIN q = 1 .. Len(q) /\ \A i \in 1 .. Len(q) : q[i] \in Senders
  BY Indices
<1>2. SUFFICES ASSUME Len(q) > 2 PROVE FALSE
  BY <1>1
<1>3. {1, 2, 3} \subseteq 1 .. Len(q)
  BY <1>1, <1>2
<1>4. q[1] # q[2] /\ q[2] # q[3] /\ q[1] # q[3]
  BY <1>1, <1>3 DEF Once
<1> QED BY <1>1, <1>3, <1>4 DEF Senders

\* The holder is in the queue, and it is one sender.
LEMMA Holder ==
    ASSUME RfInv, NEW s, Holds(s)
    PROVE  lock # <<>> /\ s \in Senders /\ s \in Range(lock) /\ \A t : Holds(t) => t = s
BY Releases DEF Holds, RfInv, RfTypeOK

\* A sender that is not in the queue asks for the lock.
LEMMA Requests ==
    ASSUME RfInv, NEW s \in Senders, s \notin Range(lock), lock' = Append(lock, s)
    PROVE  /\ lock' \in Seq(Senders) /\ Once(lock') /\ Len(lock') <= 2
           /\ Range(lock') = Range(lock) \cup {s}
           /\ \A t : Holds(t) => Holds(t)'
<1>1. /\ lock' \in Seq(Senders) /\ Once(lock') /\ Range(lock') = Range(lock) \cup {s}
      /\ \A t : Holds(t) => Holds(t)'
  BY Arrives DEF RfInv, RfTypeOK, Holds
<1> QED BY <1>1, TwoSenders

\* The holder releases the lock.
LEMMA ReleaseEffect ==
    ASSUME RfInv, NEW s, Holds(s), lock' = Tail(lock)
    PROVE  /\ lock' \in Seq(Senders) /\ Once(lock') /\ Len(lock') <= 2
           /\ Range(lock') = Range(lock) \ {s}
<1>1. lock' \in Seq(Senders) /\ Once(lock') /\ Range(lock') = Range(lock) \ {s}
  BY Releases DEF Holds, RfInv, RfTypeOK
<1> QED BY <1>1, TwoSenders

\* No sender drains while another one holds the lock.
LEMMA OthersDoNotDrain ==
    ASSUME RfInv, NEW s \in Senders, Holds(s)
    PROVE  \A t \in Senders : t # s => ~ Drains(t)
BY Holder DEF RfInv, Places

-----------------------------------------------------------------------------
(* The steps of the senders and of their link.                             *)

\* Nothing is on its way at the start, and after the end of the process.
LEMMA RfInitEstablishes == ASSUME RfInit PROVE RfInv
<1>1. lock = <<>> /\ lock \in Seq(Senders) /\ Once(lock) /\ Range(lock) = {}
  BY EmptyQueue DEF RfInit
<1>2. Len(lock) <= 2 /\ rfQueue \in 0 .. RfQueueMax
  BY <1>1, RfAssumption DEF RfInit
<1>3. RfTypeOK
  BY <1>1, <1>2 DEF RfInit, RfTypeOK
<1>4. Places /\ Progress
  BY <1>1 DEF RfInit, Places, Progress, Drains
<1> QED BY <1>1, <1>3, <1>4 DEF RfInv

LEMMA DownPreserves == ASSUME Down PROVE RfInv'
<1>1. lock' = <<>> /\ lock' \in Seq(Senders) /\ Once(lock') /\ Range(lock') = {}
  BY EmptyQueue DEF Down
<1>2. Len(lock') <= 2 /\ rfQueue' \in 0 .. RfQueueMax
  BY <1>1, RfAssumption DEF Down
<1>3. RfTypeOK'
  BY <1>1, <1>2 DEF Down, RfTypeOK
<1>4. Places' /\ Progress'
  BY <1>1 DEF Down, Places, Progress, Drains
<1> QED BY <1>1, <1>3, <1>4 DEF RfInv

\* Before the lock: the queue of the dispatcher and the gap.
LEMMA GapPreserves ==
    ASSUME RfInv, NEW s \in Senders,
           EnqueueDigiTx \/ NextFrame \/ BeginJob \/ GiveUp(s) \/ NoRuntime(s)
    PROVE  RfInv'
<1> USE DEF EnqueueDigiTx, NextFrame, BeginJob, GiveUp, NoRuntime, Move, Goto
<1>1. rfQueue' \in 0 .. RfQueueMax
  BY RfAssumption DEF RfInv, RfTypeOK
<1>2. RfTypeOK' /\ Once(lock')
  BY <1>1 DEF RfInv, RfTypeOK, Senders
<1>3. Places'
  BY DEF RfInv, RfTypeOK, Places, Drains, Holds, Senders
<1>4. Progress'
  BY DEF RfInv, RfTypeOK, Progress, Senders
<1> QED BY <1>2, <1>3, <1>4 DEF RfInv

\* The lock is asked for, from the gap or after an error of drain().
LEMMA RequestPreserves ==
    ASSUME RfInv, NEW s \in Senders, RequestLink(s) \/ DrainFails(s)
    PROVE  RfInv'
<1>1. CASE RequestLink(s)
  <2> USE DEF RequestLink, Move, Goto
  <2>1. s \notin Range(lock)
    BY <1>1 DEF RfInv, Places
  <2>2. /\ lock' \in Seq(Senders) /\ Once(lock') /\ Len(lock') <= 2
        /\ Range(lock') = Range(lock) \cup {s}
        /\ \A t : Holds(t) => Holds(t)'
    BY <1>1, <2>1, Requests
  <2>3. RfTypeOK'
    BY <1>1, <2>2 DEF RfInv, RfTypeOK
  <2>4. Places'
    BY <1>1, <2>2 DEF RfInv, RfTypeOK, Places, Drains
  <2>5. Progress'
    BY <1>1 DEF RfInv, RfTypeOK, Progress
  <2> QED BY <2>2, <2>3, <2>4, <2>5 DEF RfInv
<1>2. CASE DrainFails(s)
  <2> DEFINE rest == Tail(lock)
  <2> USE DEF DrainFails, Goto
  <2>1. Holds(s) /\ lock' = Append(rest, s)
    BY <1>2 DEF RfInv, Places
  <2>2. rest \in Seq(Senders) /\ Once(rest) /\ Range(rest) = Range(lock) \ {s} /\ s \in Range(lock)
    BY <2>1, Releases, Holder DEF Holds, RfInv, RfTypeOK
  <2> HIDE DEF rest
  <2>3. lock' \in Seq(Senders) /\ Once(lock') /\ Range(lock') = Range(rest) \cup {s}
    BY <2>1, <2>2, Arrives
  <2>4. Range(lock') = Range(lock) /\ Len(lock') <= 2
    BY <2>2, <2>3, TwoSenders
  <2>5. RfTypeOK'
    BY <1>2, <2>3, <2>4 DEF RfInv, RfTypeOK
  <2>6. Places'
    BY <1>2, <2>1, <2>4, OthersDoNotDrain DEF RfInv, RfTypeOK, Places, Drains
  <2>7. Progress'
    BY <1>2 DEF RfInv, RfTypeOK, Progress, Drains
  <2> QED BY <2>3, <2>5, <2>6, <2>7 DEF RfInv
<1> QED BY <1>1, <1>2

\* The holder writes its frame and keeps the lock.
LEMMA WritePreserves ==
    ASSUME RfInv, NEW s \in Senders, WriteToTnc(s)
    PROVE  RfInv'
<1> USE DEF WriteToTnc, Move, Goto, Writes
<1>1. RfTypeOK'
  BY DEF RfInv, RfTypeOK
<1>2. Places'
  BY DEF RfInv, RfTypeOK, Places, Drains, Holds
<1>3. Progress'
  BY DEF RfInv, RfTypeOK, Progress
<1> QED BY <1>1, <1>2, <1>3 DEF RfInv

\* The holder releases the lock: no link, a frame that has gone out, or a recovery.
LEMMA ReleasePreserves ==
    ASSUME RfInv, NEW s \in Senders, NoLink(s) \/ DrainReturns(s) \/ Recover(s)
    PROVE  RfInv'
<1> USE DEF NoLink, DrainReturns, Recover, Move, Goto, Writes, Release
<1>1. Holds(s) /\ lock' = Tail(lock)
  BY DEF RfInv, Places
<1>2. /\ lock' \in Seq(Senders) /\ Once(lock') /\ Len(lock') <= 2
      /\ Range(lock') = Range(lock) \ {s}
  BY <1>1, ReleaseEffect
<1>3. RfTypeOK'
  BY <1>2 DEF RfInv, RfTypeOK
<1>4. \A t \in Senders : pc'[t] = IF t = s THEN pc'[s] ELSE pc[t]
  BY DEF RfInv, RfTypeOK
<1>5. pc'[s] \in {"fallback", "sent"}
  BY DEF RfInv, RfTypeOK
<1>6. Places'
  BY <1>1, <1>2, <1>4, <1>5, OthersDoNotDrain DEF RfInv, Places, Drains
<1>7. Progress'
  BY DEF RfInv, RfTypeOK, Progress, Drains
<1> QED BY <1>2, <1>3, <1>6, <1>7 DEF RfInv

\* After the lock: the fallback, and the end of a transmission.
LEMMA EndPreserves ==
    ASSUME RfInv, NEW s \in Senders, FallbackSends(s) \/ FallbackFails(s) \/ EndTransmission(s)
    PROVE  RfInv'
<1> USE DEF FallbackSends, FallbackFails, EndTransmission, Move, Goto, Writes
<1>1. RfTypeOK'
  BY DEF RfInv, RfTypeOK
<1>2. Places'
  BY DEF RfInv, RfTypeOK, Places, Drains, Holds
<1>3. Progress'
  BY DEF RfInv, RfTypeOK, Progress
<1> QED BY <1>1, <1>2, <1>3 DEF RfInv

\* The monitor's connection comes and goes.
LEMMA LinkPreserves ==
    ASSUME RfInv, Connect \/ LinkBreaks \/ GiveLinkUp
    PROVE  RfInv'
<1> USE DEF Connect, LinkBreaks, GiveLinkUp
<1>1. RfTypeOK'
  BY DEF RfInv, RfTypeOK
<1>2. Places'
  BY DEF RfInv, RfTypeOK, Places, Drains, Holds
<1>3. Progress'
  BY DEF RfInv, RfTypeOK, Progress
<1> QED BY <1>1, <1>2, <1>3 DEF RfInv

\* The worker is cancelled wherever it is.
LEMMA CancelPreserves ==
    ASSUME RfInv, CancelOutbound
    PROVE  RfInv'
<1> USE DEF CancelOutbound, Goto, Writes
<1>1. lock' \in Seq(Senders) /\ Once(lock') /\ Range(lock') = Range(lock) \ {"outbound"}
  BY Leaves DEF RfInv, RfTypeOK
<1>2. Len(lock') <= 2
  BY <1>1, TwoSenders
<1>3. RfTypeOK'
  BY <1>1, <1>2 DEF RfInv, RfTypeOK
<1>4. Drains("digi") => Holds("digi")'
  <2> SUFFICES ASSUME Drains("digi") PROVE Holds("digi")'
    OBVIOUS
  <2>1. Holds("digi")
    BY DEF RfInv, Places, Senders
  <2>2. ASSUME NEW i \in 1 .. Len(lock') PROVE lock'[i] = "digi"
    BY <1>1, Indices, ElementOfSeq DEF Senders
  <2>3. "digi" \in Range(lock')
    BY <1>1, <2>1, Holder
  <2>4. lock' # <<>> /\ 1 \in 1 .. Len(lock')
    BY <1>1, <2>3, Indices
  <2> QED BY <2>2, <2>4 DEF Holds
<1>5. Places'
  BY <1>1, <1>4 DEF RfInv, RfTypeOK, Places, Drains, Senders
<1>6. Progress'
  BY DEF RfInv, RfTypeOK, Progress, Senders
<1> QED BY <1>1, <1>3, <1>5, <1>6 DEF RfInv

LEMMA TransmitPreserves ==
    ASSUME RfInv, NEW s \in Senders, Transmit(s)
    PROVE  RfInv'
BY GapPreserves, RequestPreserves, WritePreserves, ReleasePreserves, EndPreserves DEF Transmit

LEMMA RfUnchanged == ASSUME RfInv, UNCHANGED rf PROVE RfInv'
BY DEF rf, RfInv, RfTypeOK, Places, Progress, Drains, Holds

-----------------------------------------------------------------------------
(* The table of jobs.                                                      *)

\* A new job is the last; it is the only change to the scheduled jobs.
LEMMA JobAppended ==
    ASSUME PeriodicInv, NEW j \in Jobs, jobs' = Append(jobs, j)
    PROVE  /\ jobs' \in Seq(Jobs)
           /\ \A k : Scheduled(k)' = IF j.kind = k /\ j.trigger = "scheduled"
                                     THEN Scheduled(k) \cup {Len(jobs) + 1} ELSE Scheduled(k)
           /\ \A k : Len(jobs) + 1 \notin Scheduled(k)
<1>1. jobs \in Seq(Jobs) /\ Len(jobs) \in Nat /\ DOMAIN jobs = 1 .. Len(jobs)
  BY Indices DEF PeriodicInv, PeriodicTypeOK
<1>2. /\ jobs' \in Seq(Jobs) /\ Len(jobs') = Len(jobs) + 1
      /\ \A i \in 1 .. Len(jobs) : jobs'[i] = jobs[i]
      /\ jobs'[Len(jobs) + 1] = j
  BY <1>1, AppendProperties
<1>3. DOMAIN jobs' = 1 .. Len(jobs) + 1
  BY <1>2, Indices
<1>4. \A i : i \in DOMAIN jobs' <=> i \in DOMAIN jobs \/ i = Len(jobs) + 1
  BY <1>1, <1>3
<1>5. Len(jobs) + 1 \notin DOMAIN jobs
  BY <1>1
<1> QED BY <1>1, <1>2, <1>4, <1>5 DEF Scheduled

\* The worker takes the first job.
LEMMA JobTaken ==
    ASSUME PeriodicInv, jobs # <<>>, jobs' = Tail(jobs)
    PROVE  /\ jobs' \in Seq(Jobs) /\ Head(jobs) \in Jobs
           /\ \A k : \A i \in Scheduled(k)' : i \in Nat \ {0} /\ i + 1 \in Scheduled(k)
           /\ \A k : Head(jobs).kind = k /\ Head(jobs).trigger = "scheduled" => 1 \in Scheduled(k)
<1>1. jobs \in Seq(Jobs) /\ Len(jobs) \in Nat /\ DOMAIN jobs = 1 .. Len(jobs)
  BY Indices DEF PeriodicInv, PeriodicTypeOK
<1>2. /\ jobs' \in Seq(Jobs) /\ Len(jobs') = Len(jobs) - 1 /\ Head(jobs) \in Jobs
      /\ \A i \in 1 .. Len(jobs') : jobs'[i] = jobs[i + 1]
  BY <1>1, HeadTailProperties
<1>3. DOMAIN jobs' = 1 .. Len(jobs') /\ Len(jobs') \in Nat
  BY <1>2, Indices
<1>4. ASSUME NEW k, NEW i \in Scheduled(k)'
      PROVE  i \in Nat \ {0} /\ i + 1 \in Scheduled(k)
  <2>1. i \in 1 .. Len(jobs') /\ jobs'[i].kind = k /\ jobs'[i].trigger = "scheduled"
    BY <1>3 DEF Scheduled
  <2>2. i + 1 \in 1 .. Len(jobs) /\ i \in Nat \ {0}
    BY <2>1, <1>1, <1>2, <1>3
  <2> QED BY <2>1, <2>2, <1>1, <1>2 DEF Scheduled
<1>5. Head(jobs) = jobs[1] /\ 1 \in 1 .. Len(jobs)
  BY <1>1, EmptySeq
<1> QED BY <1>1, <1>2, <1>4, <1>5 DEF Scheduled

-----------------------------------------------------------------------------
(* The steps of schedulers, web process, worker and core.                  *)

LEMMA PeriodicInitEstablishes == ASSUME PeriodicInit PROVE PeriodicInv /\ hand = NoJob
<1>1. jobs \in Seq(Jobs) /\ DOMAIN jobs = {}
  BY EmptySeq DEF PeriodicInit
<1>2. PeriodicTypeOK
  BY <1>1, PeriodicAssumption DEF PeriodicInit, PeriodicTypeOK
<1> QED BY <1>1, <1>2
        DEF PeriodicInit, PeriodicInv, OneScheduledPending, OncePerInterval, CheckedAlone, Rounds,
            Scheduled, HandIsScheduled

\* Steps that leave the table alone: the interval, the look at what is due, the stamp.
LEMMA TickPreserves ==
    ASSUME PeriodicInv, NEW k \in Kinds,
           IntervalPasses(k) \/ CheckDue(k) \/ EnqueueFails(k) \/ Stamp(k)
    PROVE  PeriodicInv'
<1> USE DEF IntervalPasses, CheckDue, EnqueueFails, Stamp, table, schedule, bounds
<1>1. PeriodicTypeOK'
  <2>1. due' \in [Kinds -> BOOLEAN]
    BY DEF PeriodicInv, PeriodicTypeOK
  <2>2. tick' \in [Kinds -> {"idle", "checked", "enqueued"}]
    BY DEF PeriodicInv, PeriodicTypeOK
  <2>3. rounds' \in [Kinds -> Nat]
    BY DEF PeriodicInv, PeriodicTypeOK
  <2>4. UNCHANGED <<core, jobs, hand, stale, manual, restarts>>
    OBVIOUS
  <2> QED BY <2>1, <2>2, <2>3, <2>4 DEF PeriodicInv, PeriodicTypeOK
<1>2. /\ \A l : Scheduled(l)' = Scheduled(l)
      /\ \A l : HandIsScheduled(l)' <=> HandIsScheduled(l)
  BY DEF Scheduled, HandIsScheduled
<1>3. OneScheduledPending'
  BY <1>2 DEF PeriodicInv, OneScheduledPending
<1>4. CheckedAlone'
  <2>1. CheckDue(k) => Scheduled(k) = {} /\ ~ HandIsScheduled(k)
    BY DEF IsPending, HandKinds, Scheduled, HandIsScheduled
  <2> QED BY <1>2, <2>1 DEF PeriodicInv, PeriodicTypeOK, CheckedAlone
<1>5. Rounds' /\ OncePerInterval'
  <2>1. \A l \in Kinds : l # k => tick'[l] = tick[l] /\ due'[l] = due[l] /\ rounds'[l] = rounds[l]
    BY DEF PeriodicInv, PeriodicTypeOK
  <2>2. /\ tick'[k] # "idle" => due'[k]
        /\ tick'[k] = "enqueued" => rounds'[k] = 1
        /\ tick'[k] # "enqueued" /\ due'[k] => rounds'[k] = 0
        /\ rounds'[k] <= 1
    <3>1. CASE IntervalPasses(k)
      BY <3>1 DEF PeriodicInv, PeriodicTypeOK
    <3>2. CASE CheckDue(k) \/ EnqueueFails(k)
      BY <3>2 DEF PeriodicInv, PeriodicTypeOK, Rounds, OncePerInterval
    <3>3. CASE Stamp(k)
      <4>1. ~ due'[k] /\ tick'[k] = "idle" /\ rounds' = rounds
        BY <3>3 DEF PeriodicInv, PeriodicTypeOK
      <4> QED BY <4>1 DEF PeriodicInv, OncePerInterval
    <3> QED BY <3>1, <3>2, <3>3
  <2>3. Rounds'
    BY <2>1, <2>2 DEF PeriodicInv, Rounds
  <2>4. OncePerInterval'
    BY <2>1, <2>2 DEF PeriodicInv, OncePerInterval
  <2> QED BY <2>3, <2>4
<1>6. \A l \in Kinds : stale'[l] <= restarts'
  BY DEF PeriodicInv
<1> QED BY <1>1, <1>3, <1>4, <1>5, <1>6 DEF PeriodicInv

\* A scheduler that has found nothing adds its job; a manual job is not a scheduled one.
LEMMA EnqueuePreserves ==
    ASSUME PeriodicInv, NEW k \in Kinds, Enqueue(k) \/ EnqueueManual(k)
    PROVE  PeriodicInv'
<1> USE DEF schedule, table, bounds
<1> DEFINE j == IF Enqueue(k) THEN Job(k, "scheduled") ELSE Job(k, "manual")
<1>1. /\ j \in Jobs /\ j.kind = k
      /\ Enqueue(k) => j.trigger = "scheduled"
      /\ ~ Enqueue(k) => j.trigger = "manual"
  BY DEF Job, Jobs
<1>2. jobs' = Append(jobs, j)
  BY DEF Enqueue, EnqueueManual
<1>3. UNCHANGED <<core, hand, stale, due, restarts>>
  BY DEF Enqueue, EnqueueManual
<1> HIDE DEF j
<1>4. /\ jobs' \in Seq(Jobs)
      /\ \A l : Scheduled(l)' = IF j.kind = l /\ j.trigger = "scheduled"
                                THEN Scheduled(l) \cup {Len(jobs) + 1} ELSE Scheduled(l)
  BY <1>1, <1>2, JobAppended
<1>5. \A l : HandIsScheduled(l)' <=> HandIsScheduled(l)
  BY <1>3 DEF HandIsScheduled
<1>6. CASE Enqueue(k)
  <2>1. Scheduled(k) = {} /\ ~ HandIsScheduled(k)
    BY <1>6 DEF PeriodicInv, CheckedAlone, Enqueue
  <2>2. \A l \in Kinds : Scheduled(l)' = IF l = k THEN {Len(jobs) + 1} ELSE Scheduled(l)
    BY <1>1, <1>4, <1>6, <2>1
  <2>3. PeriodicTypeOK'
    BY <1>3, <1>4, <1>6 DEF PeriodicInv, PeriodicTypeOK, Enqueue
  <2>4. OneScheduledPending'
    BY <1>3, <2>1, <2>2 DEF PeriodicInv, OneScheduledPending, HandIsScheduled
  <2>5. CheckedAlone'
    BY <1>5, <1>6, <2>2 DEF PeriodicInv, PeriodicTypeOK, CheckedAlone, Enqueue
  <2>6. Rounds' /\ OncePerInterval'
    <3>1. /\ \A l \in Kinds : l # k => tick'[l] = tick[l] /\ rounds'[l] = rounds[l]
          /\ tick'[k] = "enqueued" /\ rounds'[k] = rounds[k] + 1 /\ tick[k] = "checked"
      BY <1>6 DEF PeriodicInv, PeriodicTypeOK, Enqueue
    <3>2. due[k] /\ rounds[k] = 0
      BY <3>1 DEF PeriodicInv, Rounds
    <3>3. Rounds'
      BY <1>3, <3>1, <3>2 DEF PeriodicInv, Rounds
    <3>4. OncePerInterval'
      BY <3>1, <3>2 DEF PeriodicInv, OncePerInterval
    <3> QED BY <3>3, <3>4
  <2> QED BY <1>3, <2>3, <2>4, <2>5, <2>6 DEF PeriodicInv
<1>7. CASE ~ Enqueue(k)
  <2>1. \A l : Scheduled(l)' = Scheduled(l)
    BY <1>1, <1>4, <1>7
  <2>2. PeriodicTypeOK'
    BY <1>3, <1>4, <1>7, PeriodicAssumption DEF PeriodicInv, PeriodicTypeOK, EnqueueManual
  <2>3. OneScheduledPending'
    BY <1>3, <2>1 DEF PeriodicInv, OneScheduledPending
  <2>4. CheckedAlone'
    BY <1>5, <1>7, <2>1 DEF PeriodicInv, CheckedAlone, EnqueueManual
  <2>5. Rounds' /\ OncePerInterval'
    BY <1>7 DEF PeriodicInv, Rounds, OncePerInterval, EnqueueManual
  <2> QED BY <1>3, <2>2, <2>3, <2>4, <2>5 DEF PeriodicInv
<1> QED BY <1>6, <1>7

\* A claim and a pause of pacing move a job between table and hand; its end removes it.
LEMMA WorkerPreserves ==
    ASSUME PeriodicInv, Claim \/ Pace \/ Finish
    PROVE  PeriodicInv'
<1> USE DEF schedule, table, bounds
<1>0. UNCHANGED <<core, stale, schedule, bounds>>
  BY DEF Claim, Pace, Finish
<1>1. CASE Claim
  <2>1. jobs # <<>> /\ jobs' = Tail(jobs) /\ hand' = Head(jobs)
    BY <1>1 DEF Claim
  <2>2. /\ jobs' \in Seq(Jobs) /\ hand' \in Jobs
        /\ \A k : \A i \in Scheduled(k)' : i \in Nat \ {0} /\ i + 1 \in Scheduled(k)
        /\ \A k : HandIsScheduled(k)' => 1 \in Scheduled(k)
    BY <2>1, JobTaken DEF HandIsScheduled
  <2>3. PeriodicTypeOK'
    BY <1>0, <2>2 DEF PeriodicInv, PeriodicTypeOK
  <2>4. OneScheduledPending'
    <3> SUFFICES ASSUME NEW k \in Kinds
                 PROVE  /\ \A i, j \in Scheduled(k)' : i = j
                        /\ Scheduled(k)' # {} => ~ HandIsScheduled(k)'
      BY DEF OneScheduledPending, HandIsScheduled
    <3>1. \A i, j \in Scheduled(k) : i = j
      BY DEF PeriodicInv, OneScheduledPending
    <3>2. \A i, j \in Scheduled(k)' : i = j
      <4>1. SUFFICES ASSUME NEW i \in Scheduled(k)', NEW j \in Scheduled(k)' PROVE i = j
        OBVIOUS
      <4>2. i \in Nat /\ j \in Nat /\ i + 1 = j + 1
        BY <2>2, <3>1
      <4> QED BY <4>2
    <3>3. ASSUME NEW i \in Scheduled(k)' PROVE ~ HandIsScheduled(k)'
      <4>1. i \in Nat \ {0} /\ i + 1 \in Scheduled(k)
        BY <2>2
      <4>2. i + 1 # 1
        BY <4>1
      <4> QED BY <2>2, <3>1, <4>1, <4>2
    <3> QED BY <3>2, <3>3
  <2>5. CheckedAlone'
    BY <1>0, <2>2 DEF PeriodicInv, CheckedAlone
  <2> QED BY <1>0, <2>3, <2>4, <2>5 DEF PeriodicInv, Rounds, OncePerInterval
<1>2. CASE Pace
  <2> DEFINE j == [hand EXCEPT !.paced = TRUE]
  <2>1. hand \in Jobs /\ hand # NoJob /\ jobs' = Append(jobs, j) /\ hand' = NoJob
    BY <1>2 DEF Pace, PeriodicInv, PeriodicTypeOK
  <2>2. j \in Jobs /\ j.kind = hand.kind /\ j.trigger = hand.trigger
    BY <2>1 DEF Jobs
  <2> HIDE DEF j
  <2>3. /\ jobs' \in Seq(Jobs)
        /\ \A k : Scheduled(k)' = IF HandIsScheduled(k)
                                  THEN Scheduled(k) \cup {Len(jobs) + 1} ELSE Scheduled(k)
    BY <2>1, <2>2, JobAppended DEF HandIsScheduled
  <2>4. PeriodicTypeOK'
    BY <1>0, <2>1, <2>3 DEF PeriodicInv, PeriodicTypeOK
  <2>5. OneScheduledPending'
    BY <2>1, <2>3 DEF PeriodicInv, OneScheduledPending, HandIsScheduled
  <2>6. CheckedAlone'
    BY <1>0, <2>1, <2>3 DEF PeriodicInv, CheckedAlone, HandIsScheduled
  <2> QED BY <1>0, <2>4, <2>5, <2>6 DEF PeriodicInv, Rounds, OncePerInterval
<1>3. CASE Finish
  <2>1. /\ hand' = NoJob /\ UNCHANGED jobs
        /\ \A k : Scheduled(k)' = Scheduled(k)
    BY <1>3 DEF Finish, Scheduled
  <2>2. PeriodicTypeOK'
    BY <1>0, <2>1 DEF PeriodicInv, PeriodicTypeOK
  <2> QED BY <1>0, <2>1, <2>2
          DEF PeriodicInv, OneScheduledPending, CheckedAlone, HandIsScheduled, Rounds, OncePerInterval
<1> QED BY <1>1, <1>2, <1>3

\* The end of the core, orderly or not, and its start.
LEMMA CorePreserves ==
    ASSUME PeriodicInv, StopWorker \/ Exit \/ Crash \/ Start
    PROVE  PeriodicInv'
<1> USE DEF schedule, table, bounds
<1>1. /\ UNCHANGED jobs /\ \A k : Scheduled(k)' = Scheduled(k)
      /\ hand' \in {hand, NoJob}
  BY DEF StopWorker, Exit, Crash, Start, HandGoesStale, Scheduled
<1>2. /\ restarts' \in restarts .. MaxRestarts
      /\ \A k \in Kinds : stale'[k] \in 0 .. restarts'
      /\ stale' \in [Kinds -> 0 .. MaxRestarts]
  <2>1. restarts \in 0 .. MaxRestarts /\ stale \in [Kinds -> 0 .. MaxRestarts]
        /\ \A k \in Kinds : stale[k] <= restarts
    BY DEF PeriodicInv, PeriodicTypeOK
  <2>2. CASE StopWorker \/ Crash
    <3>1. restarts' = restarts + 1 /\ restarts < MaxRestarts
          /\ stale' = [k \in Kinds |-> IF k \in HandKinds THEN stale[k] + 1 ELSE stale[k]]
      BY <2>2 DEF StopWorker, Crash, HandGoesStale
    <3>2. \A k \in Kinds : stale'[k] \in 0 .. restarts'
      BY <2>1, <3>1, PeriodicAssumption
    <3>3. restarts' \in restarts .. MaxRestarts
      BY <2>1, <3>1, PeriodicAssumption
    <3>4. 0 .. restarts' \subseteq 0 .. MaxRestarts
      BY <2>1, <3>1, PeriodicAssumption
    <3>5. stale' \in [Kinds -> 0 .. MaxRestarts]
      BY <3>1, <3>2, <3>4
    <3> QED BY <3>2, <3>3, <3>5
  <2>3. CASE Exit \/ Start
    <3>1. restarts' = restarts /\ (stale' = stale \/ stale' = [k \in Kinds |-> IF k \in Recovered THEN 0 ELSE stale[k]])
      BY <2>3 DEF Exit, Start
    <3>2. \A k \in Kinds : stale'[k] \in 0 .. restarts'
      BY <2>1, <3>1, PeriodicAssumption
    <3>3. restarts' \in restarts .. MaxRestarts
      BY <2>1, <3>1, PeriodicAssumption
    <3>4. 0 .. restarts' \subseteq 0 .. MaxRestarts
      BY <2>1, <3>1, PeriodicAssumption
    <3>5. stale' \in [Kinds -> 0 .. MaxRestarts]
      BY <2>1, <3>1, <3>2, <3>4
    <3> QED BY <3>2, <3>3, <3>5
  <2> QED BY <2>2, <2>3
<1>3. PeriodicTypeOK'
  <2>1. restarts' \in 0 .. MaxRestarts
    BY <1>2 DEF PeriodicInv, PeriodicTypeOK
  <2>2. tick' \in [Kinds -> {"idle", "checked", "enqueued"}] /\ due' = due
    BY DEF StopWorker, Exit, Crash, Start, PeriodicInv, PeriodicTypeOK
  <2>3. rounds' \in [Kinds -> Nat]
    <3>1. CASE Crash
      <4>1. \A k \in Kinds : (IF tick[k] = "enqueued" THEN rounds[k] - 1 ELSE rounds[k]) \in Nat
        <5> SUFFICES ASSUME NEW k \in Kinds
                     PROVE  (IF tick[k] = "enqueued" THEN rounds[k] - 1 ELSE rounds[k]) \in Nat
          OBVIOUS
        <5>1. rounds[k] \in Nat /\ (tick[k] = "enqueued" => rounds[k] = 1)
          BY DEF PeriodicInv, PeriodicTypeOK, Rounds
        <5>2. CASE tick[k] = "enqueued"
          BY <5>1, <5>2
        <5>3. CASE tick[k] # "enqueued"
          BY <5>1, <5>3
        <5> QED BY <5>2, <5>3
      <4> QED BY <3>1, <4>1 DEF Crash
    <3>2. CASE ~ Crash
      BY <3>2 DEF StopWorker, Exit, Start, PeriodicInv, PeriodicTypeOK
    <3> QED BY <3>1, <3>2
  <2>4. core' \in {"running", "stopping", "down"} /\ manual' = manual
    BY DEF StopWorker, Exit, Crash, Start
  <2> QED BY <1>1, <1>2, <2>1, <2>2, <2>3, <2>4 DEF PeriodicInv, PeriodicTypeOK
<1>4. OneScheduledPending'
  BY <1>1 DEF PeriodicInv, OneScheduledPending
<1>5. CheckedAlone'
  BY <1>1 DEF PeriodicInv, CheckedAlone, HandIsScheduled, StopWorker, Exit, Crash, Start
<1>6. Rounds' /\ OncePerInterval'
  <2>1. CASE Crash
    BY <2>1 DEF PeriodicInv, PeriodicTypeOK, Rounds, OncePerInterval, Crash
  <2>2. CASE ~ Crash
    BY <2>2 DEF PeriodicInv, Rounds, OncePerInterval, StopWorker, Exit, Start
  <2> QED BY <2>1, <2>2
<1>7. \A k \in Kinds : stale'[k] <= restarts'
  BY <1>2
<1> QED BY <1>3, <1>4, <1>5, <1>6, <1>7 DEF PeriodicInv

LEMMA PeriodicUnchanged == ASSUME PeriodicInv, UNCHANGED periodic PROVE PeriodicInv'
BY DEF periodic, schedule, table, bounds, PeriodicInv, PeriodicTypeOK, OneScheduledPending,
       OncePerInterval, CheckedAlone, Rounds, Scheduled, HandIsScheduled
-----------------------------------------------------------------------------
(* The actions of Station.                                                 *)

\* The steps of the dispatcher, and of the link, leave the worker's place as idle as it was.
LEMMA WorkerStaysPut ==
    ASSUME RfInv,
           \/ EnqueueDigiTx \/ NextFrame \/ GiveUp("digi") \/ EndTransmission("digi")
           \/ \E s \in Senders : Transmit(s)
           \/ Connect \/ LinkBreaks \/ GiveLinkUp
    PROVE  pc'["outbound"] = "idle" <=> pc["outbound"] = "idle"
<1>1. CASE EnqueueDigiTx \/ NextFrame \/ GiveUp("digi") \/ EndTransmission("digi")
  BY <1>1 DEF RfInv, RfTypeOK, Senders, EnqueueDigiTx, NextFrame, GiveUp, EndTransmission, Move, Goto
<1>2. CASE Connect \/ LinkBreaks \/ GiveLinkUp
  BY <1>2 DEF RfInv, RfTypeOK, Senders, Connect, LinkBreaks, GiveLinkUp
<1>3. ASSUME NEW s \in Senders, Transmit(s)
      PROVE  pc'["outbound"] = "idle" <=> pc["outbound"] = "idle"
  <2>1. pc[s] # "idle" /\ \E to : to # "idle" /\ pc' = [pc EXCEPT ![s] = to]
    BY <1>3 DEF Transmit, RequestLink, NoRuntime, WriteToTnc, NoLink, DrainReturns, DrainFails,
                Recover, FallbackSends, FallbackFails, Move, Goto, Drains
  <2> QED BY <2>1 DEF RfInv, RfTypeOK, Senders
<1> QED BY <1>1, <1>2, <1>3

\* The worker takes a job and ends it: its place follows.
LEMMA WorkerStepPreserves ==
    ASSUME IndInv, ClaimJob \/ PaceJob \/ SkipJob \/ EndJob
    PROVE  IndInv'
<1>1. PeriodicInv'
  BY WorkerPreserves DEF IndInv, ClaimJob, PaceJob, SkipJob, EndJob
<1>2. RfInv'
  BY GapPreserves, EndPreserves DEF IndInv, ClaimJob, PaceJob, SkipJob, EndJob, Senders
<1>3. InHand'
  <2>1. CASE ClaimJob
    <3>1. hand' \in Jobs /\ core = "running" /\ core' = core
      BY <2>1, JobTaken DEF IndInv, ClaimJob, Claim
    <3>2. pc'["outbound"] = "gap"
      BY <2>1 DEF IndInv, RfInv, RfTypeOK, Senders, ClaimJob, BeginJob, Move, Goto
    <3> QED BY <3>1, <3>2, PeriodicAssumption DEF InHand
  <2>2. CASE PaceJob \/ SkipJob \/ EndJob
    <3>1. hand' = NoJob
      BY <2>2 DEF PaceJob, SkipJob, EndJob, Pace, Finish
    <3>2. pc'["outbound"] = "idle"
      BY <2>2 DEF IndInv, RfInv, RfTypeOK, Senders, PaceJob, SkipJob, EndJob, GiveUp,
                  EndTransmission, Move, Goto
    <3> QED BY <3>1, <3>2 DEF InHand
  <2> QED BY <2>1, <2>2
<1> QED BY <1>1, <1>2, <1>3 DEF IndInv

\* Steps of the transmission alone.
LEMMA AirStepPreserves ==
    ASSUME IndInv,
           \/ RouteFrame \/ DispatchFrame \/ DropFrame \/ EndFrame \/ LinkStep
           \/ \E s \in Senders : TransmitStep(s)
    PROVE  IndInv'
<1>1. UNCHANGED periodic
  BY DEF RouteFrame, DispatchFrame, DropFrame, EndFrame, LinkStep, TransmitStep
<1>2. PeriodicInv'
  BY <1>1, PeriodicUnchanged DEF IndInv
<1>3. \/ EnqueueDigiTx \/ NextFrame \/ GiveUp("digi") \/ EndTransmission("digi")
      \/ \E s \in Senders : Transmit(s)
      \/ Connect \/ LinkBreaks \/ GiveLinkUp
  BY DEF RouteFrame, DispatchFrame, DropFrame, EndFrame, LinkStep, TransmitStep
<1>4. RfInv'
  BY <1>3, GapPreserves, EndPreserves, TransmitPreserves, LinkPreserves DEF IndInv, Senders
<1>5. InHand'
  BY <1>1, <1>3, WorkerStaysPut DEF IndInv, InHand, periodic, table
<1> QED BY <1>2, <1>4, <1>5 DEF IndInv

\* The core stops, crashes and starts.
LEMMA LifeStepPreserves ==
    ASSUME IndInv, StopOutbound \/ StopCore \/ CrashCore \/ StartCore
    PROVE  IndInv'
<1>1. PeriodicInv'
  BY CorePreserves DEF IndInv, StopOutbound, StopCore, CrashCore, StartCore
<1>2. RfInv'
  BY CancelPreserves, DownPreserves, RfUnchanged
     DEF IndInv, StopOutbound, StopCore, CrashCore, StartCore
<1>3. InHand'
  <2>1. CASE StopOutbound
    BY <2>1 DEF IndInv, RfInv, RfTypeOK, InHand, Senders, StopOutbound, StopWorker, HandGoesStale,
                CancelOutbound, Goto
  <2>2. CASE StopCore \/ CrashCore
    <3>1. pc'["outbound"] = "idle"
      BY <2>2 DEF StopCore, CrashCore, Down, Senders
    <3>2. hand' = NoJob
      BY <2>2 DEF IndInv, InHand, StopCore, CrashCore, Exit, Crash, HandGoesStale, table
    <3> QED BY <3>1, <3>2 DEF InHand
  <2>3. CASE StartCore
    BY <2>3 DEF IndInv, InHand, StartCore, Start, rf
  <2> QED BY <2>1, <2>2, <2>3
<1> QED BY <1>1, <1>2, <1>3 DEF IndInv

\* The steps of the schedulers and of the web process.
LEMMA ScheduleStepPreserves ==
    ASSUME IndInv, NEW k \in Kinds, ScheduleStep(k)
    PROVE  IndInv'
<1>1. PeriodicInv'
  BY TickPreserves, EnqueuePreserves DEF IndInv, ScheduleStep
<1>2. RfInv'
  BY RfUnchanged DEF IndInv, ScheduleStep
<1>3. UNCHANGED <<core, hand, pc>>
  BY DEF ScheduleStep, IntervalPasses, CheckDue, Enqueue, EnqueueFails, Stamp, EnqueueManual, table, rf
<1>4. InHand'
  BY <1>3 DEF IndInv, InHand
<1> QED BY <1>1, <1>2, <1>4 DEF IndInv

LEMMA Invariance == Spec => []IndInv
<1>1. Init => IndInv
  <2> SUFFICES ASSUME Init PROVE IndInv
    OBVIOUS
  <2>1. InHand
    BY DEF Init, PeriodicInit, RfInit, InHand, Senders
  <2> QED BY <2>1, PeriodicInitEstablishes, RfInitEstablishes DEF Init, IndInv
<1>2. IndInv /\ [Next]_vars => IndInv'
  <2> SUFFICES ASSUME IndInv, [Next]_vars PROVE IndInv'
    OBVIOUS
  <2>1. CASE \E k \in Kinds : ScheduleStep(k)
    BY <2>1, ScheduleStepPreserves
  <2>2. CASE ClaimJob \/ PaceJob \/ SkipJob \/ EndJob
    BY <2>2, WorkerStepPreserves
  <2>3. CASE \/ RouteFrame \/ DispatchFrame \/ DropFrame \/ EndFrame \/ LinkStep
             \/ \E s \in Senders : TransmitStep(s)
    BY <2>3, AirStepPreserves
  <2>4. CASE StopOutbound \/ StopCore \/ CrashCore \/ StartCore
    BY <2>4, LifeStepPreserves
  <2>5. CASE UNCHANGED vars
    BY <2>5, RfUnchanged, PeriodicUnchanged DEF vars, IndInv, InHand, rf, periodic, table
  <2> QED BY <2>1, <2>2, <2>3, <2>4, <2>5 DEF Next
<1> QED BY <1>1, <1>2, PTL DEF Spec

-----------------------------------------------------------------------------
(* The results.                                                            *)

\* Every variable stays in its set, at most two senders are in the queue of the lock, and
\* the worker has a job in hand exactly while it transmits.
THEOREM TypeCorrect == Spec => []TypeOK
<1>1. IndInv => TypeOK
  BY DEF IndInv, RfInv, PeriodicInv, InHand, TypeOK
<1> QED BY <1>1, Invariance, PTL

\* The check for pending jobs and the insert are separate transactions, and still never two
\* scheduled jobs of a kind are pending.
THEOREM ScheduledOnce == Spec => []OneScheduledPending
<1>1. IndInv => OneScheduledPending
  BY DEF IndInv, PeriodicInv
<1> QED BY <1>1, Invariance, PTL

\* In one interval a kind is scheduled at most once.
THEOREM IntervalServedOnce == Spec => []OncePerInterval
<1>1. IndInv => OncePerInterval
  BY DEF IndInv, PeriodicInv
<1> QED BY <1>1, Invariance, PTL

\* What a sender reports of its frame is what has become of it.
THEOREM ReportsTruth == Spec => []OutcomeTrue
<1>1. IndInv => OutcomeTrue
  BY DEF IndInv, RfInv, Progress, OutcomeTrue
<1> QED BY <1>1, Invariance, PTL

\* The recovery of one sender waits for the lock, and so never closes a live link on which
\* the other one drains its frame.
THEOREM RecoveryCutsNoFrame == Spec => CutsNoFrame
<1> DEFINE A == \A s \in Senders : pc[s] = "draining" /\ tncWriter /\ ~tncWriter' =>
                  link = "lost" \/ pc'[s] = "idle"
<1>1. IndInv /\ [Next]_vars => [A]_rf
  <2> SUFFICES ASSUME IndInv, Next,
                      NEW s \in Senders, pc[s] = "draining", tncWriter, ~tncWriter'
               PROVE  link = "lost" \/ pc'[s] = "idle"
    BY DEF vars
  <2>1. \/ \E t \in Senders : Recover(t)
        \/ GiveLinkUp
        \/ Down
    BY DEF Next, ScheduleStep, ClaimJob, PaceJob, SkipJob, EndJob, RouteFrame, DispatchFrame,
           DropFrame, EndFrame, TransmitStep, Transmit, LinkStep, StopOutbound, StopCore, CrashCore,
           StartCore, BeginJob, GiveUp, EndTransmission, EnqueueDigiTx, NextFrame, RequestLink,
           NoRuntime, WriteToTnc, NoLink, DrainReturns, DrainFails, FallbackSends, FallbackFails,
           Connect, LinkBreaks, CancelOutbound, rf
  <2>2. ASSUME NEW t \in Senders, Recover(t) PROVE FALSE
    <3>1. Holds(t) /\ t # s
      BY <2>2 DEF Recover, Move
    <3> QED BY <3>1, OthersDoNotDrain DEF IndInv, Drains
  <2> QED BY <2>1, <2>2 DEF GiveLinkUp, Down
<1> QED BY <1>1, Invariance, PTL DEF Spec, CutsNoFrame
=============================================================================
