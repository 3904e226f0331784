------------------------------- MODULE Station -------------------------------
(***************************************************************************)
(* The core process on the air: the periodic jobs (PeriodicJobs) are       *)
(* transmitted by the outbound worker, which shares the TNC with the       *)
(* dispatcher of routed frames (RfTransmit).  core_main.py starts and      *)
(* stops both.                                                             *)
(***************************************************************************)
EXTENDS PeriodicJobs, RfTransmit

vars == <<periodic, rf>>

\* A tick of a scheduler, the interval and the web process.
ScheduleStep(k) ==
    /\ IntervalPasses(k) \/ CheckDue(k) \/ Enqueue(k) \/ EnqueueFails(k) \/ Stamp(k) \/ EnqueueManual(k)
    /\ UNCHANGED rf

ClaimJob == Claim /\ BeginJob

PaceJob == Pace /\ GiveUp("outbound")

SkipJob == Finish /\ GiveUp("outbound")

EndJob == Finish /\ EndTransmission("outbound")

RouteFrame == core # "down" /\ EnqueueDigiTx /\ UNCHANGED periodic

DispatchFrame == core # "down" /\ NextFrame /\ UNCHANGED periodic

DropFrame == GiveUp("digi") /\ UNCHANGED periodic

EndFrame == EndTransmission("digi") /\ UNCHANGED periodic

TransmitStep(s) == Transmit(s) /\ UNCHANGED periodic

\* Stopping the traffic monitor gives its link up.
LinkStep ==
    /\ \/ Connect /\ core = "running"
       \/ LinkBreaks
       \/ GiveLinkUp
    /\ UNCHANGED periodic

StopOutbound == StopWorker /\ CancelOutbound

StopCore == Exit /\ Down

CrashCore == Crash /\ Down

StartCore == Start /\ UNCHANGED rf

Init == PeriodicInit /\ RfInit

Next ==
    \/ \E k \in Kinds : ScheduleStep(k)
    \/ ClaimJob \/ PaceJob \/ SkipJob \/ EndJob
    \/ RouteFrame \/ DispatchFrame \/ DropFrame \/ EndFrame
    \/ \E s \in Senders : TransmitStep(s)
    \/ LinkStep
    \/ StopOutbound \/ StopCore \/ CrashCore \/ StartCore

Spec == Init /\ [][Next]_vars

\* Time passes, the threads of the schedulers and the tasks go on, an operation on a
\* connection returns or fails, and a core that is down is started again.
Fairness ==
    /\ \A k \in Kinds :
         /\ WF_vars(IntervalPasses(k) /\ UNCHANGED rf)
         /\ SF_vars(CheckDue(k) /\ UNCHANGED rf)
         /\ WF_vars((Enqueue(k) \/ EnqueueFails(k) \/ Stamp(k)) /\ UNCHANGED rf)
    /\ WF_vars(ClaimJob)
    /\ WF_vars(PaceJob \/ SkipJob \/ EndJob \/ TransmitStep("outbound"))
    /\ WF_vars(DispatchFrame \/ DropFrame \/ EndFrame \/ TransmitStep("digi"))
    /\ WF_vars(StopCore)
    /\ WF_vars(StartCore)

FairSpec == Spec /\ Fairness

-----------------------------------------------------------------------------
TypeOK == PeriodicTypeOK /\ RfTypeOK /\ (hand = NoJob <=> pc["outbound"] = "idle")

Scheduled(k) == {i \in DOMAIN jobs : jobs[i].kind = k /\ jobs[i].trigger = "scheduled"}

\* Whatever ticks, manual jobs, pacing and restarts come between: at most one
\* scheduled job of a kind waits or is in hand.
OneScheduledPending ==
    \A k \in Kinds :
      /\ \A i, j \in Scheduled(k) : i = j
      /\ Scheduled(k) # {} => hand = NoJob \/ hand.kind # k \/ hand.trigger # "scheduled"

\* In one interval a kind is scheduled once, but for a job whose stamp was lost with
\* the core.
OncePerInterval == \A k \in Kinds : rounds[k] <= 1

\* A kind is looked at again and again whether it is due, and enqueued if it can be.
KeepsGoing(k) == []<>(tick[k] = "checked")

\* Restarts, lost links and the frames of the other sender do not end that for the
\* kinds whose jobs the start of the core recovers.
RecoveredKeepGoing == \A k \in Kinds \cap {"beacon", "wx"} : KeepsGoing(k)

\* What the documentation says of the periodic status.
StatusKeepsGoing == KeepsGoing("status")

\* A routed frame that the dispatcher has taken from its queue does not stay with it,
\* whatever the worker and the link do.
DispatcherServes == pc["digi"] # "idle" ~> pc["digi"] = "idle"
=============================================================================
