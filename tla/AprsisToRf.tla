------------------------------ MODULE AprsisToRf ------------------------------
(***************************************************************************)
(* The gate from APRS-IS to the radio (services/digi_flow_runtime.py):     *)
(* the input guard, the message delivery rule, the viscous delay, the      *)
(* second duplicate check and the token buckets of the TX guard.           *)
(*                                                                         *)
(* Everything runs on one event loop.  A handler runs from one await to    *)
(* the next: an APRS-IS frame passes all its flows (variable frame holds   *)
(* it between two of them), a frame heard on RF is recorded, or the delay  *)
(* of a pending packet ends, each without an interruption.                 *)
(*                                                                         *)
(* A packet stands for its logical hash: source and information field.     *)
(* What the packets say and how the stations, flows and interfaces are     *)
(* configured at the moment (q constructs, radius, recipient heard on RF,  *)
(* interface blocked) is a choice of the environment.  Time is a clock of  *)
(* whole ticks; the duration of a delay, a window or a lag is a constant.  *)
(***************************************************************************)
EXTENDS Integers, Sequences, FiniteSets, SequencesExt, FiniteSetsExt

CONSTANTS
    Packets,         \* logical packets, as normalized_packet_hash names them
    Flows,           \* ids of the APRS-IS -> RF flows: positive numbers
    Stations,
    NoStation,       \* stands for no station
    Sender,          \* Sender[p]: the source callsign of p
    Recipient,       \* Recipient[p]: the addressee of a message, or NoStation
    IsPosition,      \* IsPosition[p]: is p a position report?
    Delay,           \* Delay[f]: viscous_delay_sec
    Window,          \* Window[f]: duplicate_window_sec
    Retention,       \* after how long _prune_aprsis_rf_state forgets a packet
    SeenMax,         \* the number of packets it remembers
    PendingMax,      \* pending packets of all flows, and of one flow
    PendingPerFlow,
    TOKEN,           \* units of a token: rates are in units per tick
    FlowRate, FlowBurst, SourceRate, SourceBurst,
    MaxLag,          \* how late the event loop may run a callback
    MaxTime          \* bound: length of a behaviour in ticks

ASSUME FlowsAssumption == Flows \subseteq Nat \ {0} /\ IsFiniteSet(Flows)
\* Hashes are of a fixed length.
ASSUME PacketsAssumption ==
    /\ IsFiniteSet(Packets)
    /\ Sender \in [Packets -> Stations]
    /\ Recipient \in [Packets -> Stations \cup {NoStation}]
    /\ IsPosition \in [Packets -> BOOLEAN]
    /\ NoStation \notin Stations
ASSUME TimesAssumption ==
    /\ Delay \in [Flows -> Nat \ {0}]
    /\ Window \in [Flows -> Nat \ {0}]
    /\ \A f \in Flows : MaxLag < Window[f] /\ Window[f] <= Retention
    /\ Retention \in Nat /\ MaxLag \in Nat /\ MaxTime \in Nat
ASSUME LimitsAssumption ==
    /\ {SeenMax, PendingMax, PendingPerFlow, TOKEN} \subseteq Nat \ {0}
    /\ {FlowRate, FlowBurst, SourceRate, SourceBurst} \subseteq Nat \ {0}

VARIABLES
    now,        \* time.monotonic(), in ticks
    frame,      \* the APRS-IS frame the worker is processing
    seen,       \* _aprsis_rf_seen: an OrderedDict, the oldest entry first
    pending,    \* _aprsis_rf_pending, with the time its task is ready to run
    flowBucket, sourceBucket, recipientBucket,
    owesPosition,  \* aprsis_igate_pending_position: <<flow, sender>> pairs
    sent,       \* history: what has been queued for the radio, in order
    heard,      \* history: when each packet was last heard on RF
    lastMet     \* history: when the memory last took note of each packet

vars == <<now, frame, seen, pending, flowBucket, sourceBucket, recipientBucket,
          owesPosition, sent, heard, lastMet>>
memory == <<seen, lastMet>>
buckets == <<flowBucket, sourceBucket, recipientBucket>>

Never == -1
Recent(t, span) == t # Never /\ now - t <= span

Routes == {"message", "allow_rule"}

-----------------------------------------------------------------------------
(* _aprsis_rf_seen                                                         *)

NewSeen(p) == [packet |-> p, is |-> Never, rf |-> Never, queued |-> Never]
LastTime(e) == Max({e.is, e.rf, e.queued})

\* The elements of s at the indices in I, in their order.
Subsequence(s, I) ==
    [k \in 1 .. Cardinality(I) |-> s[CHOOSE i \in I : Cardinality({j \in I : j <= i}) = k]]

\* _prune_aprsis_rf_state.
Pruned(s) ==
    LET fresh == Subsequence(s, {i \in DOMAIN s : Recent(LastTime(s[i]), Retention)})
    IN  SubSeq(fresh, Max({1, Len(fresh) - SeenMax + 1}), Len(fresh))

Knows(s, p) == \E i \in DOMAIN s : s[i].packet = p
EntryOf(s, p) == IF Knows(s, p) THEN s[CHOOSE i \in DOMAIN s : s[i].packet = p] ELSE NewSeen(p)
WithDefault(s, p) == IF Knows(s, p) THEN s ELSE Append(s, NewSeen(p))

\* Variant: a known packet keeps its place.
KeptInPlace(s, e) ==
    IF Knows(s, e.packet) THEN [i \in DOMAIN s |-> IF s[i].packet = e.packet THEN e ELSE s[i]]
    ELSE Append(s, e)

\* Store e and move it to the end.
MovedToEnd(s, e) == Append(Subsequence(s, {i \in DOMAIN s : s[i].packet # e.packet}), e)

\* Handlers that look for p but have nothing to note, and those that note e.
LookFor(p) == seen' = WithDefault(Pruned(seen), p) /\ UNCHANGED lastMet

Note(e) ==
    /\ seen' = MovedToEnd(Pruned(seen), e)
    /\ lastMet' = [lastMet EXCEPT ![e.packet] = now]

-----------------------------------------------------------------------------
(* An APRS-IS frame on its way through the flows: _process_frame.          *)

NoFrame == [packet |-> "none", todo |-> {}, marked |-> FALSE]
LoopIdle == frame.todo = {}

\* todo: the flows whose source is the interface that received the frame.
Receive(p, todo) ==
    /\ LoopIdle
    /\ frame' = [packet |-> p, todo |-> todo, marked |-> FALSE]
    /\ UNCHANGED <<now, memory, pending, buckets, owesPosition, sent, heard>>

\* The flows take their turn in the order of their ids.
ItsTurn(f) == f \in frame.todo /\ \A g \in frame.todo : f <= g

\* End of flow f, whose input guard has (or has not) put its mark.
FlowDone(f, marks) ==
    frame' = IF frame.todo = {f} THEN NoFrame
             ELSE [frame EXCEPT !.todo = @ \ {f}, !.marked = @ \/ marks]

\* is_frame_uid: an earlier flow of the same frame put the mark.
SeenByGuard(f) ==
    LET e == EntryOf(Pruned(seen), frame.packet)
    IN  \/ Recent(e.rf, Window[f])
        \/ Recent(e.queued, Window[f])
        \/ ~frame.marked /\ Recent(e.is, Window[f])

\* The frame is invalid, must not be gated, or flow f has no usable target.
GuardRejects(f) ==
    /\ ItsTurn(f)
    /\ FlowDone(f, FALSE)
    /\ UNCHANGED <<now, memory, pending, buckets, owesPosition, sent, heard>>

GuardDropsDuplicate(f) ==
    /\ ItsTurn(f)
    /\ SeenByGuard(f)
    /\ LookFor(frame.packet)
    /\ FlowDone(f, FALSE)
    /\ UNCHANGED <<now, pending, buckets, owesPosition, sent, heard>>

GuardMarks(f) ==
    /\ ~SeenByGuard(f)
    /\ Note([EntryOf(Pruned(seen), frame.packet) EXCEPT !.is = now])
    /\ FlowDone(f, TRUE)

\* The delivery rule and the callsign-and-radius rule let the packet pass as
\* "message", "associated_position" or "allow_rule".
Authorized(f, route) ==
    LET p == frame.packet
        associated == IsPosition[p] /\ <<f, Sender[p]>> \in owesPosition
    IN  CASE route = "associated_position" -> associated
          [] route = "message" -> ~associated /\ Recipient[p] # NoStation
          [] route = "allow_rule" -> ~associated /\ Recipient[p] = NoStation

\* Variant: a packet pending in another flow does not count.
IsPendingInFlow(f, p) == \E e \in pending : e.flow = f /\ e.packet = p

IsPending(f, p) == \E e \in pending : e.packet = p

MayWait(f) ==
    /\ ~IsPending(f, frame.packet)
    /\ Cardinality(pending) < PendingMax
    /\ Cardinality({e \in pending : e.flow = f}) < PendingPerFlow

\* Not authorized, no usable target, already pending, or too many are.
FlowDrops(f) ==
    /\ ItsTurn(f)
    /\ GuardMarks(f)
    /\ UNCHANGED <<now, pending, buckets, owesPosition, sent, heard>>

\* _schedule_aprsis_rf_pending
Schedule(f, route) ==
    /\ ItsTurn(f)
    /\ Authorized(f, route)
    /\ MayWait(f)
    /\ pending' = pending \cup
         {[flow |-> f, packet |-> frame.packet, route |-> route, created_at |-> now,
           ready |-> now + Delay[f], cancelled |-> FALSE]}
    /\ GuardMarks(f)
    /\ UNCHANGED <<now, buckets, owesPosition, sent, heard>>

-----------------------------------------------------------------------------
(* A frame heard on RF: enqueue_rx_tnc2_frame records its packet and       *)
(* cancels the pending copies of every flow.                               *)

HearOnRf(p) ==
    /\ LoopIdle
    /\ Note([EntryOf(Pruned(seen), p) EXCEPT !.rf = now])
    /\ pending' = {IF e.packet = p
                   THEN [e EXCEPT !.cancelled = TRUE, !.ready = Min({@, now})]
                   ELSE e : e \in pending}
    /\ heard' = [heard EXCEPT ![p] = now]
    /\ UNCHANGED <<now, frame, buckets, owesPosition, sent>>

-----------------------------------------------------------------------------
(* The token buckets: tokens and the time they were counted at.  A bucket  *)
(* comes into being full.                                                  *)

RouteOf(e) == IF e.route = "allow_rule" THEN "allow_rule" ELSE "message"
FlowKey(e) == <<e.flow, RouteOf(e)>>
SourceKey(e) == <<e.flow, RouteOf(e), Sender[e.packet]>>
HasRecipient(e) == e.route = "message"
RecipientKey(e) == <<e.flow, RouteOf(e), Recipient[e.packet]>>

\* Variant: a bucket gathers tokens beyond its burst.
RefilledUncapped(b, rate, burst) == [tokens |-> b.tokens + (now - b.at) * rate, at |-> now]

Refilled(b, rate, burst) ==
    [tokens |-> Min({burst * TOKEN, b.tokens + (now - b.at) * rate}), at |-> now]

FlowRefilled(e) == Refilled(flowBucket[FlowKey(e)], FlowRate, FlowBurst)
SourceRefilled(e) == Refilled(sourceBucket[SourceKey(e)], SourceRate, SourceBurst)
RecipientRefilled(e) == Refilled(recipientBucket[RecipientKey(e)], SourceRate, SourceBurst)

Allows(b) == b.tokens >= TOKEN
Spent(b) == [b EXCEPT !.tokens = @ - TOKEN]

FlowAndSourceAllow(e) == Allows(FlowRefilled(e)) /\ Allows(SourceRefilled(e))
RateAllows(e) ==
    FlowAndSourceAllow(e) /\ (HasRecipient(e) => Allows(RecipientRefilled(e)))

\* _consume_aprsis_rf_rate_limit: a refusal refills what it has looked at.
Refill(e) ==
    /\ flowBucket' = [flowBucket EXCEPT ![FlowKey(e)] = FlowRefilled(e)]
    /\ sourceBucket' = [sourceBucket EXCEPT ![SourceKey(e)] = SourceRefilled(e)]
    /\ recipientBucket' =
         IF HasRecipient(e) /\ FlowAndSourceAllow(e)
         THEN [recipientBucket EXCEPT ![RecipientKey(e)] = RecipientRefilled(e)]
         ELSE recipientBucket

Spend(e) ==
    /\ flowBucket' = [flowBucket EXCEPT ![FlowKey(e)] = Spent(FlowRefilled(e))]
    /\ sourceBucket' = [sourceBucket EXCEPT ![SourceKey(e)] = Spent(SourceRefilled(e))]
    /\ recipientBucket' =
         IF HasRecipient(e)
         THEN [recipientBucket EXCEPT ![RecipientKey(e)] = Spent(RecipientRefilled(e))]
         ELSE recipientBucket

-----------------------------------------------------------------------------
(* The end of the viscous delay: _finalize_aprsis_rf_pending.  Once the    *)
(* delay is over, a cancellation may come too late for wait_for.           *)

Finishes(e) == LoopIdle /\ e \in pending /\ pending' = pending \ {e}
TimedOut(e) == now >= e.created_at + Delay[e.flow]

\* Variant: the second check trusts the cancellation.
SeenWhenOnlyQueued(e) ==
    Recent(EntryOf(Pruned(seen), e.packet).queued, Window[e.flow])

SeenMeanwhile(e) ==
    LET entry == EntryOf(Pruned(seen), e.packet)
    IN  \/ entry.rf >= e.created_at /\ Recent(entry.rf, Window[e.flow])
        \/ Recent(entry.queued, Window[e.flow])

\* Cancelled; or flow, target or packet do not qualify any more.
GiveUp(e) ==
    /\ Finishes(e)
    /\ e.cancelled \/ TimedOut(e)
    /\ UNCHANGED <<now, frame, memory, buckets, owesPosition, sent, heard>>

DropDuplicate(e) ==
    /\ Finishes(e)
    /\ TimedOut(e)
    /\ SeenMeanwhile(e)
    /\ LookFor(e.packet)
    /\ UNCHANGED <<now, frame, buckets, owesPosition, sent, heard>>

DropRateLimited(e) ==
    /\ Finishes(e)
    /\ TimedOut(e)
    /\ ~SeenMeanwhile(e)
    /\ ~RateAllows(e)
    /\ Refill(e)
    /\ LookFor(e.packet)
    /\ UNCHANGED <<now, frame, owesPosition, sent, heard>>

\* The packet cannot be encapsulated or the outbound queue refuses it: its
\* tokens are gone.
QueueFails(e) ==
    /\ Finishes(e)
    /\ TimedOut(e)
    /\ ~SeenMeanwhile(e)
    /\ RateAllows(e)
    /\ Spend(e)
    /\ LookFor(e.packet)
    /\ UNCHANGED <<now, frame, owesPosition, sent, heard>>

RememberQueued(e) == Note([EntryOf(Pruned(seen), e.packet) EXCEPT !.queued = now])

\* A message opens the gate for a position of its sender, which closes it.
SettlePositionDebt(e) ==
    owesPosition' =
      CASE e.route = "message" -> owesPosition \cup {<<e.flow, Sender[e.packet]>>}
        [] e.route = "associated_position" -> owesPosition \ {<<e.flow, Sender[e.packet]>>}
        [] e.route = "allow_rule" -> owesPosition

QueueToRf(e) ==
    /\ Finishes(e)
    /\ TimedOut(e)
    /\ ~SeenMeanwhile(e)
    /\ RateAllows(e)
    /\ Spend(e)
    /\ RememberQueued(e)
    /\ SettlePositionDebt(e)
    /\ sent' = Append(sent, [flow |-> e.flow, packet |-> e.packet, route |-> e.route,
                             waited |-> e.created_at, at |-> now])
    /\ UNCHANGED <<now, frame, heard>>

-----------------------------------------------------------------------------
\* ASSOCIATED_POSITION_WINDOW_MINUTES are over.
PositionDebtExpires(d) ==
    /\ LoopIdle
    /\ d \in owesPosition
    /\ owesPosition' = owesPosition \ {d}
    /\ UNCHANGED <<now, frame, memory, pending, buckets, sent, heard>>

\* No callback that is ready waits longer than MaxLag.
Tick ==
    /\ LoopIdle
    /\ now < MaxTime
    /\ \A e \in pending : now < e.ready + MaxLag
    /\ now' = now + 1
    /\ UNCHANGED <<frame, memory, pending, buckets, owesPosition, sent, heard>>

Init ==
    /\ now = 0
    /\ frame = NoFrame
    /\ seen = <<>>
    /\ pending = {}
    /\ flowBucket = [k \in Flows \X Routes |-> [tokens |-> FlowBurst * TOKEN, at |-> 0]]
    /\ sourceBucket =
         [k \in Flows \X Routes \X Stations |-> [tokens |-> SourceBurst * TOKEN, at |-> 0]]
    /\ recipientBucket = sourceBucket
    /\ owesPosition = {}
    /\ sent = <<>>
    /\ heard = [p \in Packets |-> Never]
    /\ lastMet = heard

Next ==
    \/ \E p \in Packets, todo \in SUBSET Flows \ {{}} : Receive(p, todo)
    \/ \E f \in Flows :
         \/ GuardRejects(f) \/ GuardDropsDuplicate(f) \/ FlowDrops(f)
         \/ \E route \in Routes \cup {"associated_position"} : Schedule(f, route)
    \/ \E p \in Packets : HearOnRf(p)
    \/ \E e \in pending :
         \/ GiveUp(e) \/ DropDuplicate(e) \/ DropRateLimited(e)
         \/ QueueFails(e) \/ QueueToRf(e)
    \/ \E d \in owesPosition : PositionDebtExpires(d)
    \/ Tick

Spec == Init /\ [][Next]_vars

-----------------------------------------------------------------------------
Time == 0 .. MaxTime
Stamp == Time \cup {Never}
Bucket(burst) == [tokens : 0 .. burst * TOKEN, at : Time]

\* Every memory holds what the code puts there, within the limits the code sets.
TypeOK ==
    /\ now \in Time
    /\ frame \in [packet : Packets \cup {"none"}, todo : SUBSET Flows, marked : BOOLEAN]
    /\ seen \in Seq([packet : Packets, is : Stamp, rf : Stamp, queued : Stamp])
    /\ Len(seen) <= SeenMax + 1
    /\ pending \subseteq [flow : Flows, packet : Packets,
                          route : Routes \cup {"associated_position"}, created_at : Time,
                          ready : Nat, cancelled : BOOLEAN]
    /\ Cardinality(pending) <= PendingMax
    /\ flowBucket \in [Flows \X Routes -> Bucket(FlowBurst)]
    /\ sourceBucket \in [Flows \X Routes \X Stations -> Bucket(SourceBurst)]
    /\ recipientBucket \in [Flows \X Routes \X Stations -> Bucket(SourceBurst)]
    /\ owesPosition \subseteq Flows \X Stations
    /\ sent \in Seq([flow : Flows, packet : Packets,
                     route : Routes \cup {"associated_position"}, waited : Time, at : Time])
    /\ heard \in [Packets -> Stamp]
    /\ lastMet \in [Packets -> Stamp]

\* A packet waits at most once, whatever flows it matches and however often it
\* arrives.
PendingOnce == \A d, e \in pending : d.packet = e.packet => d = e

Queues == sent' # sent
New == sent'[Len(sent')]

\* Since time t at least SeenMax other packets have been met: only then may the memory
\* have lost what it noted of p at t.
Crowded(p, t) ==
    Cardinality({q \in Packets \ {p} : lastMet[q] # Never /\ lastMet[q] >= t}) >= SeenMax

\* The gate is silent about what the local radio channel has heard: neither in the
\* duplicate window before the packet came nor while it waited, not even when
\* the cancellation comes too late; unless SeenMax other packets have been met
\* since it was heard.
NotHeardOnRf ==
    [][Queues => LET h == heard[New.packet]
                 IN  h = Never \/ h + Window[New.flow] < New.waited \/ Crowded(New.packet, h)]_vars

\* No packet is repeated within the duplicate window, by any flow, unless SeenMax other
\* packets have been met since it was queued.
NotRepeated ==
    [][Queues => \A i \in DOMAIN sent :
                   sent[i].packet = New.packet =>
                     now - sent[i].at > Window[New.flow] \/ Crowded(New.packet, sent[i].at)]_vars

\* A stretch of traffic between two transmissions of one class costs no more than
\* a full bucket and what it gathered meanwhile.
RateBounded(class(_), rate, burst) ==
    \A i, j \in DOMAIN sent :
      i <= j /\ class(sent[i]) = class(sent[j]) =>
        TOKEN * Cardinality({k \in i .. j : class(sent[k]) = class(sent[i])})
          <= TOKEN * burst + rate * (sent[j].at - sent[i].at)

\* The channel is protected from a flow, and the flow from a source.
RatesBounded ==
    /\ RateBounded(FlowKey, FlowRate, FlowBurst)
    /\ RateBounded(SourceKey, SourceRate, SourceBurst)

\* Of a sender whose messages have been gated the next position is gated too: one
\* position for a message.
CountSent(f, s, route) ==
    Cardinality({i \in DOMAIN sent :
                   sent[i].flow = f /\ Sender[sent[i].packet] = s /\ sent[i].route = route})

OnePositionPerMessage ==
    \A f \in Flows, s \in Stations :
      CountSent(f, s, "associated_position") <= CountSent(f, s, "message")
=============================================================================
