---------------------------- MODULE PacketRouting ----------------------------
(***************************************************************************)
(* The routing of frames heard on RF back to RF                            *)
(* (services/digi_flow_runtime.py): the bounded queue in which a newer     *)
(* position may take the place of an older one, the duplicate filter with  *)
(* its viscous delay, and the shutdown of the runtime by core_main.py.     *)
(*                                                                         *)
(* _process_frame takes a frame through its flows without giving control   *)
(* back to the event loop; a frame, the end of a delay, an arriving frame  *)
(* and each step of the shutdown are therefore one action each.            *)
(*                                                                         *)
(* Time is what the timers show: each counts ticks up to the value that    *)
(* the code compares it with, so that a behaviour may go on for ever.      *)
(***************************************************************************)
EXTENDS Integers, Sequences, FiniteSets, FiniteSetsExt

CONSTANTS
    Packets,       \* fingerprints: source callsign and information field
    NoStation,     \* stands for no station
    PositionOf,    \* PositionOf[p]: the station whose position p is, or NoStation
    Flows,         \* flows from RF to RF
    Window,        \* Window[f]: window_sec, or 0 if f has no duplicate filter
    QueueMax,      \* DIGI_FLOW_QUEUE_MAX_FRAMES
    MaxLag,        \* how late the event loop may run a callback
    MaxLate        \* bound: frames from APRS-IS after the shutdown has begun

ASSUME RoutingAssumption ==
    /\ IsFiniteSet(Flows)
    /\ Window \in [Flows -> Nat]
    /\ QueueMax \in Nat \ {0} /\ MaxLag \in Nat /\ MaxLate \in Nat

VARIABLES
    queue,         \* _queue
    lag,           \* for how long the worker has been ready to go on with it
    entries,       \* _viscous_delay_entries, with their age
    pendingWait,   \* _pending_viscous_wait_count
    gatePending,   \* is _aprsis_rf_pending non-empty? (module AprsisToRf)
    phase,         \* where wait_until_idle and stop are
    joined,        \* Queue.join() has been released
    worker,        \* is the loop of _run alive?
    late,          \* frames from APRS-IS since the shutdown began
    sinceOut,      \* history: ticks since packet p left flow f
    overtaken,     \* history: a position met the full queue during join()
    repeated       \* history: a packet has left a flow twice within its window

output == <<sinceOut, repeated>>
shutdown == <<phase, joined, worker, late, overtaken>>
vars == <<queue, lag, entries, pendingWait, gatePending, output, shutdown>>

Phases == <<"running", "joining", "polling", "leaving", "stopping", "cleared", "stopped">>
Before(p) == \E i, j \in DOMAIN Phases : Phases[i] = phase /\ Phases[j] = p /\ i < j

\* _stop_event
StopSet == ~Before("stopping")
Never == -1
LeastOf(a, b) == IF a < b THEN a ELSE b

-----------------------------------------------------------------------------
(* enqueue_tnc2_frame.  RF frames come from the traffic monitor, which is  *)
(* stopped before the runtime is; APRS-IS is stopped after it.             *)

Frame(from, p) == [from |-> from, packet |-> p]

\* _queued_position_key
IsPosition(frame) == PositionOf[frame.packet] # NoStation

SameStation(x, y) ==
    x.from = y.from /\ IsPosition(x) /\ PositionOf[x.packet] = PositionOf[y.packet]

Older(frame) == {i \in DOMAIN queue : SameStation(queue[i], frame)}

\* Variant: one too many.
IsOverfull == Len(queue) = QueueMax + 1

IsFull == Len(queue) = QueueMax

\* History: the age at which a copy of an RF packet came, unless it is lost.
Noted(frame, lost) ==
    {IF frame.from # "rf" \/ e.duplicate \/ e.packet \notin {frame.packet} \cup lost THEN e
     ELSE IF e.packet # frame.packet THEN [e EXCEPT !.heard = Never]
     ELSE [e EXCEPT !.heard = IF @ = Never \/ e.packet \in lost THEN e.age ELSE @] : e \in entries}

Append1(frame) ==
    /\ ~IsFull
    /\ queue' = Append(queue, frame)
    /\ entries' = Noted(frame, {})
    /\ UNCHANGED <<joined, overtaken>>

\* _supersede_queued_position takes the queue empty to look for an older position,
\* counts every frame off and puts them all back: the counter of unfinished frames
\* falls to zero on the way, which releases join(), whatever it finds.
LookThrough(frame) ==
    LET releases == phase = "joining" /\ IsPosition(frame)
    IN  joined' = (joined \/ releases) /\ overtaken' = (overtaken \/ releases)

\* The first position of the station makes room.
Supersede(frame) ==
    /\ IsFull /\ Older(frame) # {}
    /\ LookThrough(frame)
    /\ queue' = [queue EXCEPT ![Min(Older(frame))] = frame]
    /\ entries' = Noted(frame, {queue[Min(Older(frame))].packet})

DropOnFull(frame) ==
    /\ IsFull /\ Older(frame) = {}
    /\ LookThrough(frame)
    /\ UNCHANGED <<queue, entries>>

Enqueue(frame) == Append1(frame) \/ Supersede(frame) \/ DropOnFull(frame)

HearOnRf(p) ==
    /\ phase = "running"
    /\ Enqueue(Frame("rf", p))
    /\ UNCHANGED <<lag, pendingWait, gatePending, output, phase, worker, late>>

ReceiveFromAprsis(p) ==
    /\ phase = "running" \/ late < MaxLate
    /\ late' = IF phase = "running" THEN late ELSE late + 1
    /\ Enqueue(Frame("aprsis", p))
    /\ UNCHANGED <<lag, pendingWait, gatePending, output, phase, worker>>

-----------------------------------------------------------------------------
(* The steps of a flow after the duplicate filter: what the callsign, type,*)
(* distance, rate and path filters decide, and whether the queue of the    *)
(* RF TX dispatcher has room, is a choice.                                 *)

RunFlows(p, flows) ==
    \E out \in SUBSET flows :
      /\ sinceOut' = [f \in Flows |-> [q \in Packets |->
                        IF q = p /\ f \in out THEN 0 ELSE sinceOut[f][q]]]
      /\ repeated' = (repeated \/ \E f \in out : sinceOut[f][p] < Window[f])

-----------------------------------------------------------------------------
(* The worker: _run, _process_frame and _execute_duplicate_filter.         *)

Delayed == {f \in Flows : Window[f] > 0}
EntryOf(f, p) == {e \in entries : e.flow = f /\ e.packet = p}
Waiting == {e \in entries : ~e.duplicate}

\* Another copy of p already waits in the queue behind the one in hand.
CopyBehind(p) == \E i \in 2 .. Len(queue) : queue[i].from = "rf" /\ queue[i].packet = p

NewEntry(f, p) ==
    [flow |-> f, packet |-> p, age |-> 0, duplicate |-> FALSE,
     heard |-> IF CopyBehind(p) THEN 0 ELSE Never]

\* A known packet marks its entry, an unknown one gets an entry; freed frames do not
\* wait any more.
MarkOrCreate(p, freed) ==
    LET new == {f \in Delayed : EntryOf(f, p) = {}}
    IN  /\ entries' = {IF e.packet = p /\ ~e.duplicate
                       THEN [e EXCEPT !.duplicate = TRUE, !.heard = Never] ELSE e : e \in entries}
                        \cup {NewEntry(f, p) : f \in new}
        /\ pendingWait' = pendingWait + Cardinality(new) - freed

\* Variant: every duplicate is counted off, not only the first.
FilterDuplicatesTwice(p) == MarkOrCreate(p, Cardinality({e \in entries : e.packet = p}))

\* Variant: the frame that a duplicate ends is not counted off.
FilterDuplicatesUncounted(p) == MarkOrCreate(p, 0)

FilterDuplicates(p) == MarkOrCreate(p, Cardinality({e \in Waiting : e.packet = p}))

\* The loop looks at _stop_event between two frames.
Take ==
    /\ worker
    /\ queue # <<>>
    /\ queue' = Tail(queue)
    /\ lag' = IF Len(queue) = 1 THEN 0 ELSE lag
    /\ worker' = ~StopSet
    /\ joined' = (joined \/ (phase = "joining" /\ Len(queue) = 1))
    /\ UNCHANGED <<phase, late, overtaken>>

ProcessRf ==
    /\ Take
    /\ Head(queue).from = "rf"
    /\ FilterDuplicates(Head(queue).packet)
    /\ RunFlows(Head(queue).packet, Flows \ Delayed)
    /\ UNCHANGED gatePending

\* The gate may let the packet wait (AprsisToRf).
ProcessAprsis ==
    /\ Take
    /\ Head(queue).from = "aprsis"
    /\ gatePending' \in {gatePending, TRUE}
    /\ UNCHANGED <<entries, pendingWait, output>>

GateFinishes ==
    /\ gatePending
    /\ gatePending' = FALSE
    /\ UNCHANGED <<queue, lag, entries, pendingWait, output, shutdown>>

-----------------------------------------------------------------------------
(* The end of a viscous delay: _finalize_viscous_delay_entry.              *)

\* Variant: the window ends a tick early.
ExpiredEarly(e) == e.age + 1 >= Window[e.flow]

Expired(e) == e.age >= Window[e.flow]

EndDelay(e, resumes) ==
    /\ Expired(e)
    /\ entries' = entries \ {e}
    /\ pendingWait' = IF e.duplicate THEN pendingWait ELSE pendingWait - 1
    /\ IF resumes THEN RunFlows(e.packet, {e.flow}) ELSE UNCHANGED output
    /\ UNCHANGED <<queue, lag, gatePending, shutdown>>

\* Variant: a shutdown does not keep the frame back.
FinalizeAlways(e) == EndDelay(e, ~e.duplicate)

\* Variant: a duplicate is not looked at when the window is over.
FinalizeDuplicate(e) == EndDelay(e, ~StopSet)

Finalize(e) == EndDelay(e, ~e.duplicate /\ ~StopSet)

-----------------------------------------------------------------------------
(* Shutdown: wait_until_idle, then stop.                                   *)

Goes(from, to) == phase = from /\ phase' = to
IdleVars == <<queue, lag, worker, late>>

\* core_main.py has stopped the traffic monitor; join() may return at once.
RequestStop ==
    /\ Goes("running", "joining")
    /\ joined' = (queue = <<>>)
    /\ UNCHANGED <<IdleVars, overtaken, entries, pendingWait, gatePending, output>>

JoinReturns ==
    /\ Goes("joining", "polling")
    /\ joined
    /\ joined' = FALSE
    /\ UNCHANGED <<IdleVars, overtaken, entries, pendingWait, gatePending, output>>

\* Variant: only the queue counts.
IsIdleQueue == queue = <<>>

IsIdle == pendingWait <= 0 /\ ~gatePending

PollFindsIdle ==
    /\ Goes("polling", "leaving")
    /\ IsIdle
    /\ overtaken' = FALSE
    /\ UNCHANGED <<IdleVars, joined, entries, pendingWait, gatePending, output>>

\* The APRS-IS queue and the trace writer are idle too: stop().
SetStopEvent ==
    /\ Goes("leaving", "stopping")
    /\ UNCHANGED <<IdleVars, overtaken, joined, entries, pendingWait, gatePending, output>>

ClearState ==
    /\ Goes("stopping", "cleared")
    /\ entries' = {}
    /\ pendingWait' = 0
    /\ gatePending' = FALSE
    /\ UNCHANGED <<IdleVars, overtaken, joined, output>>

CancelWorker ==
    /\ Goes("cleared", "stopped")
    /\ worker' = FALSE
    /\ UNCHANGED <<queue, lag, late, overtaken, joined, entries, pendingWait, gatePending, output>>

ShutdownStep == RequestStop \/ JoinReturns \/ PollFindsIdle \/ SetStopEvent \/ ClearState \/ CancelWorker

-----------------------------------------------------------------------------
\* The process dies, or has stopped, and is started again: all of this state lives
\* in memory.
Restart ==
    /\ queue' = <<>> /\ lag' = 0 /\ entries' = {} /\ pendingWait' = 0 /\ gatePending' = FALSE
    /\ phase' = "running" /\ joined' = FALSE /\ worker' = TRUE /\ late' = 0 /\ overtaken' = FALSE
    /\ UNCHANGED output

\* No callback that is ready waits longer than MaxLag.
InTime ==
    /\ worker /\ queue # <<>> => lag < MaxLag
    /\ \A e \in entries : e.age < Window[e.flow] + MaxLag

Tick ==
    /\ InTime
    /\ lag' = IF queue = <<>> THEN 0 ELSE LeastOf(lag + 1, MaxLag)
    /\ entries' = {[e EXCEPT !.age = @ + 1] : e \in entries}
    /\ sinceOut' = [f \in Flows |-> [p \in Packets |-> LeastOf(sinceOut[f][p] + 1, Window[f])]]
    /\ UNCHANGED <<queue, pendingWait, gatePending, repeated, shutdown>>

Init ==
    /\ queue = <<>> /\ lag = 0 /\ entries = {} /\ pendingWait = 0 /\ gatePending = FALSE
    /\ phase = "running" /\ joined = FALSE /\ worker = TRUE /\ late = 0 /\ overtaken = FALSE
    /\ sinceOut = [f \in Flows |-> [p \in Packets |-> Window[f]]]
    /\ repeated = FALSE

Next ==
    \/ \E p \in Packets : HearOnRf(p) \/ ReceiveFromAprsis(p)
    \/ ProcessRf \/ ProcessAprsis \/ GateFinishes
    \/ \E e \in entries : Finalize(e)
    \/ ShutdownStep
    \/ Restart
    \/ Tick

Spec == Init /\ [][Next]_vars

\* The event loop runs what is ready, and time passes.  Nothing is assumed of the
\* frames that arrive, of the operator who stops the service or of crashes.
FairSpec ==
    /\ Spec
    /\ WF_vars(ProcessRf \/ ProcessAprsis)
    /\ WF_vars(GateFinishes)
    /\ WF_vars(\E e \in entries : Finalize(e))
    /\ WF_vars(ShutdownStep /\ phase # "running")
    /\ WF_vars(Tick)

-----------------------------------------------------------------------------
\* The queue keeps its bound, the counter of waiting frames counts them, and there
\* is one entry for a fingerprint and a flow.
TypeOK ==
    /\ queue \in Seq([from : {"rf", "aprsis"}, packet : Packets])
    /\ Len(queue) <= QueueMax
    /\ lag \in 0 .. MaxLag
    /\ \A e \in entries : /\ e.flow \in Delayed /\ e.packet \in Packets
                          /\ e.duplicate \in BOOLEAN
                          /\ e.age \in 0 .. Window[e.flow] + MaxLag
                          /\ e.heard \in {Never} \cup 0 .. e.age
    /\ gatePending \in BOOLEAN /\ joined \in BOOLEAN /\ worker \in BOOLEAN /\ overtaken \in BOOLEAN
    /\ \E i \in DOMAIN Phases : phase = Phases[i]
    /\ late \in 0 .. MaxLate
    /\ sinceOut \in [Flows -> [Packets -> Nat]]

CountsWaiting ==
    /\ pendingWait = Cardinality(Waiting)
    /\ \A d, e \in entries : d.flow = e.flow /\ d.packet = e.packet => d = e

\* Entry e ends and its packet is handed to the RF TX dispatcher.
GoesOut(e) ==
    /\ EntryOf(e.flow, e.packet)' = {}
    /\ sinceOut[e.flow][e.packet] # 0 /\ sinceOut'[e.flow][e.packet] = 0

\* A delayed frame is transmitted only if no copy of it was heard in its window;
\* a copy that comes in the last MaxLag ticks may not have been processed yet.
OnlyUnheard ==
    [][\A e \in entries : GoesOut(e) =>
         ~e.duplicate /\ (e.heard = Never \/ e.heard + MaxLag >= Window[e.flow])]_vars

\* A flow with a duplicate filter transmits a packet once per window, however
\* often it is heard, and even if the process restarts in between.
OncePerWindow == ~repeated

\* When wait_until_idle returns, no frame that was heard on RF is left behind: not
\* in the queue nor in its delay, unless a position from APRS-IS met a full queue
\* during join().
Drained ==
    [][phase = "polling" /\ phase' = "leaving" /\ ~overtaken =>
         Waiting = {} /\ \A i \in DOMAIN queue : queue[i].from = "aprsis"]_vars

\* Once stop() has begun, no delayed frame is transmitted any more.
SilentAfterStop == [][\A e \in entries : StopSet => ~GoesOut(e)]_vars

\* A shutdown ends, if APRS-IS is silent at last (MaxLate).
Stops == phase = "joining" ~> phase \in {"stopped", "running"}
=============================================================================
