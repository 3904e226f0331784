------------------------ MODULE PacketRouting_proofs ------------------------
(***************************************************************************)
(* Proofs about PacketRouting for any packets, flows, windows and bounds:  *)
(* TypeOK, CountsWaiting, OncePerWindow, OnlyUnheard, Drained and          *)
(* SilentAfterStop.                                                        *)
(***************************************************************************)
EXTENDS PacketRouting, FiniteSetTheorems, SequenceTheorems, TLAPS

-----------------------------------------------------------------------------
(* The inductive invariant in parts, by the variables they speak of.       *)

FrameSet == [from : {"rf", "aprsis"}, packet : Packets]
EntrySet == [flow : Delayed, packet : Packets, age : Nat, duplicate : BOOLEAN, heard : Int]
PhaseSet == {"running", "joining", "polling", "leaving", "stopping", "cleared", "stopped"}

QueueOK == queue \in Seq(FrameSet) /\ Len(queue) <= QueueMax

EntriesOK ==
    /\ entries \subseteq EntrySet /\ IsFiniteSet(entries)
    /\ \A e \in entries : e.age <= Window[e.flow] + MaxLag /\ e.heard \in {Never} \cup 0 .. e.age

ControlOK ==
    /\ lag \in 0 .. MaxLag /\ late \in 0 .. MaxLate /\ phase \in PhaseSet
    /\ gatePending \in BOOLEAN /\ joined \in BOOLEAN /\ worker \in BOOLEAN /\ overtaken \in BOOLEAN

\* A packet that waits in a flow has not left it since it began to wait.
OutBefore ==
    /\ sinceOut \in [Flows -> [Packets -> Nat]]
    /\ \A e \in entries : LeastOf(e.age, Window[e.flow]) <= sinceOut[e.flow][e.packet]

\* Before the stop event, a copy that the filter has not seen is in the queue, and came no
\* earlier than the worker became ready.
CopyWaits(e) ==
    /\ \E i \in DOMAIN queue : queue[i] = Frame("rf", e.packet)
    /\ e.age - e.heard <= lag

Stopping == phase \in {"stopping", "cleared", "stopped"}

CopiesWait ==
    ~Stopping => /\ worker
                 /\ \A e \in entries : ~e.duplicate /\ e.heard # Never => CopyWaits(e)

\* After join() only frames from APRS-IS are in the queue.
NoRfFrame == \A i \in DOMAIN queue : queue[i].from # "rf"

JoinDrains == phase = "polling" \/ (phase = "joining" /\ joined) => overtaken \/ NoRfFrame

IndInv ==
    /\ QueueOK /\ EntriesOK /\ ControlOK /\ CountsWaiting
    /\ OutBefore /\ OncePerWindow /\ CopiesWait /\ JoinDrains
-----------------------------------------------------------------------------
(* Lemmas about the operators of the model.                                *)

\* The shutdown is a line of phases; from "stopping" on the stop event is set.
LEMMA StopMeans == ASSUME phase \in PhaseSet PROVE StopSet <=> Stopping
BY DEF StopSet, Before, Phases, PhaseSet, Stopping

LEMMA PhaseIsOne == ASSUME phase \in PhaseSet PROVE \E i \in DOMAIN Phases : phase = Phases[i]
BY DEF Phases, PhaseSet

\* A set of numbers with a member has a least one.
LEMMA LeastIsMember == ASSUME NEW S \in SUBSET Nat, S # {} PROVE Min(S) \in S
<1>1. PICK x \in S : \A y \in S : ~ (<<y, x>> \in OpToRel(<, Nat))
  BY NatLessThanWellFounded, WFMin
<1>2. \A y \in S : ~ (y < x)
  BY <1>1 DEF OpToRel
<1>3. \A y \in S : x <= y
  BY <1>2
<1> QED BY <1>3 DEF Min

\* The indices of the queue.
LEMMA QueueIndices ==
    ASSUME QueueOK
    PROVE  /\ Len(queue) \in Nat /\ DOMAIN queue = 1 .. Len(queue)
           /\ \A i \in 1 .. Len(queue) : queue[i] \in FrameSet
           /\ queue # <<>> => Len(queue) > 0 /\ Head(queue) = queue[1]
BY LenProperties, ElementOfSeq, EmptySeq DEF QueueOK

\* The worker takes the first frame; the others move up.
LEMMA FrameTaken ==
    ASSUME QueueOK, queue # <<>>, queue' = Tail(queue)
    PROVE  /\ QueueOK' /\ Head(queue) \in FrameSet
           /\ \A i \in DOMAIN queue' : i + 1 \in DOMAIN queue /\ queue'[i] = queue[i + 1]
           /\ \A i \in DOMAIN queue : i # 1 => \E j \in DOMAIN queue' : queue'[j] = queue[i]
           /\ Len(queue) = 1 => DOMAIN queue' = {}
<1>1. queue \in Seq(FrameSet) /\ Len(queue) <= QueueMax /\ Len(queue) \in Nat
  BY QueueIndices DEF QueueOK
<1>2. /\ queue' \in Seq(FrameSet) /\ Len(queue') = Len(queue) - 1 /\ Head(queue) \in FrameSet
      /\ \A i \in 1 .. Len(queue') : queue'[i] = queue[i + 1]
  BY <1>1, HeadTailProperties
<1>3. DOMAIN queue' = 1 .. Len(queue') /\ DOMAIN queue = 1 .. Len(queue) /\ Len(queue') \in Nat
  BY <1>1, <1>2, LenProperties
<1>4. QueueOK'
  BY <1>1, <1>2, <1>3, RoutingAssumption DEF QueueOK
<1>5. ASSUME NEW i \in DOMAIN queue, i # 1 PROVE \E j \in DOMAIN queue' : queue'[j] = queue[i]
  <2>1. i - 1 \in 1 .. Len(queue') /\ (i - 1) + 1 = i
    BY <1>1, <1>2, <1>3, <1>5
  <2> QED BY <2>1, <1>2, <1>3
<1> QED BY <1>1, <1>2, <1>3, <1>4, <1>5

\* A frame that is put behind the queue.
LEMMA FrameAppended ==
    ASSUME QueueOK, ~IsFull, NEW frame \in FrameSet, queue' = Append(queue, frame)
    PROVE  /\ QueueOK'
           /\ \A i \in DOMAIN queue' : queue'[i] = frame \/ (i \in DOMAIN queue /\ queue'[i] = queue[i])
           /\ \A i \in DOMAIN queue : i \in DOMAIN queue' /\ queue'[i] = queue[i]
           /\ \E i \in DOMAIN queue' : queue'[i] = frame
<1>1. queue \in Seq(FrameSet) /\ Len(queue) <= QueueMax /\ Len(queue) \in Nat /\ Len(queue) # QueueMax
  BY QueueIndices DEF QueueOK, IsFull
<1>2. /\ queue' \in Seq(FrameSet) /\ Len(queue') = Len(queue) + 1
      /\ \A i \in 1 .. Len(queue) : queue'[i] = queue[i]
      /\ queue'[Len(queue) + 1] = frame
  BY <1>1, AppendProperties
<1>3. DOMAIN queue' = 1 .. Len(queue) + 1 /\ DOMAIN queue = 1 .. Len(queue)
  BY <1>1, <1>2, LenProperties
<1>4. QueueOK'
  BY <1>1, <1>2, RoutingAssumption DEF QueueOK
<1>5. \A i \in DOMAIN queue' : i = Len(queue) + 1 \/ i \in DOMAIN queue
  BY <1>1, <1>3
<1> QED BY <1>1, <1>2, <1>3, <1>4, <1>5

\* A frame that takes the place of another one of its station.
LEMMA FramePlaced ==
    ASSUME QueueOK, NEW frame \in FrameSet, Older(frame) # {},
           queue' = [queue EXCEPT ![Min(Older(frame))] = frame]
    PROVE  LET m == Min(Older(frame)) IN
           /\ QueueOK'
           /\ m \in DOMAIN queue /\ queue[m].from = frame.from /\ queue[m].packet \in Packets
           /\ DOMAIN queue' = DOMAIN queue /\ queue'[m] = frame
           /\ \A i \in DOMAIN queue : i # m => queue'[i] = queue[i]
<1> DEFINE m == Min(Older(frame))
<1>1. /\ Len(queue) \in Nat /\ DOMAIN queue = 1 .. Len(queue)
      /\ \A i \in DOMAIN queue : queue[i] \in FrameSet
  BY QueueIndices
<1>2. Older(frame) \in SUBSET Nat
  BY <1>1 DEF Older
<1>3. m \in Older(frame)
  BY <1>2, LeastIsMember
<1> HIDE DEF m
<1>4. m \in DOMAIN queue /\ queue[m].from = frame.from /\ queue[m].packet \in Packets
  BY <1>1, <1>3 DEF Older, SameStation, IsPosition, FrameSet
<1>5. queue' = [queue EXCEPT ![m] = frame]
  BY DEF m
<1>6. queue' \in Seq(FrameSet) /\ Len(queue') = Len(queue)
  <2>1. queue \in Seq(FrameSet) /\ m \in 1 .. Len(queue)
    BY <1>1, <1>4 DEF QueueOK
  <2> DEFINE r == [queue EXCEPT ![m] = frame]
  <2>2. r \in Seq(FrameSet) /\ Len(r) = Len(queue)
    BY <2>1, ExceptSeq
  <2> HIDE DEF r
  <2>3. queue' = r
    BY <1>5 DEF r
  <2> QED BY <2>2, <2>3
<1>7. /\ DOMAIN queue' = DOMAIN queue /\ queue'[m] = frame
      /\ \A i \in DOMAIN queue : i # m => queue'[i] = queue[i]
  BY <1>1, <1>4, <1>5
<1>8. QueueOK'
  BY <1>6 DEF QueueOK
<1> QED BY <1>4, <1>7, <1>8 DEF m
-----------------------------------------------------------------------------
(* The entries of the duplicate filter.                                    *)

\* A change of the entries that leaves flow, packet and mark of each alone does not change
\* how many wait.
LEMMA EntriesRewritten ==
    ASSUME EntriesOK, CountsWaiting, UNCHANGED pendingWait,
           NEW g, entries' = {g[e] : e \in entries},
           \A e \in entries : /\ g[e].flow = e.flow /\ g[e].packet = e.packet
                              /\ g[e].duplicate = e.duplicate
    PROVE  IsFiniteSet(entries') /\ CountsWaiting'
<1>1. \A d, e \in entries : g[d] = g[e] => d = e
  BY DEF CountsWaiting
<1>2. IsFiniteSet(entries')
  <2> DEFINE h == [e \in entries |-> g[e]]
  <2>1. h \in Surjection(entries, entries')
    BY DEF Surjection
  <2> QED BY <2>1, FS_Surjection DEF EntriesOK
<1>3. Waiting' = {g[e] : e \in Waiting}
  BY DEF Waiting
<1>4. Cardinality(Waiting') = Cardinality(Waiting)
  <2> DEFINE h == [e \in Waiting |-> g[e]]
  <2>1. IsFiniteSet(Waiting)
    BY FS_Subset DEF EntriesOK, Waiting
  <2>2. h \in Bijection(Waiting, Waiting')
    <3>1. h \in [Waiting -> Waiting'] /\ \A t \in Waiting' : \E e \in Waiting : h[e] = t
      BY <1>3
    <3>2. \A d, e \in Waiting : h[d] = h[e] => d = e
      BY <1>1 DEF Waiting
    <3> HIDE DEF h
    <3> QED BY <3>1, <3>2 DEF Bijection, Injection, Surjection, IsInjective
  <2>3. ExistsBijection(Waiting, Waiting')
    BY <2>2 DEF ExistsBijection
  <2> QED BY <2>1, <2>3, FS_Bijection
<1>5. \A d, e \in entries' : d.flow = e.flow /\ d.packet = e.packet => d = e
  BY DEF CountsWaiting
<1> QED BY <1>2, <1>4, <1>5 DEF CountsWaiting

\* What a frame that comes, and the one it replaces, change in the history of the entries.
LEMMA NotedEffect ==
    ASSUME EntriesOK, CountsWaiting, UNCHANGED pendingWait,
           NEW frame, NEW lost, entries' = Noted(frame, lost)
    PROVE  /\ IsFiniteSet(entries') /\ CountsWaiting'
           /\ \A d \in entries' : \E e \in entries :
                /\ d \in EntrySet
                /\ d.flow = e.flow /\ d.packet = e.packet /\ d.age = e.age /\ d.duplicate = e.duplicate
                /\ \/ d.heard = e.heard /\ (frame.from = "rf" /\ ~d.duplicate /\ d.heard # Never =>
                                              d.packet = frame.packet \/ d.packet \notin lost)
                   \/ d.heard = Never
                   \/ frame.from = "rf" /\ d.packet = frame.packet /\ d.heard = d.age
<1> DEFINE N(e) == IF frame.from # "rf" \/ e.duplicate \/ e.packet \notin {frame.packet} \cup lost THEN e
                   ELSE IF e.packet # frame.packet THEN [e EXCEPT !.heard = Never]
                   ELSE [e EXCEPT !.heard = IF @ = Never \/ e.packet \in lost THEN e.age ELSE @]
           g == [e \in entries |-> N(e)]
<1>1. entries' = {g[e] : e \in entries}
  BY DEF Noted
<1>2. ASSUME NEW e \in entries
      PROVE  LET d == g[e] IN
             /\ d \in EntrySet
             /\ d.flow = e.flow /\ d.packet = e.packet /\ d.age = e.age /\ d.duplicate = e.duplicate
             /\ \/ d.heard = e.heard /\ (frame.from = "rf" /\ ~d.duplicate /\ d.heard # Never =>
                                           d.packet = frame.packet \/ d.packet \notin lost)
                \/ d.heard = Never
                \/ frame.from = "rf" /\ d.packet = frame.packet /\ d.heard = d.age
  <2>1. e \in EntrySet
    BY DEF EntriesOK
  <2>2. CASE frame.from # "rf" \/ e.duplicate \/ e.packet \notin {frame.packet} \cup lost
    BY <2>1, <2>2
  <2>3. CASE ~ (frame.from # "rf" \/ e.duplicate \/ e.packet \notin {frame.packet} \cup lost)
             /\ e.packet # frame.packet
    BY <2>1, <2>3 DEF EntrySet, Never
  <2>4. CASE ~ (frame.from # "rf" \/ e.duplicate \/ e.packet \notin {frame.packet} \cup lost)
             /\ e.packet = frame.packet
    BY <2>1, <2>4 DEF EntrySet, Never
  <2> QED BY <2>2, <2>3, <2>4
<1> HIDE DEF g
<1>3. IsFiniteSet(entries') /\ CountsWaiting'
  BY <1>1, <1>2, EntriesRewritten
<1> QED BY <1>1, <1>2, <1>3
-----------------------------------------------------------------------------
(* A frame arrives.                                                        *)

\* The queue and the history of the entries after a frame has come; an RF frame only while
\* the station runs.
LEMMA EnqueuePreserves ==
    ASSUME IndInv, NEW frame \in FrameSet, Enqueue(frame),
           frame.from = "rf" => phase = "running",
           UNCHANGED <<lag, pendingWait, sinceOut, repeated, phase, worker>>
    PROVE  QueueOK' /\ EntriesOK' /\ CountsWaiting' /\ OutBefore' /\ CopiesWait' /\ JoinDrains'
<1>1. CASE DropOnFull(frame)
  BY <1>1 DEF DropOnFull, LookThrough, IndInv, QueueOK, EntriesOK, CountsWaiting, Waiting, OutBefore, CopiesWait,
              CopyWaits, Stopping, JoinDrains, NoRfFrame
<1>2. ASSUME NEW lost, entries' = Noted(frame, lost), QueueOK',
             \A i \in DOMAIN queue : \/ \E j \in DOMAIN queue' : queue'[j] = queue[i]
                                     \/ queue[i].from = frame.from /\ queue[i].packet \in lost,
             \E j \in DOMAIN queue' : queue'[j] = frame,
             \A j \in DOMAIN queue' : \/ queue'[j] = frame
                                      \/ \E i \in DOMAIN queue : queue'[j] = queue[i],
             (joined' /\ phase = "joining" => joined \/ overtaken') /\ (overtaken => overtaken')
      PROVE  QueueOK' /\ EntriesOK' /\ CountsWaiting' /\ OutBefore' /\ CopiesWait' /\ JoinDrains'
  <2>1. /\ IsFiniteSet(entries') /\ CountsWaiting'
        /\ \A d \in entries' : \E e \in entries :
             /\ d \in EntrySet
             /\ d.flow = e.flow /\ d.packet = e.packet /\ d.age = e.age /\ d.duplicate = e.duplicate
             /\ \/ d.heard = e.heard /\ (frame.from = "rf" /\ ~d.duplicate /\ d.heard # Never =>
                                           d.packet = frame.packet \/ d.packet \notin lost)
                \/ d.heard = Never
                \/ frame.from = "rf" /\ d.packet = frame.packet /\ d.heard = d.age
    BY <1>2, NotedEffect DEF IndInv
  <2>2. EntriesOK'
    <3>1. \A d \in entries' : d \in EntrySet
      BY <2>1
    <3>2. ASSUME NEW d \in entries'
          PROVE  d.age <= Window[d.flow] + MaxLag /\ d.heard \in {Never} \cup 0 .. d.age
      <4>1. d.age \in Nat
        BY <3>1 DEF EntrySet
      <4>2. d.age \in 0 .. d.age
        BY <4>1
      <4> QED BY <2>1, <4>2 DEF IndInv, EntriesOK
    <3> QED BY <2>1, <3>1, <3>2 DEF EntriesOK
  <2>3. OutBefore'
    BY <2>1 DEF IndInv, OutBefore
  <2>4. CopiesWait'
    <3> SUFFICES ASSUME ~Stopping
                 PROVE  worker /\ \A d \in entries' : ~d.duplicate /\ d.heard # Never => CopyWaits(d)'
      BY DEF CopiesWait, Stopping
    <3>1. worker /\ \A e \in entries : ~e.duplicate /\ e.heard # Never => CopyWaits(e)
      BY DEF IndInv, CopiesWait
    <3>2. ASSUME NEW d \in entries', ~d.duplicate, d.heard # Never PROVE CopyWaits(d)'
      <4>1. PICK e \in entries :
               /\ d \in EntrySet
               /\ d.flow = e.flow /\ d.packet = e.packet /\ d.age = e.age /\ d.duplicate = e.duplicate
               /\ \/ d.heard = e.heard /\ (frame.from = "rf" => d.packet = frame.packet \/ d.packet \notin lost)
                  \/ frame.from = "rf" /\ d.packet = frame.packet /\ d.heard = d.age
        BY <2>1, <3>2
      <4>2. frame.from = "rf" /\ d.packet = frame.packet => frame = Frame("rf", d.packet)
        BY DEF FrameSet, Frame
      <4>3. CASE d.heard = e.heard
        <5>1. CopyWaits(e)
          BY <3>1, <3>2, <4>1, <4>3
        <5>2. PICK i \in DOMAIN queue : queue[i] = Frame("rf", e.packet)
          BY <5>1 DEF CopyWaits
        <5>3. queue[i].from = "rf" /\ queue[i].packet = d.packet
          BY <5>2, <4>1 DEF Frame
        <5>4. \/ \E j \in DOMAIN queue' : queue'[j] = Frame("rf", d.packet)
              \/ frame.from = "rf" /\ d.packet \in lost
          BY <1>2, <4>1, <5>2, <5>3
        <5>5. \E j \in DOMAIN queue' : queue'[j] = Frame("rf", d.packet)
          <6>1. CASE frame.from = "rf" /\ d.packet = frame.packet
            BY <1>2, <4>2, <6>1
          <6>2. CASE ~ (frame.from = "rf" /\ d.packet = frame.packet)
            <7>1. frame.from = "rf" => d.packet \notin lost
              BY <2>1, <3>2, <4>1, <6>2, <5>4, <4>3 DEF EntrySet
            <7> QED BY <5>4, <7>1
          <6> QED BY <6>1, <6>2
        <5>6. d.age - d.heard <= lag
          BY <5>1, <4>1, <4>3 DEF CopyWaits
        <5> QED BY <5>5, <5>6 DEF CopyWaits
      <4>4. CASE frame.from = "rf" /\ d.packet = frame.packet /\ d.heard = d.age
        <5>1. d.age \in Nat /\ lag \in Nat
          BY <4>1 DEF EntrySet, IndInv, ControlOK
        <5>2. d.age - d.heard <= lag
          BY <4>4, <5>1
        <5> QED BY <1>2, <4>2, <4>4, <5>2 DEF CopyWaits
      <4> QED BY <4>1, <4>3, <4>4
    <3> QED BY <3>1, <3>2
  <2>5. JoinDrains'
    <3> SUFFICES ASSUME phase = "polling" \/ (phase = "joining" /\ joined'), ~overtaken'
                 PROVE  NoRfFrame'
      BY DEF JoinDrains
    <3>1. frame.from # "rf"
      OBVIOUS
    <3>2. NoRfFrame
      BY <1>2 DEF IndInv, JoinDrains
    <3> QED BY <1>2, <3>1, <3>2 DEF NoRfFrame
  <2> QED BY <1>2, <2>1, <2>2, <2>3, <2>4, <2>5
<1>3. CASE Append1(frame)
  <2>1. /\ QueueOK'
        /\ \A i \in DOMAIN queue' : queue'[i] = frame \/ (i \in DOMAIN queue /\ queue'[i] = queue[i])
        /\ \A i \in DOMAIN queue : i \in DOMAIN queue' /\ queue'[i] = queue[i]
        /\ \E i \in DOMAIN queue' : queue'[i] = frame
    BY <1>3, FrameAppended DEF Append1, IndInv
  <2>2. entries' = Noted(frame, {}) /\ joined' = joined /\ overtaken' = overtaken
    BY <1>3 DEF Append1
  <2> QED BY <1>2, <2>1, <2>2
<1>4. CASE Supersede(frame)
  <2> DEFINE m == Min(Older(frame))
  <2>1. /\ QueueOK'
        /\ m \in DOMAIN queue /\ queue[m].from = frame.from /\ queue[m].packet \in Packets
        /\ DOMAIN queue' = DOMAIN queue /\ queue'[m] = frame
        /\ \A i \in DOMAIN queue : i # m => queue'[i] = queue[i]
    BY <1>4, FramePlaced DEF Supersede, IndInv
  <2>2. entries' = Noted(frame, {queue[m].packet})
    BY <1>4 DEF Supersede
  <2>3. (joined' /\ phase = "joining" => joined \/ overtaken') /\ (overtaken => overtaken')
    BY <1>4 DEF Supersede, LookThrough
  <2> HIDE DEF m
  <2>4. \A i \in DOMAIN queue : \/ \E j \in DOMAIN queue' : queue'[j] = queue[i]
                                \/ queue[i].from = frame.from /\ queue[i].packet \in {queue[m].packet}
    BY <2>1
  <2> QED BY <1>2, <2>1, <2>2, <2>3, <2>4
<1> QED BY <1>1, <1>3, <1>4 DEF Enqueue

LEMMA ArrivalPreserves ==
    ASSUME IndInv, NEW p \in Packets, HearOnRf(p) \/ ReceiveFromAprsis(p)
    PROVE  IndInv'
<1> DEFINE frame == IF HearOnRf(p) THEN Frame("rf", p) ELSE Frame("aprsis", p)
<1>1. frame \in FrameSet /\ Enqueue(frame) /\ (frame.from = "rf" => phase = "running")
  BY DEF HearOnRf, ReceiveFromAprsis, Frame, FrameSet
<1>2. UNCHANGED <<lag, pendingWait, sinceOut, repeated, phase, worker, gatePending>>
  BY DEF HearOnRf, ReceiveFromAprsis, output
<1> HIDE DEF frame
<1>3. late' \in 0 .. MaxLate
  BY RoutingAssumption DEF HearOnRf, ReceiveFromAprsis, IndInv, ControlOK
<1>4. joined' \in BOOLEAN /\ overtaken' \in BOOLEAN
  BY <1>1 DEF Enqueue, Append1, Supersede, DropOnFull, LookThrough, IndInv, ControlOK
<1>5. ControlOK'
  BY <1>2, <1>3, <1>4 DEF IndInv, ControlOK
<1>6. OncePerWindow'
  BY <1>2 DEF IndInv, OncePerWindow
<1> QED BY <1>1, <1>2, <1>5, <1>6, EnqueuePreserves DEF IndInv
-----------------------------------------------------------------------------
(* The worker takes a frame.                                               *)

LEMMA TakeEffect ==
    ASSUME IndInv, Take
    PROVE  /\ QueueOK' /\ Head(queue) \in FrameSet /\ JoinDrains'
           /\ lag' \in 0 .. MaxLag /\ worker' \in BOOLEAN /\ joined' \in BOOLEAN
           /\ UNCHANGED <<phase, late, overtaken>>
           /\ ~Stopping => worker'
           /\ \A e : CopyWaits(e) /\ Head(queue) # Frame("rf", e.packet) => CopyWaits(e)'
           /\ \A i \in 2 .. Len(queue) : \E j \in DOMAIN queue' : queue'[j] = queue[i]
<1>1. queue # <<>> /\ queue' = Tail(queue) /\ UNCHANGED <<phase, late, overtaken>>
  BY DEF Take
<1>2. /\ QueueOK' /\ Head(queue) \in FrameSet
      /\ \A i \in DOMAIN queue' : i + 1 \in DOMAIN queue /\ queue'[i] = queue[i + 1]
      /\ \A i \in DOMAIN queue : i # 1 => \E j \in DOMAIN queue' : queue'[j] = queue[i]
      /\ Len(queue) = 1 => DOMAIN queue' = {}
  BY <1>1, FrameTaken DEF IndInv
<1>3. /\ Len(queue) \in Nat /\ DOMAIN queue = 1 .. Len(queue) /\ Head(queue) = queue[1]
  BY <1>1, QueueIndices DEF IndInv
<1>4. lag' \in 0 .. MaxLag /\ (Len(queue) # 1 => lag' = lag)
  BY RoutingAssumption DEF Take, IndInv, ControlOK
<1>5. worker' = ~Stopping
  BY StopMeans DEF Take, IndInv, ControlOK
<1>6. worker' \in BOOLEAN /\ joined' \in BOOLEAN
  BY <1>5 DEF Take
<1>7. ASSUME NEW e, CopyWaits(e), Head(queue) # Frame("rf", e.packet) PROVE CopyWaits(e)'
  <2>1. PICK i \in DOMAIN queue : queue[i] = Frame("rf", e.packet)
    BY <1>7 DEF CopyWaits
  <2>2. i # 1 /\ Len(queue) # 1
    BY <2>1, <1>3, <1>7
  <2>3. lag' = lag /\ \E j \in DOMAIN queue' : queue'[j] = Frame("rf", e.packet)
    BY <2>1, <2>2, <1>2, <1>4
  <2> QED BY <2>3, <1>7 DEF CopyWaits
<1>8. JoinDrains'
  <2>1. NoRfFrame => NoRfFrame'
    BY <1>2 DEF NoRfFrame
  <2>2. Len(queue) = 1 => NoRfFrame'
    BY <1>2 DEF NoRfFrame
  <2>3. joined' /\ phase = "joining" => joined \/ Len(queue) = 1
    BY DEF Take
  <2> QED BY <2>1, <2>2, <2>3, <1>1 DEF JoinDrains, IndInv
<1>9. \A i \in 2 .. Len(queue) : \E j \in DOMAIN queue' : queue'[j] = queue[i]
  BY <1>2, <1>3
<1> QED BY <1>1, <1>2, <1>4, <1>5, <1>6, <1>7, <1>8, <1>9

LEMMA AprsisPreserves == ASSUME IndInv, ProcessAprsis PROVE IndInv'
<1>1. Take /\ UNCHANGED <<entries, pendingWait, sinceOut, repeated>> /\ gatePending' \in BOOLEAN
  BY DEF ProcessAprsis, output, IndInv, ControlOK
<1>2. \A x : Head(queue) # Frame("rf", x)
  BY DEF ProcessAprsis, Frame
<1>3. ControlOK'
  BY <1>1, TakeEffect DEF IndInv, ControlOK
<1>4. EntriesOK' /\ CountsWaiting' /\ OutBefore' /\ OncePerWindow'
  BY <1>1 DEF IndInv, EntriesOK, CountsWaiting, Waiting, OutBefore, OncePerWindow
<1>5. CopiesWait'
  BY <1>1, <1>2, TakeEffect DEF IndInv, CopiesWait, Stopping
<1> QED BY <1>1, <1>3, <1>4, <1>5, TakeEffect DEF IndInv

\* The filter marks the entries of the packet and adds one for each flow without.
LEMMA FilterEffect ==
    ASSUME IndInv, NEW p \in Packets, FilterDuplicates(p)
    PROVE  /\ EntriesOK' /\ CountsWaiting'
           /\ \A d \in entries' :
                \/ /\ d.flow \in Delayed /\ d.packet = p /\ d.age = 0
                   /\ d.heard # Never => CopyBehind(p) /\ d.heard = 0
                \/ \E e \in entries : /\ d.flow = e.flow /\ d.packet = e.packet /\ d.age = e.age
                                      /\ ~d.duplicate => d = e /\ e.packet # p
<1> DEFINE new == {f \in Delayed : EntryOf(f, p) = {}}
           N == {NewEntry(f, p) : f \in new}
           M(e) == IF e.packet = p /\ ~e.duplicate
                   THEN [e EXCEPT !.duplicate = TRUE, !.heard = Never] ELSE e
           g == [e \in entries |-> M(e)]
           freed == {e \in Waiting : e.packet = p}
<1>1. /\ entries' = {g[e] : e \in entries} \cup N
      /\ pendingWait' = pendingWait + Cardinality(new) - Cardinality(freed)
  BY DEF FilterDuplicates, MarkOrCreate
<1>2. ASSUME NEW e \in entries
      PROVE  /\ g[e] \in EntrySet /\ g[e].flow = e.flow /\ g[e].packet = e.packet /\ g[e].age = e.age
             /\ g[e].heard \in {Never, e.heard}
             /\ ~g[e].duplicate => g[e] = e /\ e.packet # p
             /\ ~e.duplicate /\ e.packet # p => g[e] = e
  <2>1. e \in EntrySet
    BY DEF IndInv, EntriesOK
  <2>2. CASE e.packet = p /\ ~e.duplicate
    <3>1. g[e] = [e EXCEPT !.duplicate = TRUE, !.heard = Never]
      BY <2>2
    <3>2. g[e] \in EntrySet
      <4>1. e.flow \in Delayed /\ e.packet \in Packets /\ e.age \in Nat /\ Never \in Int
        BY <2>1 DEF EntrySet, Never
      <4>2. g[e] = [flow |-> e.flow, packet |-> e.packet, age |-> e.age,
                    duplicate |-> TRUE, heard |-> Never]
        BY <2>1, <3>1 DEF EntrySet
      <4> HIDE DEF g, M, N, new, freed
      <4>3. [flow |-> e.flow, packet |-> e.packet, age |-> e.age,
             duplicate |-> TRUE, heard |-> Never] \in EntrySet
        BY <4>1 DEF EntrySet
      <4> QED BY <4>2, <4>3
    <3>3. /\ g[e].flow = e.flow /\ g[e].packet = e.packet /\ g[e].age = e.age
          /\ g[e].heard = Never /\ g[e].duplicate = TRUE
      BY <2>1, <3>1 DEF EntrySet
    <3> QED BY <2>2, <3>2, <3>3
  <2>3. CASE ~ (e.packet = p /\ ~e.duplicate)
    <3>1. g[e] = e
      BY <2>3
    <3> QED BY <2>1, <2>3, <3>1
  <2> QED BY <2>2, <2>3
<1>3. ASSUME NEW f \in new
      PROVE  /\ NewEntry(f, p) \in EntrySet
             /\ NewEntry(f, p).flow = f /\ NewEntry(f, p).packet = p /\ NewEntry(f, p).age = 0
             /\ ~ NewEntry(f, p).duplicate /\ NewEntry(f, p).heard \in {Never, 0}
             /\ NewEntry(f, p).heard # Never => CopyBehind(p)
             /\ \A e \in entries : e.flow = f => e.packet # p
  BY DEF NewEntry, EntrySet, Never, EntryOf
<1> HIDE DEF g
<1>4. IsFiniteSet(new) /\ IsFiniteSet(N) /\ Cardinality(N) = Cardinality(new)
  <2> DEFINE h == [f \in new |-> NewEntry(f, p)]
  <2>1. IsFiniteSet(new)
    BY RoutingAssumption, FS_Subset DEF Delayed
  <2>2. h \in [new -> N] /\ (\A t \in N : \E f \in new : h[f] = t) /\ \A c, f \in new : h[c] = h[f] => c = f
    BY <1>3
  <2> HIDE DEF h, new, N
  <2>3. h \in Bijection(new, N)
    BY <2>2 DEF Bijection, Injection, Surjection, IsInjective
  <2>4. ExistsBijection(new, N)
    BY <2>3 DEF ExistsBijection
  <2> QED BY <2>1, <2>4, FS_Bijection
<1>5. IsFiniteSet(entries')
  <2> DEFINE G == {g[e] : e \in entries}
             h == [e \in entries |-> g[e]]
  <2>1. h \in Surjection(entries, G)
    BY DEF Surjection
  <2>2. IsFiniteSet(G)
    BY <2>1, FS_Surjection DEF IndInv, EntriesOK
  <2> HIDE DEF G, N
  <2>3. entries' = G \cup N
    BY <1>1 DEF G
  <2> QED BY <1>4, <2>2, <2>3, FS_Union
<1>6. \A c, d \in entries' : c.flow = d.flow /\ c.packet = d.packet => c = d
  <2> SUFFICES ASSUME NEW c \in entries', NEW d \in entries', c.flow = d.flow, c.packet = d.packet
               PROVE  c = d
    OBVIOUS
  <2>1. CASE c \in N /\ d \in N
    BY <2>1, <1>3
  <2>2. CASE c \in N /\ d \notin N
    BY <2>2, <1>1, <1>2, <1>3
  <2>3. CASE c \notin N /\ d \in N
    BY <2>3, <1>1, <1>2, <1>3
  <2>4. CASE c \notin N /\ d \notin N
    <3>1. PICK x \in entries, y \in entries : c = g[x] /\ d = g[y]
      BY <2>4, <1>1
    <3>2. x = y
      BY <3>1, <1>2 DEF IndInv, CountsWaiting
    <3> QED BY <3>1, <3>2
  <2> QED BY <2>1, <2>2, <2>3, <2>4
<1>7. pendingWait' = Cardinality(Waiting')
  <2>1. IsFiniteSet(Waiting) /\ pendingWait = Cardinality(Waiting) /\ Cardinality(Waiting) \in Nat
    BY FS_Subset, FS_CardinalityType DEF IndInv, EntriesOK, CountsWaiting, Waiting
  <2>2. Waiting \cap freed = freed /\ freed \in SUBSET Waiting
    OBVIOUS
  <2>3. Waiting' = (Waiting \ freed) \cup N
    <3>1. ASSUME NEW d \in Waiting' PROVE d \in (Waiting \ freed) \cup N
      BY <1>1, <1>2 DEF Waiting
    <3>2. ASSUME NEW d \in Waiting \ freed PROVE d \in Waiting'
      <4>1. d \in entries /\ ~d.duplicate /\ d.packet # p
        BY DEF Waiting
      <4> QED BY <4>1, <1>1, <1>2 DEF Waiting
    <3>3. ASSUME NEW d \in N PROVE d \in Waiting'
      BY <1>1, <1>3 DEF Waiting
    <3> QED BY <3>1, <3>2, <3>3
  <2>4. (Waiting \ freed) \cap N = {}
    BY <1>3 DEF Waiting
  <2> HIDE DEF freed, N, new
  <2>5. IsFiniteSet(Waiting \ freed) /\ Cardinality(Waiting \ freed) = Cardinality(Waiting) - Cardinality(freed)
    BY <2>1, <2>2, FS_Difference
  <2>6. Cardinality(Waiting') = Cardinality(Waiting \ freed) + Cardinality(N) - 0
    BY <1>4, <2>3, <2>4, <2>5, FS_Union, FS_EmptySet
  <2>7. Cardinality(freed) \in Nat /\ Cardinality(new) \in Nat
    BY <2>1, <2>2, <1>4, FS_Subset, FS_CardinalityType
  <2> QED BY <1>1, <1>4, <2>1, <2>5, <2>6, <2>7
<1>8. EntriesOK'
  <2>1. ASSUME NEW d \in entries'
        PROVE  d \in EntrySet /\ d.age <= Window[d.flow] + MaxLag /\ d.heard \in {Never} \cup 0 .. d.age
    <3>1. CASE d \in N
      <4>1. d \in EntrySet /\ d.age = 0 /\ d.heard \in {Never, 0} /\ d.flow \in Flows
        BY <3>1, <1>3 DEF Delayed
      <4>2. Window[d.flow] \in Nat /\ MaxLag \in Nat
        BY <4>1, RoutingAssumption
      <4> QED BY <4>1, <4>2
    <3>2. CASE d \notin N
      BY <3>2, <1>1, <1>2 DEF IndInv, EntriesOK
    <3> QED BY <3>1, <3>2
  <2> QED BY <2>1, <1>5 DEF EntriesOK
<1>9. ASSUME NEW d \in entries'
      PROVE  \/ /\ d.flow \in Delayed /\ d.packet = p /\ d.age = 0
                /\ d.heard # Never => CopyBehind(p) /\ d.heard = 0
             \/ \E e \in entries : /\ d.flow = e.flow /\ d.packet = e.packet /\ d.age = e.age
                                   /\ ~d.duplicate => d = e /\ e.packet # p
  BY <1>1, <1>2, <1>3
<1> QED BY <1>6, <1>7, <1>8, <1>9 DEF CountsWaiting
\* A packet leaves some of the flows given; the history of the others is left alone.
LEMMA RunFlowsEffect ==
    ASSUME IndInv, NEW p \in Packets, NEW flows \in SUBSET Flows, RunFlows(p, flows)
    PROVE  /\ sinceOut' \in [Flows -> [Packets -> Nat]]
           /\ \A f \in Flows : \A q \in Packets :
                (f \notin flows \/ q # p) => sinceOut'[f][q] = sinceOut[f][q]
           /\ (\A f \in flows : sinceOut[f][p] >= Window[f]) => ~repeated'
<1>1. PICK out \in SUBSET flows :
         /\ sinceOut' = [f \in Flows |-> [q \in Packets |->
                           IF q = p /\ f \in out THEN 0 ELSE sinceOut[f][q]]]
         /\ repeated' = (repeated \/ \E f \in out : sinceOut[f][p] < Window[f])
  BY DEF RunFlows
<1>2. sinceOut \in [Flows -> [Packets -> Nat]]
  BY DEF IndInv, OutBefore
<1>3. sinceOut' \in [Flows -> [Packets -> Nat]]
  BY <1>1, <1>2
<1>4. \A f \in Flows : \A q \in Packets :
        (f \notin flows \/ q # p) => sinceOut'[f][q] = sinceOut[f][q]
  BY <1>1, <1>2
<1>5. ASSUME \A f \in flows : sinceOut[f][p] >= Window[f] PROVE ~repeated'
  <2>1. ASSUME NEW f \in out PROVE ~ (sinceOut[f][p] < Window[f])
    <3>1. f \in Flows /\ sinceOut[f][p] \in Nat /\ Window[f] \in Nat
      BY <1>1, <1>2, RoutingAssumption
    <3> QED BY <3>1, <1>5
  <2> QED BY <2>1, <1>1 DEF IndInv, OncePerWindow
<1> QED BY <1>3, <1>4, <1>5

LEMMA RfPreserves == ASSUME IndInv, ProcessRf PROVE IndInv'
<1> DEFINE p == Head(queue).packet
<1>1. Take /\ FilterDuplicates(p) /\ RunFlows(p, Flows \ Delayed) /\ gatePending' = gatePending
  BY DEF ProcessRf
<1>2. p \in Packets /\ queue # <<>>
  BY <1>1, TakeEffect DEF FrameSet, Take
<1> HIDE DEF p
<1>3. ControlOK'
  BY <1>1, TakeEffect DEF IndInv, ControlOK
<1>4. /\ EntriesOK' /\ CountsWaiting'
      /\ \A d \in entries' :
           \/ /\ d.flow \in Delayed /\ d.packet = p /\ d.age = 0
              /\ d.heard # Never => CopyBehind(p) /\ d.heard = 0
           \/ \E e \in entries : /\ d.flow = e.flow /\ d.packet = e.packet /\ d.age = e.age
                                 /\ ~d.duplicate => d = e /\ e.packet # p
  BY <1>1, <1>2, FilterEffect
<1>5. /\ sinceOut' \in [Flows -> [Packets -> Nat]]
      /\ \A f \in Delayed : \A q \in Packets : sinceOut'[f][q] = sinceOut[f][q]
      /\ ~repeated'
  <2>1. \A f \in Flows \ Delayed : sinceOut[f][p] >= Window[f]
    <3> SUFFICES ASSUME NEW f \in Flows \ Delayed PROVE sinceOut[f][p] >= Window[f]
      OBVIOUS
    <3>1. Window[f] \in Nat /\ ~ (Window[f] > 0) /\ sinceOut[f][p] \in Nat
      BY <1>2, RoutingAssumption DEF Delayed, IndInv, OutBefore
    <3> QED BY <3>1
  <2> QED BY <2>1, <1>1, <1>2, RunFlowsEffect DEF Delayed
<1>6. OutBefore'
  <2> SUFFICES ASSUME NEW d \in entries'
               PROVE  LeastOf(d.age, Window[d.flow]) <= sinceOut'[d.flow][d.packet]
    BY <1>5 DEF OutBefore
  <2>1. d.flow \in Delayed /\ d.flow \in Flows /\ d.packet \in Packets
    BY <1>4 DEF EntriesOK, EntrySet, Delayed
  <2>2. sinceOut'[d.flow][d.packet] = sinceOut[d.flow][d.packet]
        /\ sinceOut[d.flow][d.packet] \in Nat /\ Window[d.flow] \in Nat
    BY <2>1, <1>5, RoutingAssumption DEF IndInv, OutBefore
  <2>3. CASE d.age = 0
    BY <2>2, <2>3 DEF LeastOf
  <2>4. CASE \E e \in entries : d.flow = e.flow /\ d.packet = e.packet /\ d.age = e.age
    BY <2>2, <2>4 DEF IndInv, OutBefore
  <2> QED BY <1>4, <2>3, <2>4
<1>7. CopiesWait'
  <2> SUFFICES ASSUME ~Stopping
               PROVE  worker' /\ \A d \in entries' : ~d.duplicate /\ d.heard # Never => CopyWaits(d)'
    BY <1>1, TakeEffect DEF CopiesWait, Stopping
  <2>1. worker'
    BY <1>1, TakeEffect
  <2>2. ASSUME NEW d \in entries', ~d.duplicate, d.heard # Never PROVE CopyWaits(d)'
    <3>1. CASE d.packet = p /\ d.age = 0 /\ CopyBehind(p) /\ d.heard = 0
      <4>1. PICK i \in 2 .. Len(queue) : queue[i].from = "rf" /\ queue[i].packet = p
        BY <3>1 DEF CopyBehind
      <4>2. queue[i] = Frame("rf", p)
        BY <4>1, QueueIndices DEF IndInv, FrameSet, Frame
      <4>3. \E j \in DOMAIN queue' : queue'[j] = Frame("rf", d.packet)
        BY <3>1, <4>1, <4>2, <1>1, TakeEffect
      <4>4. lag' \in 0 .. MaxLag
        BY <1>1, TakeEffect
      <4>5. d.age - d.heard <= lag'
        BY <3>1, <4>4
      <4> QED BY <4>3, <4>5 DEF CopyWaits
    <3>2. CASE d \in entries /\ d.packet # p
      <4>1. CopyWaits(d)
        BY <2>2, <3>2 DEF IndInv, CopiesWait
      <4>2. Head(queue) # Frame("rf", d.packet)
        BY <3>2 DEF Frame, p
      <4> QED BY <4>1, <4>2, <1>1, TakeEffect
    <3> QED BY <2>2, <3>1, <3>2, <1>4
  <2> QED BY <2>1, <2>2
<1> QED BY <1>1, <1>3, <1>4, <1>5, <1>6, <1>7, TakeEffect DEF IndInv, OncePerWindow

-----------------------------------------------------------------------------
(* The end of a delay.                                                     *)

LEMMA FinalizePreserves == ASSUME IndInv, NEW e \in entries, Finalize(e) PROVE IndInv'
<1>1. /\ entries' = entries \ {e} /\ e.age >= Window[e.flow]
      /\ pendingWait' = IF e.duplicate THEN pendingWait ELSE pendingWait - 1
      /\ RunFlows(e.packet, {e.flow}) \/ UNCHANGED <<sinceOut, repeated>>
      /\ UNCHANGED <<queue, lag, gatePending, phase, joined, worker, late, overtaken>>
  BY DEF Finalize, EndDelay, Expired, output, shutdown
<1>2. e.flow \in Flows /\ e.packet \in Packets /\ e.age \in Nat /\ Window[e.flow] \in Nat
  BY RoutingAssumption DEF IndInv, EntriesOK, EntrySet, Delayed
<1>3. EntriesOK'
  BY <1>1, FS_Subset DEF IndInv, EntriesOK
<1>4. CountsWaiting'
  <2>1. IsFiniteSet(Waiting)
    BY FS_Subset DEF IndInv, EntriesOK, Waiting
  <2>2. Waiting' = Waiting \ {e} /\ (e \in Waiting <=> ~e.duplicate)
    BY <1>1 DEF Waiting
  <2>3. Cardinality(Waiting') = IF e \in Waiting THEN Cardinality(Waiting) - 1 ELSE Cardinality(Waiting)
    BY <2>1, <2>2, FS_RemoveElement
  <2> QED BY <1>1, <2>2, <2>3 DEF IndInv, CountsWaiting
<1>5. /\ sinceOut' \in [Flows -> [Packets -> Nat]] /\ ~repeated'
      /\ \A d \in entries' : sinceOut'[d.flow][d.packet] = sinceOut[d.flow][d.packet]
  <2>1. CASE UNCHANGED <<sinceOut, repeated>>
    BY <2>1 DEF IndInv, OutBefore, OncePerWindow
  <2>2. CASE RunFlows(e.packet, {e.flow})
    <3>1. sinceOut[e.flow][e.packet] >= Window[e.flow]
      <4>1. sinceOut[e.flow][e.packet] \in Nat
            /\ LeastOf(e.age, Window[e.flow]) <= sinceOut[e.flow][e.packet]
        BY <1>2 DEF IndInv, OutBefore
      <4> QED BY <4>1, <1>1, <1>2 DEF LeastOf
    <3>2. /\ sinceOut' \in [Flows -> [Packets -> Nat]] /\ ~repeated'
          /\ \A f \in Flows : \A q \in Packets :
               (f # e.flow \/ q # e.packet) => sinceOut'[f][q] = sinceOut[f][q]
      BY <2>2, <3>1, <1>2, RunFlowsEffect
    <3>3. ASSUME NEW d \in entries' PROVE sinceOut'[d.flow][d.packet] = sinceOut[d.flow][d.packet]
      <4>1. d \in entries /\ d # e
        BY <1>1
      <4>2. d.flow \in Flows /\ d.packet \in Packets
        BY <4>1 DEF IndInv, EntriesOK, EntrySet, Delayed
      <4>3. d.flow # e.flow \/ d.packet # e.packet
        BY <4>1 DEF IndInv, CountsWaiting
      <4> QED BY <3>2, <4>2, <4>3
    <3> QED BY <3>2, <3>3
  <2> QED BY <1>1, <2>1, <2>2
<1>6. OutBefore'
  BY <1>1, <1>5 DEF IndInv, OutBefore
<1>7. CopiesWait'
  BY <1>1 DEF IndInv, CopiesWait, CopyWaits, Stopping
<1>8. QueueOK' /\ ControlOK' /\ JoinDrains'
  BY <1>1 DEF IndInv, QueueOK, ControlOK, JoinDrains, NoRfFrame
<1> QED BY <1>3, <1>4, <1>5, <1>6, <1>7, <1>8 DEF IndInv, OncePerWindow
-----------------------------------------------------------------------------
(* Time, the gate, the shutdown and a restart.                             *)

LEMMA TickPreserves == ASSUME IndInv, Tick PROVE IndInv'
<1> DEFINE g == [e \in entries |-> [e EXCEPT !.age = @ + 1]]
<1>1. /\ InTime /\ lag' = IF queue = <<>> THEN 0 ELSE LeastOf(lag + 1, MaxLag)
      /\ entries' = {g[e] : e \in entries}
      /\ sinceOut' = [f \in Flows |-> [p \in Packets |-> LeastOf(sinceOut[f][p] + 1, Window[f])]]
      /\ UNCHANGED <<queue, pendingWait, gatePending, repeated, phase, joined, worker, late, overtaken>>
  BY DEF Tick, shutdown
<1>2. ASSUME NEW e \in entries
      PROVE  /\ g[e] \in EntrySet /\ g[e].flow = e.flow /\ g[e].packet = e.packet
             /\ g[e].age = e.age + 1 /\ g[e].duplicate = e.duplicate /\ g[e].heard = e.heard
             /\ e.age \in Nat /\ e.flow \in Flows /\ e.packet \in Packets /\ e.heard \in Int
             /\ Window[e.flow] \in Nat
  BY RoutingAssumption DEF IndInv, EntriesOK, EntrySet, Delayed
<1> HIDE DEF g
<1>3. IsFiniteSet(entries') /\ CountsWaiting'
  BY <1>1, <1>2, EntriesRewritten DEF IndInv
<1>4. EntriesOK'
  <2>1. ASSUME NEW e \in entries
        PROVE  e.age + 1 <= Window[e.flow] + MaxLag /\ e.heard \in {Never} \cup 0 .. e.age + 1
    <3>1. e.age < Window[e.flow] + MaxLag /\ e.heard \in {Never} \cup 0 .. e.age
      BY <1>1 DEF InTime, IndInv, EntriesOK
    <3> QED BY <3>1, <1>2, RoutingAssumption
  <2> QED BY <2>1, <1>1, <1>2, <1>3 DEF EntriesOK
<1>5. ControlOK'
  <2>1. lag' \in 0 .. MaxLag
    BY <1>1, RoutingAssumption DEF IndInv, ControlOK, LeastOf
  <2> QED BY <2>1, <1>1 DEF IndInv, ControlOK
<1>6. OutBefore'
  <2>1. \A f \in Flows : \A p \in Packets : /\ sinceOut[f][p] \in Nat /\ Window[f] \in Nat
                                            /\ LeastOf(sinceOut[f][p] + 1, Window[f]) \in Nat
    BY RoutingAssumption DEF IndInv, OutBefore, LeastOf
  <2>2. sinceOut' \in [Flows -> [Packets -> Nat]]
    BY <1>1, <2>1
  <2>3. ASSUME NEW e \in entries
        PROVE  LeastOf(e.age + 1, Window[e.flow]) <= sinceOut'[e.flow][e.packet]
    <3>1. sinceOut'[e.flow][e.packet] = LeastOf(sinceOut[e.flow][e.packet] + 1, Window[e.flow])
      BY <1>1, <1>2
    <3>2. LeastOf(e.age, Window[e.flow]) <= sinceOut[e.flow][e.packet]
      BY DEF IndInv, OutBefore
    <3> QED BY <3>1, <3>2, <1>2, <2>1 DEF LeastOf
  <2>4. ASSUME NEW d \in entries'
        PROVE  LeastOf(d.age, Window[d.flow]) <= sinceOut'[d.flow][d.packet]
    <3>1. PICK e \in entries : d = g[e]
      BY <1>1
    <3>2. d.age = e.age + 1 /\ d.flow = e.flow /\ d.packet = e.packet
      BY <3>1, <1>2
    <3> QED BY <3>2, <2>3
  <2> QED BY <2>2, <2>4 DEF OutBefore
<1>7. CopiesWait'
  <2> SUFFICES ASSUME ~Stopping
               PROVE  worker /\ \A d \in entries' : ~d.duplicate /\ d.heard # Never => CopyWaits(d)'
    BY <1>1 DEF CopiesWait, Stopping
  <2>1. worker
    BY DEF IndInv, CopiesWait
  <2>2. ASSUME NEW d \in entries', ~d.duplicate, d.heard # Never PROVE CopyWaits(d)'
    <3>1. PICK e \in entries : d = g[e]
      BY <1>1
    <3>2. CopyWaits(e) /\ d.packet = e.packet /\ d.age = e.age + 1 /\ d.heard = e.heard
      BY <2>2, <3>1, <1>2 DEF IndInv, CopiesWait
    <3>3. queue # <<>>
      BY <3>2 DEF CopyWaits
    <3>4. lag \in Nat /\ lag' = lag + 1
      BY <3>3, <2>1, <1>1, RoutingAssumption DEF InTime, LeastOf, IndInv, ControlOK
    <3>5. d.age - d.heard <= lag'
      BY <3>1, <3>2, <3>4, <1>2 DEF CopyWaits
    <3> QED BY <3>2, <3>5, <1>1 DEF CopyWaits
  <2> QED BY <2>1, <2>2
<1>8. QueueOK' /\ JoinDrains' /\ OncePerWindow'
  BY <1>1 DEF IndInv, QueueOK, JoinDrains, NoRfFrame, OncePerWindow
<1> QED BY <1>3, <1>4, <1>5, <1>6, <1>7, <1>8 DEF IndInv

LEMMA GatePreserves == ASSUME IndInv, GateFinishes PROVE IndInv'
BY DEF GateFinishes, output, shutdown, IndInv, QueueOK, EntriesOK, ControlOK, CountsWaiting, Waiting,
       OutBefore, OncePerWindow, CopiesWait, CopyWaits, Stopping, JoinDrains, NoRfFrame

LEMMA ShutdownPreserves == ASSUME IndInv, ShutdownStep PROVE IndInv'
<1>1. UNCHANGED <<queue, lag, late, sinceOut, repeated>>
  BY DEF ShutdownStep, RequestStop, JoinReturns, PollFindsIdle, SetStopEvent, ClearState, CancelWorker,
         Goes, IdleVars, output
<1>2. QueueOK' /\ OncePerWindow'
  BY <1>1 DEF IndInv, QueueOK, OncePerWindow
<1>3. CASE ClearState
  <2>1. EntriesOK' /\ CountsWaiting' /\ OutBefore'
    BY <1>1, <1>3, FS_EmptySet DEF ClearState, IndInv, EntriesOK, CountsWaiting, Waiting, OutBefore
  <2>2. ControlOK' /\ CopiesWait' /\ JoinDrains'
    BY <1>1, <1>3 DEF ClearState, Goes, IdleVars, IndInv, ControlOK, PhaseSet, CopiesWait, Stopping, JoinDrains
  <2> QED BY <1>2, <2>1, <2>2 DEF IndInv
<1>4. CASE RequestStop \/ JoinReturns \/ PollFindsIdle \/ SetStopEvent \/ CancelWorker
  <2>1. UNCHANGED <<entries, pendingWait, gatePending>>
    BY <1>4 DEF RequestStop, JoinReturns, PollFindsIdle, SetStopEvent, CancelWorker
  <2>2. EntriesOK' /\ CountsWaiting' /\ OutBefore'
    BY <1>1, <2>1 DEF IndInv, EntriesOK, CountsWaiting, Waiting, OutBefore
  <2>3. ControlOK'
    <3>1. phase' \in PhaseSet
      BY <1>4 DEF RequestStop, JoinReturns, PollFindsIdle, SetStopEvent, CancelWorker, Goes, PhaseSet
    <3>2. joined' \in BOOLEAN
      BY <1>4 DEF RequestStop, JoinReturns, PollFindsIdle, SetStopEvent, CancelWorker, IndInv, ControlOK
    <3>3. worker' \in BOOLEAN
      BY <1>4 DEF RequestStop, JoinReturns, PollFindsIdle, SetStopEvent, CancelWorker, IdleVars, IndInv, ControlOK
    <3>4. overtaken' \in BOOLEAN
      BY <1>4 DEF RequestStop, JoinReturns, PollFindsIdle, SetStopEvent, CancelWorker, IndInv, ControlOK
    <3> QED BY <1>1, <2>1, <3>1, <3>2, <3>3, <3>4 DEF IndInv, ControlOK
  <2>4. CopiesWait'
    <3>1. ~Stopping' => ~Stopping /\ worker' = worker
      BY <1>4 DEF RequestStop, JoinReturns, PollFindsIdle, SetStopEvent, CancelWorker, Goes, IdleVars, Stopping
    <3> QED BY <1>1, <2>1, <3>1 DEF IndInv, CopiesWait, CopyWaits
  <2>5. JoinDrains'
    <3>1. queue = <<>> => NoRfFrame
      BY DEF NoRfFrame
    <3> QED BY <1>1, <1>4, <3>1
            DEF RequestStop, JoinReturns, PollFindsIdle, SetStopEvent, CancelWorker, Goes, IndInv,
                JoinDrains, NoRfFrame
  <2> QED BY <1>2, <2>2, <2>3, <2>4, <2>5 DEF IndInv
<1> QED BY <1>3, <1>4 DEF ShutdownStep

\* All but the history is empty at the start; a restart comes back to it.
LEMMA StartEstablishes ==
    ASSUME queue = <<>>, lag = 0, entries = {}, pendingWait = 0, gatePending = FALSE,
           phase = "running", joined = FALSE, worker = TRUE, late = 0, overtaken = FALSE,
           sinceOut \in [Flows -> [Packets -> Nat]], OncePerWindow
    PROVE  IndInv
<1>1. QueueOK
  BY RoutingAssumption, EmptySeq DEF QueueOK
<1>2. EntriesOK /\ CountsWaiting /\ OutBefore
  BY FS_EmptySet DEF EntriesOK, CountsWaiting, Waiting, OutBefore
<1>3. ControlOK
  <2>1. 0 \in 0 .. MaxLag /\ 0 \in 0 .. MaxLate
    BY RoutingAssumption
  <2> QED BY <2>1 DEF ControlOK, PhaseSet
<1>4. CopiesWait /\ JoinDrains
  BY DEF CopiesWait, Stopping, JoinDrains
<1> QED BY <1>1, <1>2, <1>3, <1>4 DEF IndInv

LEMMA RestartEstablishes == ASSUME IndInv, Restart PROVE IndInv'
<1>1. QueueOK'
  BY RoutingAssumption, EmptySeq DEF QueueOK, Restart
<1>2. EntriesOK' /\ CountsWaiting' /\ OutBefore' /\ OncePerWindow'
  BY FS_EmptySet DEF Restart, output, IndInv, EntriesOK, CountsWaiting, Waiting, OutBefore, OncePerWindow
<1>3. ControlOK'
  <2>1. 0 \in 0 .. MaxLag /\ 0 \in 0 .. MaxLate
    BY RoutingAssumption
  <2> QED BY <2>1 DEF ControlOK, PhaseSet, Restart
<1>4. CopiesWait' /\ JoinDrains'
  BY DEF CopiesWait, Stopping, JoinDrains, Restart
<1> QED BY <1>1, <1>2, <1>3, <1>4 DEF IndInv

LEMMA Invariance == Spec => []IndInv
<1>1. Init => IndInv
  <2> SUFFICES ASSUME Init PROVE IndInv
    OBVIOUS
  <2>1. sinceOut \in [Flows -> [Packets -> Nat]] /\ OncePerWindow
    BY RoutingAssumption DEF Init, OncePerWindow
  <2> QED BY <2>1, StartEstablishes DEF Init
<1>2. IndInv /\ [Next]_vars => IndInv'
  <2> SUFFICES ASSUME IndInv, [Next]_vars PROVE IndInv'
    OBVIOUS
  <2>1. CASE \E p \in Packets : HearOnRf(p) \/ ReceiveFromAprsis(p)
    BY <2>1, ArrivalPreserves
  <2>2. CASE ProcessRf \/ ProcessAprsis \/ GateFinishes
    BY <2>2, RfPreserves, AprsisPreserves, GatePreserves
  <2>3. CASE \E e \in entries : Finalize(e)
    BY <2>3, FinalizePreserves
  <2>4. CASE ShutdownStep \/ Restart \/ Tick
    BY <2>4, ShutdownPreserves, RestartEstablishes, TickPreserves
  <2>5. CASE UNCHANGED vars
    BY <2>5 DEF vars, output, shutdown, IndInv, QueueOK, EntriesOK, ControlOK, CountsWaiting, Waiting,
                OutBefore, OncePerWindow, CopiesWait, CopyWaits, Stopping, JoinDrains, NoRfFrame
  <2> QED BY <2>1, <2>2, <2>3, <2>4, <2>5 DEF Next
<1> QED BY <1>1, <1>2, PTL DEF Spec

-----------------------------------------------------------------------------
(* The results.                                                            *)

\* The queue keeps its bound, no timer runs more than MaxLag over, and every variable stays
\* in its set.
THEOREM TypeCorrect == Spec => []TypeOK
<1>1. IndInv => TypeOK
  <2> SUFFICES ASSUME IndInv PROVE TypeOK
    OBVIOUS
  <2>1. \A e \in entries : /\ e.flow \in Delayed /\ e.packet \in Packets /\ e.duplicate \in BOOLEAN
                           /\ e.age \in 0 .. Window[e.flow] + MaxLag
                           /\ e.heard \in {Never} \cup 0 .. e.age
    BY RoutingAssumption DEF IndInv, EntriesOK, EntrySet, Delayed
  <2>2. \E i \in DOMAIN Phases : phase = Phases[i]
    BY PhaseIsOne DEF IndInv, ControlOK
  <2> QED BY <2>1, <2>2 DEF IndInv, QueueOK, ControlOK, OutBefore, TypeOK, FrameSet
<1> QED BY <1>1, Invariance, PTL

\* The counter on which the shutdown waits is the number of frames that wait, through every
\* mark, end of a delay, clearing and restart; a flow has one entry for a packet.
THEOREM CounterIsExact == Spec => []CountsWaiting
<1>1. IndInv => CountsWaiting
  BY DEF IndInv
<1> QED BY <1>1, Invariance, PTL

\* A flow with a duplicate filter transmits a packet once per window, even over a restart.
THEOREM SentOncePerWindow == Spec => []OncePerWindow
<1>1. IndInv => OncePerWindow
  BY DEF IndInv
<1> QED BY <1>1, Invariance, PTL

\* Only the end of its own delay hands a waiting packet over, unmarked and before the stop.
LEMMA GoesOutAtItsEnd ==
    ASSUME IndInv, [Next]_vars, NEW e \in entries, GoesOut(e)
    PROVE  Finalize(e) /\ ~e.duplicate /\ ~StopSet
<1>1. e.flow \in Delayed /\ e.flow \in Flows /\ e.packet \in Packets
  BY DEF IndInv, EntriesOK, EntrySet, Delayed
<1>2. sinceOut'[e.flow][e.packet] # sinceOut[e.flow][e.packet]
  BY DEF GoesOut
<1>3. ~ ProcessRf
  <2> SUFFICES ASSUME ProcessRf PROVE FALSE
    OBVIOUS
  <2>1. Head(queue).packet \in Packets /\ RunFlows(Head(queue).packet, Flows \ Delayed)
    BY TakeEffect DEF ProcessRf, FrameSet
  <2> QED BY <2>1, <1>1, <1>2, RunFlowsEffect
<1>4. ~ Tick
  <2> SUFFICES ASSUME Tick PROVE FALSE
    OBVIOUS
  <2>1. sinceOut'[e.flow][e.packet] = LeastOf(sinceOut[e.flow][e.packet] + 1, Window[e.flow])
    BY <1>1 DEF Tick
  <2>2. sinceOut[e.flow][e.packet] \in Nat /\ Window[e.flow] \in Nat /\ Window[e.flow] > 0
    BY <1>1, RoutingAssumption DEF IndInv, OutBefore, Delayed
  <2> QED BY <2>1, <2>2 DEF GoesOut, LeastOf
<1>5. PICK d \in entries : Finalize(d)
  BY <1>2, <1>3, <1>4
     DEF Next, vars, HearOnRf, ReceiveFromAprsis, ProcessAprsis, GateFinishes, ShutdownStep, RequestStop,
         JoinReturns, PollFindsIdle, SetStopEvent, ClearState, CancelWorker, Restart, output
<1>6. RunFlows(d.packet, {d.flow}) /\ ~d.duplicate /\ ~StopSet
  BY <1>2, <1>5 DEF Finalize, EndDelay, output
<1>7. d.flow \in Flows /\ d.packet \in Packets
  BY DEF IndInv, EntriesOK, EntrySet, Delayed
<1>8. d.flow = e.flow /\ d.packet = e.packet
  BY <1>1, <1>2, <1>6, <1>7, RunFlowsEffect
<1>9. d = e
  BY <1>8 DEF IndInv, CountsWaiting
<1> QED BY <1>5, <1>6, <1>9

\* A delayed frame goes out only if no copy of it was heard early enough to be processed.
THEOREM OnlyUnheardGoesOut == Spec => OnlyUnheard
<1> DEFINE A == \A e \in entries : GoesOut(e) =>
                  ~e.duplicate /\ (e.heard = Never \/ e.heard + MaxLag >= Window[e.flow])
<1>1. IndInv /\ [Next]_vars => [A]_vars
  <2> SUFFICES ASSUME IndInv, [Next]_vars, NEW e \in entries, GoesOut(e), e.heard # Never
               PROVE  ~e.duplicate /\ e.heard + MaxLag >= Window[e.flow]
    BY GoesOutAtItsEnd
  <2>1. Finalize(e) /\ ~e.duplicate /\ ~Stopping
    BY GoesOutAtItsEnd, StopMeans DEF IndInv, ControlOK
  <2>2. e.age >= Window[e.flow] /\ e.age - e.heard <= lag /\ lag <= MaxLag
    BY <2>1 DEF Finalize, EndDelay, Expired, IndInv, CopiesWait, CopyWaits, ControlOK
  <2>3. e.age \in Nat /\ e.heard \in Int /\ lag \in Nat /\ Window[e.flow] \in Nat /\ MaxLag \in Nat
    BY RoutingAssumption DEF IndInv, EntriesOK, EntrySet, ControlOK, Delayed
  <2> QED BY <2>1, <2>2, <2>3
<1> QED BY <1>1, Invariance, PTL DEF Spec, OnlyUnheard

\* Once the stop event is set, no delayed frame is transmitted.
THEOREM StopIsSilent == Spec => SilentAfterStop
<1> DEFINE A == \A e \in entries : StopSet => ~GoesOut(e)
<1>1. IndInv /\ [Next]_vars => [A]_vars
  BY GoesOutAtItsEnd
<1> QED BY <1>1, Invariance, PTL DEF Spec, SilentAfterStop

\* When the runtime reports that it is idle, no frame heard on RF waits in its queue or in
\* a delay, unless a position from APRS-IS met the full queue during join().
THEOREM IdleIsDrained == Spec => Drained
<1> DEFINE A == phase = "polling" /\ phase' = "leaving" /\ ~overtaken =>
                  Waiting = {} /\ \A i \in DOMAIN queue : queue[i].from = "aprsis"
<1>1. IndInv /\ [Next]_vars => [A]_vars
  <2> SUFFICES ASSUME IndInv, [Next]_vars, phase = "polling", phase' = "leaving", ~overtaken
               PROVE  Waiting = {} /\ \A i \in DOMAIN queue : queue[i].from = "aprsis"
    OBVIOUS
  <2>1. IsIdle
    BY DEF Next, vars, HearOnRf, ReceiveFromAprsis, ProcessRf, ProcessAprsis, Take, GateFinishes, Finalize,
           EndDelay, ShutdownStep, RequestStop, JoinReturns, PollFindsIdle, SetStopEvent, ClearState,
           CancelWorker, Goes, Restart, Tick, shutdown
  <2>2. Waiting = {}
    <3>1. IsFiniteSet(Waiting)
      BY FS_Subset DEF IndInv, EntriesOK, Waiting
    <3>2. Cardinality(Waiting) \in Nat /\ Cardinality(Waiting) <= 0
      BY <2>1, <3>1, FS_CardinalityType DEF IsIdle, IndInv, CountsWaiting
    <3> QED BY <3>1, <3>2, FS_EmptySet
  <2>3. \A i \in DOMAIN queue : queue[i].from = "aprsis"
    <3>1. NoRfFrame
      BY DEF IndInv, JoinDrains
    <3> QED BY <3>1, QueueIndices DEF NoRfFrame, FrameSet, IndInv
  <2> QED BY <2>2, <2>3
<1> QED BY <1>1, Invariance, PTL DEF Spec, Drained
=============================================================================
