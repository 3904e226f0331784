-------------------------- MODULE AtMostOnceQueue --------------------------
(***************************************************************************)
(* What the outbound job table promises to the radio: a job goes into the  *)
(* hand of the one transmit worker, comes back only to wait again, and     *)
(* once it has left the hand for good, or the worker died holding it, it   *)
(* is never transmitted (again).  DirectMessage implements this module.    *)
(***************************************************************************)
VARIABLES waiting,      \* jobs that may be taken
          hand,         \* the job the worker holds: at most one
          lost,         \* jobs the worker held when its process died
          closed        \* sent, failed and cancelled jobs

queueVars == <<waiting, hand, lost, closed>>

Known == waiting \cup hand \cup lost \cup closed

Init == waiting = {} /\ hand = {} /\ lost = {} /\ closed = {}

\* Jobs nobody has seen before join the queue.
Enqueue ==
    /\ waiting \subseteq waiting'
    /\ (waiting' \ waiting) \cap Known = {}
    /\ UNCHANGED <<hand, lost, closed>>

Take ==
    /\ hand = {}
    /\ \E j \in waiting : hand' = {j} /\ waiting' = waiting \ {j}
    /\ UNCHANGED <<lost, closed>>

GiveBack ==
    /\ \E j \in hand : hand' = hand \ {j} /\ waiting' = waiting \cup {j}
    /\ UNCHANGED <<lost, closed>>

Close ==
    /\ \E j \in hand : hand' = hand \ {j} /\ closed' = closed \cup {j}
    /\ UNCHANGED <<waiting, lost>>

Withdraw ==
    /\ \E j \in waiting : waiting' = waiting \ {j} /\ closed' = closed \cup {j}
    /\ UNCHANGED <<hand, lost>>

Die ==
    /\ lost' = lost \cup hand
    /\ hand' = {}
    /\ UNCHANGED <<waiting, closed>>

\* A restarted service may write a lost job off; it never takes it again.
WriteOff ==
    /\ lost' \subseteq lost
    /\ closed' = closed \cup (lost \ lost')
    /\ UNCHANGED <<waiting, hand>>

Next == Enqueue \/ Take \/ GiveBack \/ Close \/ Withdraw \/ Die \/ WriteOff

Spec == Init /\ [][Next]_queueVars
=============================================================================
