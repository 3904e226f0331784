-------------------------- MODULE MCDirectMessage --------------------------
(***************************************************************************)
(* Instances of DirectMessage for TLC, see the Message*.cfg files: each    *)
(* turns on the part of the environment (crashes, receivers, pacing, a     *)
(* second message) that its properties are about.                          *)
(***************************************************************************)
EXTENDS DirectMessage

\* State constraint of MessageProgress: one message on several interfaces with
\* pacing, or several messages on one interface without.
OneMessage == Cardinality({m \in Messages : status[m] # "none"}) <= 1
OneInterface == \A j \in JobIds : jobs[j].batch = j /\ ~jobs[j].paced
OneMessageOrOneInterface == OneMessage \/ OneInterface
=============================================================================
