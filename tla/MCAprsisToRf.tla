---------------------------- MODULE MCAprsisToRf ----------------------------
(***************************************************************************)
(* Instances of AprsisToRf for TLC: messages of alice to bob and positions *)
(* of alice.                                                               *)
(***************************************************************************)
EXTENDS AprsisToRf, TLC

CONSTANTS message, position, position2, alice, bob

MCSender == [p \in Packets |-> alice]
MCRecipient == [p \in Packets |-> IF p = message THEN bob ELSE NoStation]
MCIsPosition == [p \in Packets |-> p # message]

\* The first flow waits longer than the second.
MCDelay == [f \in Flows |-> IF f = 1 THEN 2 ELSE 1]
MCWindow == [f \in Flows |-> 2]

\* Symmetry of AprsisDuplicates: both positions are alice's.
AnyPosition == Permutations({position, position2})

\* State constraint of AprsisDuplicates: two packets until BusyUntil; a message on its way
\* through one flow and two positions, which overfill the memory, until CrowdedUntil; and
\* long runs of one packet, which is what a duplicate is about.
BusyUntil == 3
CrowdedUntil == 2
Waits == {e.packet : e \in pending} \cup {sent[i].packet : i \in DOMAIN sent}
Met == {seen[i].packet : i \in DOMAIN seen} \cup {frame.packet} \cup Waits
         \cup {p \in Packets : heard[p] # Never}
Used == frame.todo \cup {e.flow : e \in pending} \cup {sent[i].flow : i \in DOMAIN sent}
FewPackets ==
    LET n == Cardinality(Met \cap Packets)
    IN  \/ n <= 1
        \/ n = 2 /\ ~({position, position2} \subseteq Met) /\ now <= BusyUntil
        \/ Used \subseteq {2} /\ Waits \subseteq {message} /\ now <= CrowdedUntil
=============================================================================
