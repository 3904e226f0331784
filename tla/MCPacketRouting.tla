-------------------------- MODULE MCPacketRouting --------------------------
(***************************************************************************)
(* Instances of PacketRouting for TLC: two positions of one station and    *)
(* other packets; a flow with a duplicate filter, and one without.         *)
(***************************************************************************)
EXTENDS PacketRouting

CONSTANTS position, newer, alice

MCPositionOf == [p \in Packets |-> IF p \in {position, newer} THEN alice ELSE NoStation]
MCWindow == [f \in Flows |-> IF f = 1 THEN 2 ELSE 0]
=============================================================================
