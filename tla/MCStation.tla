------------------------------ MODULE MCStation ------------------------------
(***************************************************************************)
(* Instances of Station for TLC.                                           *)
(***************************************************************************)
EXTENDS Station

MCServiceOf == [k \in Kinds |-> IF k = "wx" THEN "wx" ELSE "aprs"]
=============================================================================
