--------------------------- MODULE MCAprsisUplink ---------------------------
(***************************************************************************)
(* Instances of AprsisUplink for TLC: two names for connections are enough *)
(* for an old one and a new one.                                           *)
(***************************************************************************)
EXTENDS AprsisUplink
=============================================================================
