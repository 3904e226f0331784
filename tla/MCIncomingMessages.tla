------------------------ MODULE MCIncomingMessages ------------------------
(***************************************************************************)
(* Instances of IncomingMessages for TLC.                                  *)
(***************************************************************************)
EXTENDS IncomingMessages

\* Two messages as long as nothing is deleted and nothing crashes, or one.
TwoMessagesOrFaults ==
    deletes + crashes > 0 => \E m \in Messages : remote[m] = "new"
=============================================================================
