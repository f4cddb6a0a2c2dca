------------------------- MODULE MCOperationalLogging -------------------------
(***************************************************************************)
(* Instances of OperationalLogging for TLC.                                *)
(***************************************************************************)
EXTENDS OperationalLogging, TLC

===============================================================================
