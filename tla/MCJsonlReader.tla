----------------------------- MODULE MCJsonlReader -----------------------------
(***************************************************************************)
(* An instance of JsonlReader for TLC.                                     *)
(***************************************************************************)
EXTENDS JsonlReader, TLC

MCKindOf == [s \in Sinks |-> "audit"]

\* Every path is the name of an entry, all in one directory.
MCEntry == [p \in Paths |-> p]
MCSiblings == [p \in Paths |-> Entries]

=============================================================================
