---------------------------- MODULE MCStreamSinks ----------------------------
(***************************************************************************)
(* Instances of StreamSinks for TLC.                                       *)
(***************************************************************************)
EXTENDS StreamSinksRefinement, TLC

CONSTANT OperationalSinks  \* the sinks that are JsonlSinks; the others are JsonlAuditSinks

MCKindOf == [s \in Sinks |-> IF s \in OperationalSinks THEN "operational" ELSE "audit"]

\* A path that is an entry's own name is in its directory; any other is a symbolic link,
\* from a directory of its own, to an entry.
MCEntry == [p \in Paths |-> IF p \in Entries THEN p ELSE CHOOSE e \in Entries : TRUE]
MCSiblings == [p \in Paths |-> IF p \in Entries THEN Entries ELSE {}]

\* Files and names are interchangeable; sound where no liveness property is checked.
FileSystemSymmetry == Permutations(Files) \cup Permutations(Paths)

=============================================================================
