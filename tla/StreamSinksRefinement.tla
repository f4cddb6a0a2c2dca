------------------------- MODULE StreamSinksRefinement -------------------------
(***************************************************************************)
(* StreamSinks implements DurableLog: a record is in the log from the      *)
(* moment its newline is in the file, and is secured by the fsync that     *)
(* covers it.                                                              *)
(***************************************************************************)
EXTENDS StreamSinks

\* What each reply says about the record.
Says(answer) ==
    CASE answer \in {"refused", "schema_error"} -> "refused"
      [] answer \in {"failed", "interrupted"} -> "failed"
      [] OTHER -> answer

Whole(f) == {k \in 1..Len(content[f]) : content[f][k].at = RecordLen}

Log ==
    INSTANCE DurableLog WITH
        Records <- Calls,
        Offsets <- 0..(RecordLen * MaxCalls),
        status <- [r \in Calls |-> Says(reply[r])],
        entries <- [f \in Files |-> {[rec |-> content[f][k].rec, at |-> k] : k \in Whole(f)}],
        secured <- synced

\* Every step of the sinks is a step of the log or leaves it as it is: whatever the
\* threads, short writes, failures, signals and crashes, a record enters one file once
\* and behind the others, and no answer promises more than the log holds
\* (interfaces.py:36-43, 54-66).  True where no operator removes files and paths are
\* Contained: the file of an acknowledged record must not go away in a crash.
ImplementsDurableLog == Log!Spec

================================================================================
