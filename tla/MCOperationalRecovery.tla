------------------------- MODULE MCOperationalRecovery ------------------------
(***************************************************************************)
(* OperationalLogging for TLC, with a history of it: how the latest        *)
(* attempt to write a record ended.                                        *)
(***************************************************************************)
EXTENDS OperationalLogging

VARIABLE lastWrite

FailedAttempt == \E t \in Threads : pc[t] \in {"write", "defect"} /\ pc'[t] = "degrade"

HistoryInit == Init /\ lastWrite = "none"

HistoryNext ==
    /\ Next
    /\ lastWrite' = CASE records' > records -> "ok"
                      [] FailedAttempt -> "failed"
                      [] OTHER -> lastWrite

HistorySpec == HistoryInit /\ [][HistoryNext]_<<vars, lastWrite>>

\* What health.py:36-37 says of recovery, that the next successful write brings it: while
\* no write has succeeded since the last one that failed, the log reads as degraded.
FailureStaysVisible == Quiet /\ lastWrite = "failed" => degraded

===============================================================================
