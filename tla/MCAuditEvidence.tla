---------------------------- MODULE MCAuditEvidence ----------------------------
(***************************************************************************)
(* An instance of AuditEvidence for TLC.                                   *)
(***************************************************************************)
EXTENDS AuditEvidence, TLC

CONSTANTS
    SafeOthers,  \* exceptions of other packages that adopted the marker
    BrokenOthers \* those of them whose str() raises

MCExceptions == Others \cup PackageErrors
MCMarker ==
    [x \in MCExceptions |->
        IF x \in BrokenOthers THEN "broken"
        ELSE IF x \in Others \ SafeOthers THEN "none" ELSE "safe"]

=============================================================================
