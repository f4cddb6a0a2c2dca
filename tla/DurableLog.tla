------------------------------- MODULE DurableLog -------------------------------
(***************************************************************************)
(* What the protocols Sink and AuditSink of interfaces.py promise, as a    *)
(* log one can only add to: no threads, locks, descriptors or torn bytes.  *)
(* StreamSinks implements it (StreamSinksRefinement).                      *)
(*                                                                         *)
(* A record enters one file, behind all that is there.  Its caller is told *)
(* "durable" only of a record that no crash can take away, "written" only  *)
(* of one that is there, "refused" only of one that never was.  A crash    *)
(* takes the end of a file, never what is secured, and a file's identity   *)
(* is given away only if no durable record is in it: no operator removes   *)
(* files here.                                                             *)
(***************************************************************************)
EXTENDS Naturals

CONSTANTS
    Records, \* one for each call
    Files,   \* file identities
    Offsets  \* places in a file: natural numbers

VARIABLES
    status,  \* what the caller of a record has been told
    entries, \* the records of each file, with the place where each one ends
    secured  \* the place in each file up to which it survives a crash

log == <<status, entries, secured>>

Statuses == {"unused", "pending", "durable", "written", "refused", "failed", "lost"}

StoredIn(r, f) == \E e \in entries[f] : e.rec = r
SecureIn(r, f) == \E e \in entries[f] : e.rec = r /\ e.at <= secured[f]

Init ==
    /\ status = [r \in Records |-> "unused"]
    /\ entries = [f \in Files |-> {}]
    /\ secured = [f \in Files |-> 0]

Tell(r, s) == status' = [status EXCEPT ![r] = s]

Submit(r) ==
    /\ status[r] = "unused"
    /\ Tell(r, "pending")
    /\ UNCHANGED <<entries, secured>>

\* Turned away, before or after it was submitted: no file has it or ever will.
Refuse(r) ==
    /\ status[r] \in {"unused", "pending"}
    /\ \A f \in Files : ~StoredIn(r, f)
    /\ Tell(r, "refused")
    /\ UNCHANGED <<entries, secured>>

Store(r, f) ==
    /\ status[r] = "pending"
    /\ \A g \in Files : ~StoredIn(r, g)
    /\ \E place \in Offsets :
          /\ \A e \in entries[f] : e.at < place
          /\ entries' = [entries EXCEPT ![f] = @ \cup {[rec |-> r, at |-> place]}]
    /\ UNCHANGED <<status, secured>>

\* Everything the file holds now will survive.
Secure(f) ==
    /\ UNCHANGED <<status, entries>>
    /\ \E place \in Offsets :
          /\ secured[f] <= place
          /\ \A e \in entries[f] : e.at <= place
          /\ secured' = [secured EXCEPT ![f] = place]

Confirm(r) ==
    /\ status[r] = "pending"
    /\ \E f \in Files : SecureIn(r, f)
    /\ Tell(r, "durable")
    /\ UNCHANGED <<entries, secured>>

Accept(r) ==
    /\ status[r] = "pending"
    /\ \E f \in Files : StoredIn(r, f)
    /\ Tell(r, "written")
    /\ UNCHANGED <<entries, secured>>

\* An attempt that failed: whether the record is there is not said.
Fail(r) ==
    /\ status[r] = "pending"
    /\ Tell(r, "failed")
    /\ UNCHANGED <<entries, secured>>

\* Calls in progress are lost, and the end of every file from some place on.
Crash ==
    /\ status' = [r \in Records |-> IF status[r] = "pending" THEN "lost" ELSE status[r]]
    /\ UNCHANGED secured
    /\ \E cut \in [Files -> Offsets] :
          /\ \A f \in Files : secured[f] <= cut[f]
          /\ entries' = [f \in Files |-> {e \in entries[f] : e.at <= cut[f]}]

\* The identity of a file that is gone is given to a new one.
Recycle(f) ==
    /\ \A e \in entries[f] : status[e.rec] # "durable"
    /\ entries' = [entries EXCEPT ![f] = {}]
    /\ secured' = [secured EXCEPT ![f] = 0]
    /\ UNCHANGED status

Next ==
    \/ \E f \in Files : Recycle(f) \/ Secure(f)
    \/ \E r \in Records : Submit(r) \/ Refuse(r) \/ Confirm(r) \/ Accept(r) \/ Fail(r)
    \/ \E r \in Records, f \in Files : Store(r, f)
    \/ Crash

Spec == Init /\ [][Next]_log

--------------------------------------------------------------------------------
(* What the promise comes to. *)

\* A record whose caller was told "durable" is where no crash reaches, now and for good
\* (interfaces.py:54-60).
DurableStays == \A r \in Records : status[r] = "durable" => \E f \in Files : SecureIn(r, f)

\* A record that was refused is in no file (interfaces.py:43, 63).
RefusedIsNowhere ==
    \A r \in Records : status[r] = "refused" => \A f \in Files : ~StoredIn(r, f)

\* No record is in the log twice, and no two are in one place: one call leaves one record,
\* whatever fails and is lost after it (interfaces.py:36-43, 54-60).
StoredOnce ==
    \A f, g \in Files : \A d \in entries[f], e \in entries[g] :
        d.rec = e.rec \/ (f = g /\ d.at = e.at) => f = g /\ d = e

================================================================================
