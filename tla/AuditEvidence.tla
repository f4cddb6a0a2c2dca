----------------------------- MODULE AuditEvidence -----------------------------
(***************************************************************************)
(* The exceptions an audited operation leaves behind (audit.py) and the    *)
(* evidence built from them (ExceptionEvidence): which object is linked to *)
(* which when the sink, the facade and the application raise, catch and    *)
(* raise again around one operation().                                     *)
(*                                                                         *)
(* "raise x" sets x.__context__ to the exception being handled, as CPython *)
(* does it: cutting the context link that would close a cycle through x.   *)
(* A with-statement handles the exception it passes to __exit__.           *)
(*                                                                         *)
(* Abstracted: records and the trail (AuditOperations); outcome calls      *)
(* after the first, which AuditUsageError answers without a new link to    *)
(* anything; except clauses nested in except clauses.                      *)
(***************************************************************************)
EXTENDS ExceptionEvidence

CONSTANTS
    Others,       \* exceptions of the application and the sink, of any other type
    Original,     \* the AuditPersistenceError the sink owns
    Normalized,   \* the facade's own AuditPersistenceError
    Finalisation, \* the AuditFinalisationError of the operation
    Usage,        \* the AuditUsageError of an exit without an outcome
    MaxRaises     \* bound: exceptions the application raises inside the block

\* Every exception class of the package carries the safe-message marker.
PackageErrors == {Original, Normalized, Finalisation, Usage}

ASSUME ObjectAssumption ==
    /\ Exceptions = Others \cup PackageErrors
    /\ Cardinality(PackageErrors) = 4
    /\ Others \cap PackageErrors = {}
    /\ \A x \in PackageErrors : Marker[x] = "safe"
    /\ MaxRaises \in Nat

VARIABLES
    around,      \* the exception handled where the operation is begun
    handler,     \* the exception of the except clause the block's code is in
    flight,      \* the exception propagating
    state,       \* _state, "none" before intent has returned, "over" after the block
    stored,      \* _finalisation_exception
    sinkFailure, \* Normalized._sink_failure
    body,        \* Finalisation.body_exception
    raises       \* exceptions the application has raised inside the block

operation == <<around, handler, flight, state, stored, sinkFailure, body, raises>>
vars == <<link, evidence, operation>>

Init ==
    /\ \E cause, context \in [Others -> Others \cup {NoException}] :
          link = [cause |-> [x \in Exceptions |-> IF x \in Others THEN cause[x] ELSE NoException],
                  context |-> [x \in Exceptions |-> IF x \in Others THEN context[x] ELSE NoException]]
    /\ InitWalk
    /\ around \in Others \cup {NoException}
    /\ handler = NoException
    /\ flight = NoException
    /\ state = "none"
    /\ stored = NoException
    /\ sinkFailure = NoException
    /\ body = NoException
    /\ raises = 0

--------------------------------------------------------------------------------
(* Raising. *)

\* The exceptions on the context chain of h, as far as x if x is on it.
ContextChain(l, h, x) ==
    LET at[k \in 0..Cardinality(Exceptions)] ==
            IF k = 0 THEN h
            ELSE LET y == at[k - 1]
                 IN  IF y \in {NoException, x} THEN NoException ELSE l.context[y]
    IN  {at[k] : k \in DOMAIN at}

\* "raise x" while h is handled, on links l.
Raised(l, x, h) ==
    IF h \in {NoException, x} THEN l
    ELSE [l EXCEPT !.context =
            [y \in Exceptions |->
                IF y = x THEN h
                ELSE IF y \in ContextChain(l, h, x) /\ l.context[y] = x THEN NoException
                ELSE l.context[y]]]

\* "raise x from c".
RaisedFrom(l, x, c, h) == Raised([l EXCEPT !.cause[x] = c], x, h)

\* The sink's append raises original, perhaps out of an except clause for inner.
SinkRaised(l, original, inner, h) ==
    IF inner = NoException THEN Raised(l, original, h)
    ELSE Raised(Raised(l, inner, h), original, inner)

\* Mutated forms of NormalizedRaised: inside the except clause; with its context removed.
NormalizedRaisedInside(l, original, h) == RaisedFrom(l, Normalized, NoException, original)
NormalizedRaisedBare(l, original, h) == [l EXCEPT !.cause[Normalized] = NoException]

\* "raise normalized from None", after the except clause for original has been left.
NormalizedRaised(l, original, h) == RaisedFrom(l, Normalized, NoException, h)

\* What an append that fails with original leaves, and what the facade lets out.
Failed(original, inner, h) ==
    LET l == SinkRaised(link, original, inner, h)
    IN  IF original = Original
        THEN [link |-> NormalizedRaised(l, original, h), exc |-> Normalized]
        ELSE [link |-> l, exc |-> original]

\* _raise_finalisation_error, called while h is handled.
FinalisationRaised(l, failure, h) ==
    RaisedFrom(l, Finalisation, IF failure = Normalized THEN Normalized ELSE NoException, h)

\* A failing append: an AuditPersistenceError, or anything else, raised plainly or out of
\* an except clause.
Failures ==
    {f \in [original : Others \cup {Original}, inner : Others \cup {Original, NoException}] :
        f.original # f.inner}

KeepOriginal(original) ==
    sinkFailure' = IF original = Original THEN Original ELSE sinkFailure

--------------------------------------------------------------------------------
(* intent, the block, and its end. *)

IntentReturns ==
    /\ state = "none"
    /\ state' = "open"
    /\ UNCHANGED <<link, evidence, around, handler, flight, stored, sinkFailure, body, raises>>

IntentFails ==
    /\ state = "none"
    /\ \E f \in Failures :
          LET failed == Failed(f.original, f.inner, around)
          IN  /\ link' = failed.link
              /\ flight' = failed.exc
              /\ KeepOriginal(f.original)
    /\ state' = "over"
    /\ UNCHANGED <<evidence, around, handler, stored, body, raises>>

InBlock == state \in {"open", "failed", "finalised"}
Handled == IF handler # NoException THEN handler ELSE around

\* The block's code raises: anew, from the exception it handles, or that one again.  An
\* exception raised in an except clause leaves it.
ApplicationRaises ==
    /\ InBlock
    /\ flight = NoException
    /\ raises < MaxRaises
    /\ raises' = raises + 1
    /\ \E x \in Others :
          /\ flight' = x
          /\ \/ link' = Raised(link, x, Handled)
             \/ handler # NoException /\ link' = RaisedFrom(link, x, handler, Handled)
    /\ handler' = NoException
    /\ UNCHANGED <<evidence, around, state, stored, sinkFailure, body>>

RaiseAgain ==
    /\ InBlock
    /\ handler # NoException
    /\ flight = NoException
    /\ flight' = handler
    /\ handler' = NoException
    /\ UNCHANGED <<link, evidence, around, state, stored, sinkFailure, body, raises>>

\* An except clause inside the block catches.
Catch ==
    /\ InBlock
    /\ flight # NoException
    /\ handler = NoException
    /\ handler' = flight
    /\ flight' = NoException
    /\ UNCHANGED <<link, evidence, around, state, stored, sinkFailure, body, raises>>

LeaveHandler ==
    /\ InBlock
    /\ handler # NoException
    /\ handler' = NoException
    /\ UNCHANGED <<link, evidence, around, flight, state, stored, sinkFailure, body, raises>>

\* success, failure or indeterminate, called by the block's code.
FinaliseReturns ==
    /\ state = "open"
    /\ flight = NoException
    /\ state' = "finalised"
    /\ UNCHANGED <<link, evidence, around, handler, flight, stored, sinkFailure, body, raises>>

FinaliseFails ==
    /\ state = "open"
    /\ flight = NoException
    /\ \E f \in Failures :
          LET failed == Failed(f.original, f.inner, Handled)
          IN  /\ link' = failed.link
              /\ flight' = failed.exc
              /\ stored' = failed.exc
              /\ KeepOriginal(f.original)
    /\ handler' = NoException
    /\ state' = "failed"
    /\ UNCHANGED <<evidence, around, body, raises>>

Leave == InBlock /\ handler = NoException /\ state' = "over"

\* __exit__, FINALISED; or the stored failure is itself what propagates.
ExitUnchanged ==
    /\ Leave
    /\ state = "finalised" \/ (state = "failed" /\ flight = stored)
    /\ UNCHANGED <<link, evidence, around, handler, flight, stored, sinkFailure, body, raises>>

\* __exit__, FINALISATION_FAILED and nothing propagating: the stored failure again.
ExitSwallowed ==
    /\ Leave
    /\ state = "failed"
    /\ flight = NoException
    /\ flight' = stored
    /\ link' = Raised(link, stored, around)
    /\ UNCHANGED <<evidence, around, handler, stored, sinkFailure, body, raises>>

\* __exit__, FINALISATION_FAILED and another exception propagating.
ExitDual ==
    /\ Leave
    /\ state = "failed"
    /\ flight \notin {NoException, stored}
    /\ link' = FinalisationRaised(link, stored, flight)
    /\ flight' = Finalisation
    /\ body' = flight
    /\ UNCHANGED <<evidence, around, handler, stored, sinkFailure, raises>>

\* __exit__, OPEN and nothing propagating: "raise AuditUsageError from None".
ExitForgotten ==
    /\ Leave
    /\ state = "open"
    /\ flight = NoException
    /\ flight' = Usage
    /\ link' = RaisedFrom(link, Usage, NoException, around)
    /\ UNCHANGED <<evidence, around, handler, stored, sinkFailure, body, raises>>

\* __exit__, OPEN and an exception propagating: the automatic indeterminate is recorded,
\* fails (dual failure, raised inside the except clause for that failure), or is
\* interrupted by what is no Exception, which propagates as it is.
ExitAutomatic ==
    /\ Leave
    /\ state = "open"
    /\ flight # NoException
    /\ \/ UNCHANGED <<link, flight, stored, sinkFailure, body>>
       \/ \E f \in Failures :
             LET failed == Failed(f.original, f.inner, flight)
             IN  /\ stored' = failed.exc
                 /\ KeepOriginal(f.original)
                 /\ \/ /\ link' = FinalisationRaised(failed.link, failed.exc, failed.exc)
                       /\ flight' = Finalisation
                       /\ body' = flight
                    \/ /\ f.original # Original
                       /\ link' = failed.link
                       /\ flight' = failed.exc
                       /\ UNCHANGED body
    /\ UNCHANGED <<evidence, around, handler, raises>>

\* Whoever catches what left the operation builds evidence for it.
Report ==
    /\ state = "over"
    /\ flight # NoException
    /\ StartWalk(flight)
    /\ UNCHANGED <<link, operation>>

Next ==
    \/ IntentReturns \/ IntentFails
    \/ ApplicationRaises \/ RaiseAgain \/ Catch \/ LeaveHandler
    \/ FinaliseReturns \/ FinaliseFails
    \/ ExitUnchanged \/ ExitSwallowed \/ ExitDual \/ ExitForgotten \/ ExitAutomatic
    \/ Report
    \/ Walk /\ UNCHANGED operation

Spec == Init /\ [][Next]_vars

--------------------------------------------------------------------------------
(* What the audit facade promises of its exceptions. *)

\* The type invariant of the links, the walk and the operation.
TypeOK ==
    /\ WalkTypeOK
    /\ around \in Others \cup {NoException}
    /\ handler \in Exceptions \cup {NoException}
    /\ flight \in Exceptions \cup {NoException}
    /\ state \in {"none", "open", "failed", "finalised", "over"}
    /\ stored \in Others \cup {Normalized, NoException}
    /\ sinkFailure \in {Original, NoException}
    /\ body \in Exceptions \cup {NoException}
    /\ raises \in 0..MaxRaises

\* The sink's own exception, once normalized, is in no evidence: neither it nor its
\* message is reachable from anything that leaves the operation, wherever the failure
\* happened and whatever was caught and raised around it (audit.py:237-247).
OriginalStaysOffChain ==
    sinkFailure # NoException => sinkFailure \notin Recorded

\* The exception that left the block is in the evidence of the AuditFinalisationError
\* that took its place.  Behind a persistence failure it is one of the first three;
\* behind a failure of the sink's own making only the cap may hide it
\* (audit.py:410-416).
BodyIsLocated ==
    Built /\ raised = Finalisation =>
        \/ \E k \in 1..Len(chain) :
              chain[k].exc = body /\ (stored = Normalized => k <= 3)
        \/ truncated /\ stored # Normalized

================================================================================
