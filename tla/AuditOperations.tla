---------------------------- MODULE AuditOperations ----------------------------
(***************************************************************************)
(* AuditLog and AuditOperation (audit.py): durable intent, one outcome,    *)
(* and the with-block that refuses to lose an audit failure.               *)
(*                                                                         *)
(* The sink is what interfaces.AuditSink allows: an append returns once    *)
(* the record is durable, or raises, and an append that raised may or may  *)
(* not have left its record in the trail (StreamSinks shows how the file   *)
(* sink does both).  The application keeps the standard's side of the      *)
(* bargain (section 9.3): it mutates between intent and outcome, reports   *)
(* success only of an effect that happened and failure only of one that    *)
(* did not.  Around that it raises, catches, nests blocks, repeats outcome *)
(* calls and keeps handles as it likes.                                    *)
(*                                                                         *)
(* Abstracted: field values and messages; the operation id (the operation  *)
(* itself); AuditLog.complete, which always raises.                        *)
(***************************************************************************)
EXTENDS Naturals, Sequences, FiniteSets

CONSTANTS
    Workers,  \* threads of the application
    Ops,      \* audited operations, one call of intent() or operation() each
    NoWorker, \* the owner of an operation not begun
    FieldOps, \* operations whose event declares a required_on_outcome field
    Helpers   \* workers that are given handles of operations others began

ASSUME OwnershipAssumption == NoWorker \notin Workers
ASSUME SubsetAssumption == FieldOps \subseteq Ops /\ Helpers \subseteq Workers

Outcomes == {"success", "failure", "indeterminate"}
Forms == {"handle", "with intent", "with operation"}
\* How an append ends: "persistence" is AuditPersistenceError, "schema" EventSchemaError,
\* "other" any other Exception (a broken clock, a foreign sink error), "interrupt" a
\* BaseException that is not an Exception.
Endings == {"ok", "persistence", "schema", "other", "interrupt"}
Appends ==
    {a \in [ending : Endings, left : BOOLEAN] :
        /\ a.ending = "ok" => a.left
        /\ a.ending = "schema" => ~a.left}

\* Exceptions by what __exit__ can tell apart: the failure an operation has stored, its
\* AuditFinalisationError, an AuditUsageError, and everything else.
NoException == [kind |-> "none"]
Foreign == [kind |-> "foreign"]
Usage == [kind |-> "usage"]
Stored(op) == [kind |-> "stored", op |-> op]
Dual(op) == [kind |-> "dual", op |-> op]
Exceptions == {NoException, Foreign, Usage} \cup [kind : {"stored", "dual"}, op : Ops]

NoCall == [at |-> "nowhere"]
OutcomeCalls == [at : {"check", "append"}, op : Ops, outcome : Outcomes, automatic : BOOLEAN]

VARIABLES
    state,    \* AuditOperation._state; "unused" and "rejected" when there is no handle
    stored,   \* the type of _finalisation_exception
    owner,    \* the worker that began the operation
    trail,    \* the records in the stream, in order
    acked,    \* the records whose append returned
    effect,   \* whether the audited mutation has happened
    blocks,   \* blocks[w]: the with-blocks w is in, innermost last
    flight,   \* flight[w]: the exception propagating through w's code
    call,     \* call[w]: the _finalise call w is in
    left      \* how the with-block of an operation ended

vars == <<state, stored, owner, trail, acked, effect, blocks, flight, call, left>>

Init ==
    /\ state = [op \in Ops |-> "unused"]
    /\ stored = [op \in Ops |-> "none"]
    /\ owner = [op \in Ops |-> NoWorker]
    /\ trail = <<>>
    /\ acked = {}
    /\ effect = [op \in Ops |-> FALSE]
    /\ blocks = [w \in Workers |-> <<>>]
    /\ flight = [w \in Workers |-> NoException]
    /\ call = [w \in Workers |-> NoCall]
    /\ left = [op \in Ops |-> "no"]

--------------------------------------------------------------------------------
(* The sink, and the application's control flow. *)

Entry(op, what) == [op |-> op, what |-> what]

\* The sink is given a record and ends the append in way a.
Deliver(record, a) ==
    /\ trail' = IF a.left THEN Append(trail, record) ELSE trail
    /\ acked' = IF a.ending = "ok" THEN acked \cup {record} ELSE acked

Raise(w, exception) == flight' = [flight EXCEPT ![w] = exception]

\* The code of w's innermost block, or of w outside any block, is running normally.
Running(w) == flight[w] = NoException /\ call[w] = NoCall

\* Code raises an exception of its own: the mutation fails, a signal arrives.
RaiseForeign(w) ==
    /\ Running(w)
    /\ Raise(w, Foreign)
    /\ UNCHANGED <<state, stored, owner, trail, acked, effect, blocks, call, left>>

\* A try statement of the application, inside a block or outside all, catches it.
Catch(w) ==
    /\ flight[w] # NoException
    /\ call[w] = NoCall
    /\ Raise(w, NoException)
    /\ UNCHANGED <<state, stored, owner, trail, acked, effect, blocks, call, left>>

\* The audited mutation: after its intent, before any outcome is reported.
Mutate(w, op) ==
    /\ Running(w)
    /\ owner[op] = w
    /\ state[op] = "open"
    /\ effect' = [effect EXCEPT ![op] = TRUE]
    /\ UNCHANGED <<state, stored, owner, trail, acked, blocks, flight, call, left>>

--------------------------------------------------------------------------------
(* AuditLog.intent and AuditLog.operation. *)

\* operation() refuses, before anything is written, an event whose automatic outcome
\* could not satisfy its schema.
Vetoes(op, form) == form = "with operation" /\ op \in FieldOps

\* Mutated form of HandleAfter: a persistence failure of the intent is let pass.
HandleAfterFailOpen(a) == a.ending \in {"ok", "persistence"}

\* A handle comes into being only when the append of the intent has returned.
HandleAfter(a) == a.ending = "ok"

Begin(w, op, form, a) ==
    /\ Running(w)
    /\ state[op] = "unused"
    /\ owner' = [owner EXCEPT ![op] = w]
    /\ IF Vetoes(op, form)
       THEN /\ state' = [state EXCEPT ![op] = "rejected"]
            /\ Raise(w, Usage)
            /\ UNCHANGED <<trail, acked, blocks>>
       ELSE /\ Deliver(Entry(op, "intent"), a)
            /\ IF HandleAfter(a)
               THEN /\ state' = [state EXCEPT ![op] = "open"]
                    /\ blocks' = IF form = "handle" THEN blocks
                                 ELSE [blocks EXCEPT ![w] = Append(@, op)]
                    /\ UNCHANGED flight
               ELSE /\ state' = [state EXCEPT ![op] = "rejected"]
                    /\ Raise(w, Foreign)
                    /\ UNCHANGED blocks
    /\ UNCHANGED <<stored, effect, call, left>>

--------------------------------------------------------------------------------
(* AuditOperation.success, failure and indeterminate: _finalise. *)

\* What the application may report of an operation, by section 9.3.
MayReport(op, outcome) ==
    /\ outcome = "success" => effect[op]
    /\ outcome = "failure" => ~effect[op]

CallOutcome(w, op, outcome) ==
    /\ Running(w)
    /\ state[op] \in {"open", "finalised", "failed"}
    /\ owner[op] = w \/ w \in Helpers
    /\ MayReport(op, outcome)
    /\ call' = [call EXCEPT ![w] = [at |-> "check", op |-> op, outcome |-> outcome,
                                    automatic |-> FALSE]]
    /\ UNCHANGED <<state, stored, owner, trail, acked, effect, blocks, flight, left>>

\* The block of op ends in way how, with the exception e leaving it.
LeaveBlock(w, op, how, e) ==
    /\ blocks' = [blocks EXCEPT ![w] = SubSeq(@, 1, Len(@) - 1)]
    /\ left' = [left EXCEPT ![op] = how]
    /\ Raise(w, e)

\* The _finalise call of w raises e.  One made by __exit__ is inside its try statement:
\* an Exception becomes AuditFinalisationError, an interrupt passes through.
FailCall(w, e, isInterrupt) ==
    /\ call' = [call EXCEPT ![w] = NoCall]
    /\ IF call[w].automatic
       THEN IF isInterrupt THEN LeaveBlock(w, call[w].op, "stored", e)
            ELSE LeaveBlock(w, call[w].op, "dual", Dual(call[w].op))
       ELSE /\ Raise(w, e)
            /\ UNCHANGED <<blocks, left>>

\* _finalise: only an OPEN operation goes on to the sink.
CheckState(w) ==
    /\ call[w].at = "check"
    /\ IF state[call[w].op] = "open"
       THEN /\ call' = [call EXCEPT ![w].at = "append"]
            /\ UNCHANGED <<blocks, left, flight>>
       ELSE FailCall(w, Usage, FALSE)
    /\ UNCHANGED <<state, stored, owner, trail, acked, effect>>

\* The automatic outcome carries no fields: an event that wants one refuses it before the
\* sink is reached.  Any other outcome can end in every way, "schema" included: an
\* explicit one has fields of its own, and a line may be too long.
Possible(w, a) ==
    call[w].automatic /\ call[w].op \in FieldOps =>
        a.ending \in {"schema", "interrupt"} /\ ~a.left

\* Mutated forms of StateAfter: `except Exception` in _finalise, which an interrupt
\* passes; and the state named after the failure, for which __exit__ has no branch.
StateAfterExceptionOnly(a) ==
    IF a.ending = "ok" THEN "finalised"
    ELSE IF a.ending = "interrupt" THEN "open" ELSE "failed"

StateAfterByKind(a) == IF a.ending = "ok" THEN "finalised" ELSE a.ending

\* The state an outcome append leaves the operation in.
StateAfter(a) == IF a.ending = "ok" THEN "finalised" ELSE "failed"

AppendOutcome(w, a) ==
    LET op == call[w].op
    IN  /\ call[w].at = "append"
        /\ Possible(w, a)
        /\ Deliver(Entry(op, call[w].outcome), a)
        /\ state' = [state EXCEPT ![op] = StateAfter(a)]
        /\ IF a.ending = "ok"
           THEN /\ call' = [call EXCEPT ![w] = NoCall]
                /\ IF call[w].automatic THEN LeaveBlock(w, op, "body", flight[w])
                   ELSE UNCHANGED <<blocks, left, flight>>
                /\ UNCHANGED stored
           ELSE /\ stored' = [stored EXCEPT ![op] = a.ending]
                /\ FailCall(w, Stored(op), a.ending = "interrupt")
        /\ UNCHANGED <<owner, effect>>

--------------------------------------------------------------------------------
(* AuditOperation.__exit__ of the innermost block, the exception in flight its exc. *)

Innermost(w) == blocks[w][Len(blocks[w])]
AtExit(w) == call[w] = NoCall /\ blocks[w] # <<>>

\* The recorded outcome stands; whatever is in flight goes on.
ExitFinalised(w) ==
    /\ AtExit(w)
    /\ state[Innermost(w)] = "finalised"
    /\ LeaveBlock(w, Innermost(w), IF flight[w] = NoException THEN "clean" ELSE "body", flight[w])
    /\ UNCHANGED <<state, stored, owner, trail, acked, effect, call>>

\* Mutated forms of ExitFailed: a caught failure stays swallowed; a body exception hides
\* the failure.
ExitFailedSwallowing(w) ==
    /\ AtExit(w)
    /\ state[Innermost(w)] = "failed"
    /\ LeaveBlock(w, Innermost(w), IF flight[w] = NoException THEN "clean" ELSE "dual", flight[w])
    /\ UNCHANGED <<state, stored, owner, trail, acked, effect, call>>

ExitFailedHiding(w) ==
    /\ AtExit(w)
    /\ state[Innermost(w)] = "failed"
    /\ IF flight[w] \in {NoException, Stored(Innermost(w))}
       THEN LeaveBlock(w, Innermost(w), "stored", Stored(Innermost(w)))
       ELSE LeaveBlock(w, Innermost(w), "usage", flight[w])
    /\ UNCHANGED <<state, stored, owner, trail, acked, effect, call>>

\* The stored failure is raised again, or goes on; beside another exception it becomes
\* AuditFinalisationError.
ExitFailed(w) ==
    /\ AtExit(w)
    /\ state[Innermost(w)] = "failed"
    /\ IF flight[w] \in {NoException, Stored(Innermost(w))}
       THEN LeaveBlock(w, Innermost(w), "stored", Stored(Innermost(w)))
       ELSE LeaveBlock(w, Innermost(w), "dual", Dual(Innermost(w)))
    /\ UNCHANGED <<state, stored, owner, trail, acked, effect, call>>

\* A clean exit without an outcome: nothing is fabricated, the caller is told.
ExitForgotten(w) ==
    /\ AtExit(w)
    /\ state[Innermost(w)] = "open"
    /\ flight[w] = NoException
    /\ LeaveBlock(w, Innermost(w), "usage", Usage)
    /\ UNCHANGED <<state, stored, owner, trail, acked, effect, call>>

\* Mutated forms of ExitEscaped: the automatic outcome claims that the effect did not
\* happen; and it is attempted even of an operation whose outcome stands.
ExitEscapedAsFailure(w) ==
    /\ AtExit(w)
    /\ state[Innermost(w)] = "open"
    /\ flight[w] # NoException
    /\ call' = [call EXCEPT ![w] = [at |-> "check", op |-> Innermost(w),
                                    outcome |-> "failure", automatic |-> TRUE]]
    /\ UNCHANGED <<state, stored, owner, trail, acked, effect, blocks, flight, left>>

ExitEscapedAlways(w) ==
    /\ AtExit(w)
    /\ flight[w] # NoException
    /\ call' = [call EXCEPT ![w] = [at |-> "check", op |-> Innermost(w),
                                    outcome |-> "indeterminate", automatic |-> TRUE]]
    /\ UNCHANGED <<state, stored, owner, trail, acked, effect, blocks, flight, left>>

\* An exception escapes an open operation: the automatic indeterminate.
ExitEscaped(w) ==
    /\ AtExit(w)
    /\ state[Innermost(w)] = "open"
    /\ flight[w] # NoException
    /\ call' = [call EXCEPT ![w] = [at |-> "check", op |-> Innermost(w),
                                    outcome |-> "indeterminate", automatic |-> TRUE]]
    /\ UNCHANGED <<state, stored, owner, trail, acked, effect, blocks, flight, left>>

--------------------------------------------------------------------------------
(* The environment. *)

\* What a durable sink keeps through a crash: every record whose append returned.
Survives(n) == \A record \in acked : \E k \in 1..n : trail[k] = record

\* The process dies: code, handles and exceptions are gone, and with them the end of the
\* stream as far as nobody was told of it.  Nothing takes an operation up again: its state
\* is what became of it, and an open one is an orphaned intent from here on.
Crash ==
    /\ \E n \in 0..Len(trail) : Survives(n) /\ trail' = SubSeq(trail, 1, n)
    /\ owner' = [op \in Ops |-> NoWorker]
    /\ blocks' = [w \in Workers |-> <<>>]
    /\ flight' = [w \in Workers |-> NoException]
    /\ call' = [w \in Workers |-> NoCall]
    /\ UNCHANGED <<state, stored, acked, effect, left>>

--------------------------------------------------------------------------------
Body(w) ==
    \/ RaiseForeign(w) \/ Catch(w)
    \/ \E op \in Ops : Mutate(w, op)
    \/ \E op \in Ops, form \in Forms, a \in Appends : Begin(w, op, form, a)
    \/ \E op \in Ops, outcome \in Outcomes : CallOutcome(w, op, outcome)

Library(w) ==
    \/ CheckState(w)
    \/ \E a \in Appends : AppendOutcome(w, a)
    \/ ExitFinalised(w) \/ ExitFailed(w) \/ ExitForgotten(w) \/ ExitEscaped(w)

Next ==
    \/ \E w \in Workers : Body(w) \/ Library(w)
    \/ Crash

Spec == Init /\ [][Next]_vars

--------------------------------------------------------------------------------
(* What the audit path promises. *)

Records == [op : Ops, what : {"intent"} \cup Outcomes]

\* The type invariant of the operations and of the code around them.
TypeOK ==
    /\ state \in [Ops -> {"unused", "rejected", "open", "finalised", "failed"}]
    /\ stored \in [Ops -> {"none"} \cup (Endings \ {"ok"})]
    /\ owner \in [Ops -> Workers \cup {NoWorker}]
    /\ trail \in Seq(Records)
    /\ acked \subseteq Records
    /\ effect \in [Ops -> BOOLEAN]
    /\ blocks \in [Workers -> Seq(Ops)]
    /\ flight \in [Workers -> Exceptions]
    /\ call \in [Workers -> {NoCall} \cup OutcomeCalls]
    /\ left \in [Ops -> {"no", "clean", "body", "usage", "stored", "dual"}]

IsOutcome(record, op) == record.op = op /\ record.what \in Outcomes

\* Exactly one outcome is ever recorded of an operation, even when the sink raised after
\* the record had reached the stream (audit.py:260-265, 320-326).
AtMostOneOutcome ==
    \A op \in Ops : \A j, k \in 1..Len(trail) :
        IsOutcome(trail[j], op) /\ IsOutcome(trail[k], op) => j = k

\* Nothing happens without accountable intent: an effect, and an outcome in the stream,
\* come after an intent of the same operation whose append returned, and whatever crash
\* takes the rest, the stream still holds it (audit.py:121-127).
NothingWithoutDurableIntent ==
    /\ \A op \in Ops : effect[op] =>
          /\ Entry(op, "intent") \in acked
          /\ \E k \in 1..Len(trail) : trail[k] = Entry(op, "intent")
    /\ \A k \in 1..Len(trail) : trail[k].what \in Outcomes =>
          /\ Entry(trail[k].op, "intent") \in acked
          /\ \E j \in 1..(k - 1) : trail[j] = Entry(trail[k].op, "intent")

\* The stream never claims more than the application knew: success only of an effect
\* that happened, failure only of one that did not, and nothing fabricated by an exit
\* (audit.py:29-34).
OutcomesTruthful ==
    \A k \in 1..Len(trail) :
        /\ trail[k].what = "success" => effect[trail[k].op]
        /\ trail[k].what = "failure" => ~effect[trail[k].op]

\* A block that ends normally, or with the body's own exception, has a durable outcome:
\* an exit that is silent about the audit means there was nothing to say, then or after
\* a crash (audit.py:267-274).
SilentExitMeansRecorded ==
    \A op \in Ops : left[op] \in {"clean", "body"} =>
        \E outcome \in Outcomes :
            /\ Entry(op, outcome) \in acked
            /\ \E k \in 1..Len(trail) : trail[k] = Entry(op, outcome)

\* An exit that reports a finalisation failure tells the truth: the operation holds one,
\* and no outcome of it was acknowledged.  This is weaker than the "without a recorded
\* outcome" of exceptions.py:88-93: the append that failed may have left its record.
ReportedFailureIsReal ==
    \A op \in Ops : left[op] \in {"stored", "dual"} =>
        /\ state[op] = "failed"
        /\ stored[op] # "none"
        /\ \A outcome \in Outcomes : Entry(op, outcome) \notin acked

\* A finalisation failure cannot be lost: whatever the body caught or raised meanwhile,
\* leaving the block of a failed operation raises that failure or AuditFinalisationError,
\* and an AuditUsageError never takes its place (audit.py:361-370, exceptions.py:82-84).
FailureSurfaces ==
    [][\A op \in Ops : left[op] = "no" /\ left'[op] # "no" /\ state'[op] = "failed" =>
           left'[op] \in {"stored", "dual"}]_vars

\* An operation that is finalised or failed stays so and adds nothing to the stream:
\* no outcome is attempted twice, by the application or by an exit (audit.py:307-313).
SettledForGood ==
    [][\A op \in Ops : state[op] \in {"finalised", "failed"} =>
           /\ state'[op] = state[op]
           /\ \A k \in (Len(trail) + 1)..Len(trail') : trail'[k].op # op]_vars

================================================================================
