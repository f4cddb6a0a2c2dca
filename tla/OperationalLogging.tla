-------------------------- MODULE OperationalLogging --------------------------
(***************************************************************************)
(* The fail-open operational path: OperationalLog (operational.py), the    *)
(* LoggingHealth it reports to (health.py) and its StderrFallback          *)
(* (sinks/stderr.py), one of each shared by the threads of a process.      *)
(*                                                                         *)
(* An emitting call is its input's fate: what the registry, the field      *)
(* guard, the clock and the encoder make of it.  The sink is JsonlSink     *)
(* seen from outside: it writes, raises SinkError, or raises               *)
(* EventSchemaError for a record it cannot encode.                         *)
(*                                                                         *)
(* Interleaving is CPython's: a thread can lose the processor around a     *)
(* call into C (a write, a clock, a lock), not between the test and the    *)
(* set of StderrFallback._reentrant.  Abstracted: record contents, the     *)
(* wording of the fallback line, a stream whose write emits again (it      *)
(* returns at once and changes nothing).                                   *)
(***************************************************************************)
EXTENDS Integers, Sequences, FiniteSets

CONSTANTS
    Threads,  \* threads that log
    Inputs,   \* the fates of the calls they make, see AllInputs
    MaxLines, \* StderrFallback._max_lines
    Window,   \* StderrFallback._window_seconds
    MaxCalls, \* bound: calls in a behaviour
    MaxTime   \* bound: ticks of the monotonic clock

\* "valid" may be written or meet a SinkError; "malformed" is an unknown event, a field
\* or severity the schema refuses, or a broken clock, all found before the sink is asked;
\* "oversize" also stands for a record that is not UTF-8 encodable; "huge_int" is an int
\* field of more digits than str() and json.dumps agree to convert, which nothing before
\* the encoder refuses.
AllInputs == {"valid", "malformed", "oversize", "huge_int"}

ASSUME ThreadsAssumption == IsFiniteSet(Threads)
ASSUME InputsAssumption == Inputs \subseteq AllInputs
ASSUME BoundsAssumption ==
    /\ MaxLines \in Nat
    /\ Window \in Nat \ {0}
    /\ MaxCalls \in Nat
    /\ MaxTime \in Nat

VARIABLES
    strict,      \* OperationalLog._strict
    pc,          \* where each thread is in its call
    input,       \* the input of the call each thread is in
    issued,      \* calls made
    returned,    \* calls that returned to their caller
    raised,      \* inputs of the calls that raised into their caller
    records,     \* records the sink has written
    degraded,    \* LoggingHealth._degraded
    failures,    \* LoggingHealth._total_failures
    recoveries,  \* LoggingHealth._total_recoveries
    time,        \* the monotonic clock
    windowStart, \* StderrFallback._window_start
    count,       \* StderrFallback._count
    suppressing, \* StderrFallback._suppressing
    reentrant,   \* StderrFallback._reentrant
    lines        \* the times at which fallback lines were written

calls == <<pc, input, issued, returned, raised>>
health == <<degraded, failures, recoveries>>
budget == <<windowStart, count, suppressing>>
vars == <<strict, calls, records, health, time, budget, reentrant, lines>>

Init ==
    /\ strict \in BOOLEAN
    /\ pc = [t \in Threads |-> "idle"]
    /\ input = [t \in Threads |-> "none"]
    /\ issued = 0
    /\ returned = 0
    /\ raised = {}
    /\ records = 0
    /\ degraded = FALSE
    /\ failures = 0
    /\ recoveries = 0
    /\ time = 0
    /\ windowStart = 0
    /\ count = 0
    /\ suppressing = FALSE
    /\ reentrant = FALSE
    /\ lines = <<>>

--------------------------------------------------------------------------------
(* OperationalLog._emit, _write, _handle_defect and _emit_defect_record. *)

Goto(t, place) == pc' = [pc EXCEPT ![t] = place]

Return(t) ==
    /\ Goto(t, "idle")
    /\ input' = [input EXCEPT ![t] = "none"]
    /\ returned' = returned + 1
    /\ UNCHANGED <<issued, raised>>

Escape(t) ==
    /\ Goto(t, "idle")
    /\ input' = [input EXCEPT ![t] = "none"]
    /\ raised' = raised \cup {input[t]}
    /\ UNCHANGED <<issued, returned>>

Proceed(t, place) ==
    /\ Goto(t, place)
    /\ UNCHANGED <<input, issued, returned, raised>>

\* info, warning, error or critical is called.
Call(t, i) ==
    /\ pc[t] = "idle"
    /\ issued < MaxCalls
    /\ issued' = issued + 1
    /\ input' = [input EXCEPT ![t] = i]
    /\ Goto(t, "emit")
    /\ UNCHANGED <<strict, returned, raised, records, health, time, budget, reentrant, lines>>

\* _handle_defect: strict raises, otherwise a record of the package's own is written.
HandleDefect(t) == IF strict THEN Escape(t) ELSE Proceed(t, "defect")

\* The registry, the field guard, and the record with its timestamp.
Emit(t) ==
    /\ pc[t] = "emit"
    /\ IF input[t] = "malformed" THEN HandleDefect(t) ELSE Proceed(t, "write")
    /\ UNCHANGED <<strict, records, health, time, budget, reentrant, lines>>

\* The sink takes the record, or fails to.
Wrote == records' = records + 1
Failed == UNCHANGED records

\* Mutated form of WriteRecord: strict surfaces a sink failure as well.
WriteRecordStrictly(t) ==
    /\ pc[t] = "write"
    /\ \/ input[t] = "valid" /\ Wrote /\ Proceed(t, "healthy")
       \/ input[t] = "valid" /\ Failed /\ (IF strict THEN Escape(t) ELSE Proceed(t, "degrade"))
       \/ input[t] = "oversize" /\ HandleDefect(t) /\ UNCHANGED records
       \/ input[t] = "huge_int" /\ Escape(t) /\ UNCHANGED records
    /\ UNCHANGED <<strict, health, time, budget, reentrant, lines>>

\* _write: SinkError degrades, EventSchemaError is a defect, and the ValueError of the
\* encoder is neither.
WriteRecord(t) ==
    /\ pc[t] = "write"
    /\ \/ input[t] = "valid" /\ Wrote /\ Proceed(t, "healthy")
       \/ input[t] = "valid" /\ Failed /\ Proceed(t, "degrade")
       \/ input[t] = "oversize" /\ HandleDefect(t) /\ UNCHANGED records
       \/ input[t] = "huge_int" /\ Escape(t) /\ UNCHANGED records
    /\ UNCHANGED <<strict, health, time, budget, reentrant, lines>>

\* Mutated forms of WriteDefect: a defect record that fails is emitted again; and it is
\* passed over in silence.
WriteDefectRecursing(t) ==
    /\ pc[t] = "defect"
    /\ \/ Wrote /\ Proceed(t, "healthy")
       \/ Failed /\ Proceed(t, "emit")
    /\ UNCHANGED <<strict, health, time, budget, reentrant, lines>>

WriteDefectSilently(t) ==
    /\ pc[t] = "defect"
    /\ \/ Wrote /\ Proceed(t, "healthy")
       \/ Failed /\ Return(t)
    /\ UNCHANGED <<strict, health, time, budget, reentrant, lines>>

\* _emit_defect_record: a broken clock stops it before the sink, anything else that
\* fails does so in the sink; either way it degrades and does not recurse.
WriteDefect(t) ==
    /\ pc[t] = "defect"
    /\ \/ Wrote /\ Proceed(t, "healthy")
       \/ Failed /\ Proceed(t, "degrade")
    /\ UNCHANGED <<strict, health, time, budget, reentrant, lines>>

--------------------------------------------------------------------------------
(* LoggingHealth.mark_healthy and mark_degraded, each under its lock. *)

\* Mutated form of MarkHealthy: every success counts as a recovery.
MarkHealthyAlways(t) ==
    /\ pc[t] = "healthy"
    /\ degraded' = FALSE
    /\ recoveries' = recoveries + 1
    /\ Return(t)
    /\ UNCHANGED <<strict, records, failures, time, budget, reentrant, lines>>

MarkHealthy(t) ==
    /\ pc[t] = "healthy"
    /\ degraded' = FALSE
    /\ recoveries' = IF degraded THEN recoveries + 1 ELSE recoveries
    /\ Return(t)
    /\ UNCHANGED <<strict, records, failures, time, budget, reentrant, lines>>

MarkDegraded(t) ==
    /\ pc[t] = "degrade"
    /\ degraded' = TRUE
    /\ failures' = failures + 1
    /\ Proceed(t, "fallback")
    /\ UNCHANGED <<strict, records, recoveries, time, budget, reentrant, lines>>

--------------------------------------------------------------------------------
(* StderrFallback.emit. *)

\* A line that finds another being emitted is dropped.
EnterFallback(t) ==
    /\ pc[t] = "fallback"
    /\ IF reentrant THEN Return(t) /\ UNCHANGED reentrant
       ELSE Proceed(t, "allow") /\ reentrant' = TRUE
    /\ UNCHANGED <<strict, records, health, time, budget, lines>>

Expired == time - windowStart >= Window

\* Mutated forms of Allow: the budget is one line too large; and a new window does not
\* start now.
AllowOneMore(t) ==
    LET spent == IF Expired THEN 0 ELSE count
        quiet == IF Expired THEN FALSE ELSE suppressing
    IN  /\ pc[t] = "allow"
        /\ windowStart' = IF Expired THEN time ELSE windowStart
        /\ IF spent <= MaxLines
           THEN /\ count' = spent + 1
                /\ suppressing' = quiet
                /\ Proceed(t, "line")
           ELSE /\ count' = spent
                /\ suppressing' = TRUE
                /\ Proceed(t, IF quiet THEN "release" ELSE "line")
        /\ UNCHANGED <<strict, records, health, time, reentrant, lines>>

AllowWithoutRestart(t) ==
    LET spent == IF Expired THEN 0 ELSE count
        quiet == IF Expired THEN FALSE ELSE suppressing
    IN  /\ pc[t] = "allow"
        /\ IF spent < MaxLines
           THEN /\ count' = spent + 1
                /\ suppressing' = quiet
                /\ Proceed(t, "line")
           ELSE /\ count' = spent
                /\ suppressing' = TRUE
                /\ Proceed(t, IF quiet THEN "release" ELSE "line")
        /\ UNCHANGED <<strict, records, health, time, windowStart, reentrant, lines>>

\* _allow: a new window resets the budget; within it MaxLines lines go out, then one
\* summary line, then nothing.
Allow(t) ==
    LET spent == IF Expired THEN 0 ELSE count
        quiet == IF Expired THEN FALSE ELSE suppressing
    IN  /\ pc[t] = "allow"
        /\ windowStart' = IF Expired THEN time ELSE windowStart
        /\ IF spent < MaxLines
           THEN /\ count' = spent + 1
                /\ suppressing' = quiet
                /\ Proceed(t, "line")
           ELSE /\ count' = spent
                /\ suppressing' = TRUE
                /\ Proceed(t, IF quiet THEN "release" ELSE "line")
        /\ UNCHANGED <<strict, records, health, time, reentrant, lines>>

\* Mutated form of WriteLine: a stream that fails is not the end of the emit, which
\* leaves without clearing its flag.
WriteLineWithoutFinally(t) ==
    /\ pc[t] = "line"
    /\ \/ lines' = Append(lines, time) /\ Proceed(t, "release")
       \/ lines' = lines /\ Return(t)
    /\ UNCHANGED <<strict, records, health, time, budget, reentrant>>

\* _write of a line or of the summary, to a stream that may fail.
WriteLine(t) ==
    /\ pc[t] = "line"
    /\ lines' \in {lines, Append(lines, time)}
    /\ Proceed(t, "release")
    /\ UNCHANGED <<strict, records, health, time, budget, reentrant>>

LeaveFallback(t) ==
    /\ pc[t] = "release"
    /\ reentrant' = FALSE
    /\ Return(t)
    /\ UNCHANGED <<strict, records, health, time, budget, lines>>

Tick ==
    /\ time < MaxTime
    /\ time' = time + 1
    /\ UNCHANGED <<strict, calls, records, health, budget, reentrant, lines>>

--------------------------------------------------------------------------------
Step(t) ==
    \/ Emit(t) \/ WriteRecord(t) \/ WriteDefect(t)
    \/ MarkHealthy(t) \/ MarkDegraded(t)
    \/ EnterFallback(t) \/ Allow(t) \/ WriteLine(t) \/ LeaveFallback(t)

Next ==
    \/ \E t \in Threads : Step(t)
    \/ \E t \in Threads, i \in Inputs : Call(t, i)
    \/ Tick

Spec == Init /\ [][Next]_vars

\* Threads are scheduled; nobody need log, and the clock need not be read as moving.
FairSpec == Spec /\ \A t \in Threads : WF_vars(Step(t))

--------------------------------------------------------------------------------
(* What the operational path promises. *)

\* The type invariant of the path, the health object and the fallback.
TypeOK ==
    /\ strict \in BOOLEAN
    /\ pc \in [Threads -> {"idle", "emit", "write", "defect", "healthy", "degrade",
                           "fallback", "allow", "line", "release"}]
    /\ input \in [Threads -> Inputs \cup {"none"}]
    /\ issued \in 0..MaxCalls
    /\ returned \in Nat
    /\ raised \subseteq Inputs
    /\ records \in Nat
    /\ degraded \in BOOLEAN
    /\ failures \in Nat
    /\ recoveries \in Nat
    /\ time \in 0..MaxTime
    /\ windowStart \in 0..time
    /\ count \in 0..MaxLines
    /\ suppressing \in BOOLEAN
    /\ reentrant \in BOOLEAN
    /\ lines \in Seq(0..MaxTime)

\* A sink that fails never raises into the caller, strict or not, and of the defects the
\* code has a handler for none does unless strict (operational.py:166-170, 173-176).
OnlyStrictRaises ==
    /\ "valid" \notin raised
    /\ raised \ {"huge_int"} # {} => strict

\* What operational.py:5-10 says of a malformed call, whatever is wrong with it: without
\* strict it returns normally.
ContainedUnlessStrict == raised # {} => strict

Quiet == \A t \in Threads : pc[t] = "idle"

\* Nothing is lost unseen: of the calls that returned, each left one record in the sink,
\* its own or a defect record in its stead, or one failure in the health counters.
EveryCallAccounted == Quiet => returned = records + failures

\* Recoveries never outrun failures, and a degraded log has one to recover from, so a
\* poller can tell churn from a present fault (health.py:21-24).
CountersAgree ==
    /\ recoveries <= failures
    /\ degraded => recoveries < failures

InFallback(t) == pc[t] \in {"allow", "line", "release"}

\* One thread at a time emits a fallback line, and the flag that keeps the others out
\* never outlives it: a stream that fails does not silence the channel
\* (stderr.py:67-77).
FallbackHasOneOwner ==
    /\ reentrant <=> \E t \in Threads : InFallback(t)
    /\ \A t, u \in Threads : InFallback(t) /\ InFallback(u) => t = u

\* However failures, windows and slow writes fall, more than two windows' worth of lines
\* takes longer than one window (stderr.py:9-12).
BoundedVolume ==
    \A k \in 1..Len(lines) :
        LET later == k + 2 * (MaxLines + 1)
        IN  later <= Len(lines) => lines[later] - lines[k] >= Window

\* A logging call comes back to its caller whatever the sink, the encoder, the clock and
\* stderr do: containing a defect never leads to containing another.
EveryCallReturns == \A t \in Threads : pc[t] # "idle" ~> pc[t] = "idle"

================================================================================
