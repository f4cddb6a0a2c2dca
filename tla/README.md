# A verification development of nm-logging

nm-logging is a Python library with two logging paths over JSONL files: an
operational path that fails *open* (the caller never sees a logging failure) and
an audit path that fails *hard* (no mutation without a durable record of its
intent). This directory models both in TLA+, checks the models with TLC, and
proves every safety property of the passing runs with TLAPS, the implementation of
the sinks' promise included. Paths below are relative to the
repository; `src/nm_logging/` is written without its prefix.

- [Inventory of the system](#inventory-of-the-system)
- [The modules](#the-modules)
- [What each run checks](#what-each-run-checks)
- [The promise and its implementation](#the-promise-and-its-implementation)
- [What is proved](#what-is-proved)
- [Abstractions and assumptions](#abstractions-and-assumptions)
- [What is not modelled](#what-is-not-modelled)
- [Plan](#plan)

## Inventory of the system

| Part | State it keeps | Operations | Talks to |
|---|---|---|---|
| Stream table, `sinks/_streams.py` | `_STREAMS`: per file identity (st_dev, st_ino) a lock, a latch, the stream kind; `_GUARD` | `identity`, `register`, `write_completely` | the file system; both file sinks |
| `JsonlSink`, `sinks/jsonl.py` | descriptor, closed flag, its entry of the table | constructor, `write`, `close`; the codec `encode` | `_streams`, `serialise` |
| `JsonlAuditSink`, `sinks/jsonl_audit.py` | the same | constructor (with a directory fsync), `append`, `close` | `_streams`, the codec of `jsonl.py` |
| `AuditLog`, `AuditOperation`, `audit.py` | per operation OPEN, FINALISED or FINALISATION_FAILED, and the stored failure | `intent`, `operation`, `complete`, `success`, `failure`, `indeterminate`, `__exit__` | registry, record, an `AuditSink` |
| `OperationalLog`, `operational.py` | strict flag, the defect schema | `info` .. `critical`, `_emit`, `_write`, `_handle_defect`, `_emit_defect_record`, `_degrade` | registry, record, a `Sink`, health, fallback |
| `LoggingHealth`, `health.py` | degraded flag, failure and recovery totals, last kind, a lock | `mark_degraded`, `mark_healthy`, `snapshot` | called by the operational path, polled by the application |
| `StderrFallback`, `sinks/stderr.py` | window start, count, suppressing, reentrant flag (no lock) | `emit`, `_allow`, `_write` | stderr, a monotonic clock |
| `EventSchema`, `EventRegistry`, `events.py` | declarations by event id (no lock) | declaration checks, `register`, `register_reserved`, `get`, the field guard, `render_message` | both logs |
| Records, `record.py`; mapping, `serialise.py` | none | validation of the envelope, the fields and the audit shape; `to_mapping` | built by both logs, encoded by both sinks |
| `JsonlReader`, `reader/jsonl.py` | `truncated` | iteration | files the sinks write |
| Evidence, `evidence.py` | none | `build_evidence`: a bounded walk of an exception graph | exceptions of `exceptions.py` |
| `interfaces.py`, `exceptions.py`, `severity.py`, `audit_vocab.py`, `__init__.py` | none | protocols, exception classes, vocabularies, the public names | |

What is hard, and what makes each part correct:

- **Streams and sinks.** Threads and sink instances meet on a file through different
  names; `os.write` returns short; fsync fails; the process dies with bytes in the page
  cache; a symbolic link leads to another directory than the one it is in; an operator
  replaces a file and the kernel reuses its inode number; a signal handler raises in the
  main thread. Correct means: whole records with a torn one at the very end only, a
  latch that is visible before anyone else can append, no two kinds in a file, no write
  through a closed descriptor, an acknowledged audit record that no crash removes, and
  every call returning.
- **Audit operations.** An append that raises may still have written its record; blocks
  nest; bodies catch audit failures or raise others; handles are shared. Correct means:
  one outcome at most, never without durable intent, never an outcome that claims more
  than is known, and no exit that hides a failure.
- **The operational path.** Threads share a health object and an unlocked fallback;
  records fail in the guard, the encoder or the sink; containing one defect may meet
  another. Correct means: only strict raises, every call leaves one trace, the counters
  agree, the fallback has one owner, its volume is bounded, and every call returns.
- **Declarations.** Five layers each check a field value; what one lets through the next
  must not refuse, least of all after a durable intent. What the guard never sees (the
  actor, the text of a template, the length of the line as a whole) only they can
  refuse. Correct means: what is persisted conforms to its declaration, the layers
  behind the guard refuse for no other reasons than these, a broken clock and a huge
  integer, after a durable intent for fewer still, and the defect event can always be
  recorded.

- **The reader.** It takes no lock, reads ahead in pieces that end anywhere, and meets
  files in the middle of an append and after a crash. Correct means: records
  whole and in file order, none passed over, nothing acknowledged missed, and a
  verdict (clean, torn tail, corruption) that is true of the file.
- **Exceptions and evidence.** Python links every exception raised to the one being
  handled. Correct means: the sink's own exception, whose text nobody vouches for,
  is on no chain that leaves the audit facade, the exception of the block is on
  every chain that stands for it, and the bounded walk keeps what is nearest the
  failure and says exactly when something is missing.

`PROJECT.json` lists the hazards of the code, line by line, with the property
that guards each.

## The modules

| Module | Models | State of the module and of the code |
|---|---|---|
| `StreamSinks` | `_streams.py`, `jsonl.py` (sink), `jsonl_audit.py` | `kind`, `latched`, `lock` are the fields of `_STREAMS[f]`; `phase[s]`, `file[s]` an instance and its descriptor; `dir`, `content` the file system now, `savedDir`, `synced` what a crash leaves of it, by directory entry and by file; `Entry[p]`, `Siblings[p]` the entry a path leads to and those of the directory it names; `pc`, `job` the call each thread is in |
| `AuditOperations` | `audit.py`, the exceptions it raises | `state`, `stored` are `_state` and `_finalisation_exception`; `blocks`, `flight`, `call` the application's control flow (its with-blocks, the exception propagating, the `_finalise` call in progress); `trail`, `acked` the audit stream; `effect` whether the mutation has happened |
| `OperationalLogging` | `operational.py`, `health.py`, `stderr.py` | one variable per attribute, plus a program counter per thread and the times of the fallback lines |
| `EventSchemas` | `events.py`, `record.py`, `serialise.py`, `encode` in `jsonl.py`, the registration in `OperationalLog.__init__` | `registry` is `_schemas`; `facade[t]` how far a constructor of `OperationalLog` has come; `begun` the handles that exist, an event and an actor each; `last`, `verdict` follow a call's record through the layers |
| `DurableLog` | what `Sink` and `AuditSink` of `interfaces.py` promise | `status` what the caller of each record was told, `entries` the records of each file, `secured` how much of it a crash leaves |
| `StreamSinksRefinement` | | the mapping under which `StreamSinks` implements `DurableLog` |
| `JsonlReader` (over `StreamSinks`) | `reader/jsonl.py` | `handle`, `fetched`, `taken` the open file, what has been read of it and what has been handed out as lines; `yielded`, `verdict` what the caller got; `due` the acknowledged records there when the iteration began |
| `ExceptionEvidence` | `evidence.py` | `link` the two links of every exception object; `queue`, `visited`, `chain`, `truncated` the locals of `build_evidence` |
| `AuditEvidence` (over `ExceptionEvidence`) | which exception `audit.py` raises while which is handled | `flight`, `handler`, `around` what propagates and what is handled inside and around the block; `state`, `stored`, `sinkFailure`, `body` the attributes of the same or similar name |
| `StreamSinksProofs`, `StreamSinksRefinementProofs`, `DurableLogProofs`, `JsonlReaderProofs`, `AuditOperationsProofs`, `AuditEvidenceProofs`, `OperationalLoggingProofs`, `EventSchemasProofs` | | theorems about the module in the name; `StreamSinksRefinementProofs` extends `StreamSinksProofs`, and `JsonlReaderProofs` both |
| `MCStreamSinks`, `MCJsonlReader`, `MCAuditOperations`, `MCAuditEvidence`, `MCOperationalLogging`, `MCEventSchemas` | | values of constants for TLC |
| `MCOperationalRecovery` | | `OperationalLogging` with a history variable: how the latest write attempt ended |

One action is one step that other threads can observe or interrupt.
`JsonlAuditSink.append` is `Call` (with the encoding, before the lock), `Acquire`,
`Refuse` or `StartWriting` (the two checks), `WriteSome` per positive return of
`os.write` or `StopWriting`, `Fsync`, and `Settle` (the latch, the release of the
lock and the answer); `JsonlSink.write` is the same without `Fsync`.
`_finalise` is `CheckState` and `AppendOutcome`; `__exit__` is one action per
branch; `intent` and `operation` are `Begin`. An emitting call of the operational
path is `Call`, `Emit`, `WriteRecord`, `WriteDefect`, the health updates (each
under its lock, hence one step) and the four steps of `StderrFallback.emit`. An
iteration of the reader is `Iterate`, then `Fetch` (a read of any length, when no
whole line is buffered), `TakeLine` and `Finish`. A turn of the loop of
`build_evidence` is `Skip`, `StopAtCap` or `Record`.

How the modules meet: `AuditOperations` takes of its sink what
`interfaces.AuditSink` allows (an append returns durably, or raises and may or
may not have left its record); `StreamSinks` shows in `AckedAuditDurable` that
the file sink keeps the first half, crashes included, and in the run
`streams_unwritten` that the second half is no excess of caution. The process
death of `AuditOperations` takes from the sink exactly that half: records whose
append returned survive, and of the rest any piece of the stream from its
beginning. `JsonlReader` runs the steps of `StreamSinks` and its own side by side.
`AuditEvidence` runs the audit path first and the walk of `ExceptionEvidence` on
what left it. `OperationalLogging` takes of its sink that
a write returns, raises SinkError, or raises EventSchemaError. Its classes of input
are those that `EventSchemas` shows to exist. By `NoLateRefusal` a call that the guard
let through is refused for one of these reasons: the clock is broken, an integer is too
long to convert, the line as a whole is too long (by its fields together, the actor
or the template's text), the actor of an intent is not accountable, or the actor or
the text is not encodable. The first three can also refuse an outcome whose intent is
durable, so in `AuditOperations` an append of any outcome can end with EventSchemaError.

## What each run checks

Operators whose comment begins "Mutated form" are not part of a model: each is a
definition as a plausible slip would leave it, used to see that a property notices.

### Runs that pass

- **`streams_concurrent`** (372 000 states, liveness included). Two threads, two audit
  sinks and an operational one, two names, records of two bytes, three calls, an
  operator who may remove the file behind one of the names. There is a single file: the
  names are hard links of it, and a file created after a removal is a new one under the
  old one's identity. `Framed`, `TornImpliesLatched`, `WriterHoldsOpenSink`,
  `KindsNeverMix`, `LatchedNeverGrows` and, with fairness, `EveryCallReturns`. Two bytes
  are enough to tell begun, torn and complete apart; three calls are one that tears, one
  that must see it and one more; two sinks of one kind share a lock and the third must
  be refused.
- **`streams_crash`** (224 000 states, names and files symmetric). One name and two files, two crashes,
  a main thread that signals can interrupt, two calls. The second crash is what it takes
  to meet a file of an earlier life again: its entry of the directory, and a record that
  life left torn. `AckedAuditDurable`: what an append acknowledged survives a crash that
  loses any unsynced suffix of any file and any unsynced directory entry.
  `LatchedMeansTorn`: the latch refuses only files that are damaged. It says nothing of
  a recycled identity, for which it is false (`Register` finds the entry of the file
  that is gone): the hazard of the stale entry is guarded by no property.
  `ImplementsDurableLog`: see [below](#the-promise-and-its-implementation). No operator
  removes files here: all three need that, and say so. Two names for one file are the
  matter of `streams_concurrent`.
- **`reader`** (419 000 states). Two threads, one of them interruptible, an audit sink,
  three calls, one crash, and a caller who starts an iteration whenever it likes. Three
  records are one that is yielded, one that is torn and one behind it. `NothingSkipped`:
  what has been yielded is the file from its first byte on. `AcknowledgedIsRead`: an
  iteration that ends without an error has yielded every record acknowledged before it
  began. `VerdictIsTrue`: until a crash or a signal has got between a write and its
  latch, no interleaving with the writers makes the reader raise, and it reports a torn
  tail only of a file that is being appended to or is latched. Afterwards it may raise,
  for the reason `streams_restart_torn` shows; `NothingSkipped` says that it then stops
  there.
- **`audit_operations`** (762 000 states). One thread, two operations that nest in any
  order, one of them with a `required_on_outcome` field (whose automatic outcome its own
  schema refuses, unless an interrupt comes first), every way an append can end, every
  place to raise and to catch, and a process death between any two steps. Two operations
  are what it takes for one operation's failure to leave through another one's block.
  After a death the effects stay, the stream keeps what was acknowledged, and the
  application may begin what it had not begun.
- **`audit_evidence`** (91 000 states from 243 initial ones). Two exceptions of the
  application or the sink with any links between them, cycles included, and the four of
  the facade; one operation begun inside or outside an except clause, whose block raises
  up to twice, catches, raises again or from what it caught; an append that fails
  plainly or out of an except clause of the sink's; a cap of three.
  `OriginalStaysOffChain` and `BodyIsLocated` are two promises of `audit.py`;
  `TruncatedMeansMissing` compares the walk with the least set that contains the raised
  exception and is closed under links, `NearestFirst` with the distance from it: the
  function that is 0 at the raised exception, grows by at most one along every link and
  by exactly one along some link to each other exception. With six objects and a cap of
  three, chains that are cut occur, chains that just fit, and graphs in which only
  shared links are left at the cap.
- **`operational`** (599 000 states, liveness included). Two threads, five calls over
  all classes of input, a budget of one line per window of two ticks. Five lines in a
  window are the fewest that would break `BoundedVolume` with this budget, two windows
  of (one line and one summary) being four.
- **`event_schemas`** (21 000 states, threads symmetric). Two threads constructing
  facades on one registry, in any order with the application's declarations, two ids of
  which one is the package's own, three field names of which one is reserved,
  declarations with up to two fields of both kinds or neither, and for fields of str and
  int values that fit, that are ill-formed, too long to convert or of another type, and
  sequences of both shapes, up to two in a call, under a clock that is right or wrong. Actors are short, long, unaccountable and unencodable, the texts of templates
  short, long and unencodable. The layers' checks of a field are per field, and the only
  relations between fields are between two: duplicates, the template, and the sum of
  their sizes. A line has room for eight units. Two long values fit it exactly in an
  operational record and not in an audit record, though no field is too long; the long
  text and a list exceed it; the long actor leaves room for an intent and not for its
  indeterminate outcome, so that both ends of `AutomaticOutcomeFits` occur. The defect
  record with both its fields fills a line to the last unit.

### Runs that exhibit a disagreement between code and prose

Each checks one property that a comment of the repository states and finds a
behaviour of the code that breaks it.

- **`streams_restart_torn`**: `_streams.py:14-16` says a torn tail never becomes
  middle-of-file corruption, and line 28 that recovery from a latched file is a
  restart. The latch lives in memory, so after a restart (or a crash) the next append
  lands right behind the torn record. Within one process life `Framed` holds,
  which is the theorem `NoMidFileDamage`.
- **`streams_unwritten`**: `interfaces.py:63` says a raising append leaves the
  record unwritten; when fsync fails, the whole record is in the file.
- **`audit_shared_handle`**: `audit.py:263` says exactly one outcome is ever
  recorded; two threads with one handle both pass the check of `_state` before
  either sets it. With one thread per handle it holds (`audit_operations`).
- **`operational_huge_int`**: `operational.py:5-10` says a malformed call returns
  normally in production. An int of more than 4300 digits passes the guard and
  makes `json.dumps` (or `str.format`) raise ValueError, which nothing catches.
- **`operational_stale_recovery`**: `health.py:36-37` says recovery is observed
  by the next successful write. A thread that succeeded before another one
  failed, and calls `mark_healthy` after it, clears the failure though no write has
  succeeded since.

Three more are known and are not among these runs. `jsonl_audit.py:3-12` says append
returns only once the record is durably on disk, and that the containing directory was
synced because the file's existence is not durable otherwise. The directory synced is
the one the path names (`os.path.dirname`, line 125). Through a symbolic link whose
target does not exist yet and is in another directory, `os.open` creates the file there,
where nobody syncs its entry, and a crash takes it with its acknowledged records. The
configuration `StreamsLinked.cfg` of `MCStreamSinks` has such a path, and TLC finds
`AckedAuditDurable` violated under it. A signal handler that raises in
the main thread between a short `os.write` and the latch leaves a torn record
unlatched, and the next append buries it: `Framed` fails for any configuration of
`StreamSinks` under `Spec` with a thread in `Interruptible`. And two facades
constructed at once on one registry can both find the defect event missing; the
second registration raises LoggingConfigurationError, against
`operational.py:100-101`: in `EventSchemas`, `facade[t]` then becomes "failed".

Deadlock checking is off wherever a behaviour may end because its bound on calls is used
up, or (`audit_evidence`) because the evidence is built; in `audit_operations` the
application can always go on raising and catching, so it is on.

### Fairness

`FairLifeSpec` and `FairSpec` assume weak fairness of each thread's own steps: the
operating system schedules every thread, and a system call comes back. Nobody
is obliged to make a call, close a sink, remove a file or tick the clock. A lock
may be handed to any waiter; with finitely many calls (`MaxCalls`) a waiter
gets it in the end because `threading.Lock` is released on every path, which is
what the property is about. `WriteSome` can repeat at most once per byte.

## The promise and its implementation

`DurableLog` says what a caller may rely on, with no threads, locks, descriptors or
bytes: a record enters one file, once and behind what is there; its caller is told
"durable" only of a record in the part no crash can take, "written" only of one that
is there, "refused" only of one that never was; of an attempt that failed nothing is
said. A crash cuts the files anywhere behind their secured part.

`StreamSinksRefinement` maps `StreamSinks` to it: a record is in the log from the
moment its newline is in the file, its place is the offset of that newline, and
`secured` is what the last fsync covered. `WriteSome` of the last byte is `Store`,
`Fsync` is `Secure`, `Settle` is `Confirm`, `Accept` or `Fail` by its verdict, `Call`
and `Refuse` are `Submit` and `Refuse`, and everything else (locks, latches,
directory, short writes, construction) is a stutter. `ImplementsDurableLog ==
Log!Spec` is a property of `streams_crash`, and the theorem `SinksImplementLog` for every
number of threads, sinks, names, files, calls and crashes. It holds where no operator removes
files, for a removed file takes its acknowledged records with it, and where no path
leaves the directory it names (`Contained`), as `StreamsLinked.cfg` shows.

The theorems of `DurableLogProofs` are about every log that keeps this promise, and so
about the sinks.

## What is proved

All theorems hold for every value of the constants that satisfies the assumptions of
the module, and all proofs are checked by tlapm to the last leaf.

### The sinks: `StreamSinksProofs.tla`

Assumed: a record has at least one byte; each sink has one of the two kinds; the
sentinels are not threads, files or sinks; bounds are naturals.

- `TypeCorrect`: `Spec => []TypeOK`.
- `WritersExclude`: `Spec => []WriterHoldsOpenSink`.
- `NoMidFileDamage`: `LifeSpec => []Framed`.
- `DamageIsPublished`: `LifeSpec => []TornImpliesLatched`.
- `LatchStopsGrowth`: `Spec => LatchedNeverGrows`.
- `KindsStayApart`: `Spec => [](crashes = 0 => KindsNeverMix)`, and `LifeKeepsKinds`,
  which follows from it.

`WriterHoldsOpenSink` is not inductive: nothing in it says how a thread came to be
writing. `Discipline` strengthens it: `Construction` (a thread
that constructs has its instance to itself, so no call can be using it), `Usage`
(a thread in a call works through an instance that was constructed) and
`Locking` (a thread between the checks and the settling holds the lock of its file, a held
lock belongs to such a thread, and past the check the instance is not
closed). The lemma `DisciplineStep` takes it through every action, crash
and signal included, so the theorem is about `Spec`.

`Framed` is not inductive either: it says nothing of what a thread in the middle of a
record knows. `Framing` adds `EndOfFile(t)`: while `t` writes, the last record of its
file is whole, or is `t`'s own record as far as `t` has written it, and a file that `t`
leaves torn is one it is about to report as `partial`. Appending the next bytes of that
record then keeps the framing (`AppendKeepsFramed`), and `Settle` latches exactly when a
torn tail is left. The step lemma `FramingStep` uses `Discipline` for the exclusion of
other writers. Signals and crashes are left out (`LifeSpec`), for with them it is false,
as the run `streams_restart_torn` shows of crashes.

The latch and the kinds each need one more fact. `WritersUnlatched`: a thread past the
check found the latch clear, and only the holder of the lock, which is that thread, can
set it. `KindsKnown`: an entry of the table is never dropped while the process lives, so
it knows the kind of every instance that was registered under it and of every byte in
its file; a file under a recycled identity therefore goes on being of the old kind. Both
take signals in; a crash empties the table, and after it another kind may be registered
on an old file.

### The sinks as a log: `StreamSinksRefinementProofs.tla`

All three have the hypothesis `Replaceable = {}`, as the run has: no operator removes or
replaces a file. Without it they are false, because a removed file takes its
records, and a recycled identity inherits a latch. The last two also have the hypothesis
`Contained`: every path leads to an entry of the directory it names. Without it they are
false, as TLC shows with `StreamsLinked.cfg`.

- `LatchIsEarned`: `Spec => []LatchedMeansTorn`.
- `AcknowledgedSurvives`: `Spec => []AckedAuditDurable`.
- `SinksImplementLog`: `Spec => ImplementsDurableLog`.

`Recording` says where the bytes of records are: what is in a file of a record is its
beginning and in one piece (`OnePiece`), no byte is there twice (`NoDuplicates`), calls
are numbered as they come (`Numbered`), and of the record of a call in progress there is
exactly what its thread has counted (`Progress`), up to a whole record, synced for an
audit sink, when the call is about to be confirmed. Every step keeps it, crashes and removals
included. `Keeping` adds the directory: the file of an instance has a name, a latched file
is torn and has a name, and the path of a construction still leads to the file that was
opened through it (`Led`). It is here that removals are excluded. Under `Contained` it
also has `Saving`: the file of an audit sink past its directory fsync has a saved name,
and the record of a confirmed append is behind the last fsync of such a file.

For the refinement one lemma per action says which step of the log it is. A step of the
sinks that adds a newline adds the entry of that record, in its place and behind the
others, by `OnePiece` and `NoDuplicates`; an fsync raises `secured` over all entries; a
settled call answers what `Progress` and `Keeping` say is true; a crash cuts each file
at a length no less than what was synced, which is a cut of the log; everything else is
a stutter.

### The reader: `JsonlReaderProofs.tla`

Where `Replaceable = {}`, while any number of threads write, are interrupted and crash:

- `ReaderTypeCorrect`: `ReaderSpec => []ReaderTypeOK`.
- `NoLineIsSkipped`: `ReaderSpec => []NothingSkipped`.
- `HistoryIsRead`: `ReaderSpec => []AcknowledgedIsRead`.
- `VerdictsAreTrue`: `ReaderSpec => VerdictIsTrue`.

A behaviour of the reader is one of `StreamSinks` with more variables, so `Discipline`,
`Recording` and `Keeping` hold of it. `Following` says that the open file has a name
(so nobody truncates it and nothing read from it changes), that what has been taken as
lines is what has been yielded, and that the records due are there, behind the last
fsync. `Sound` adds that while the life is unbroken the file is framed; then the bytes up to
the next newline are one record (`LinesAreRecords`), and what is left at the end of the file is
the record somebody is writing or has latched.

### The promise: `DurableLogProofs.tla`

Assumed: the places in a file are natural numbers.

- `DurableForGood`: `Spec => []DurableStays`. A record told durable is in a secured
  place of some file, then and ever after.
- `RefusedForGood`: `Spec => []RefusedIsNowhere`.
- `OnceForGood`: `Spec => []StoredOnce`.

Each is inductive with the types of the log; the lemma `NewEntry` says that the only
entry a step can add is that of the record it stores, behind the others.

### The audit path: `AuditOperationsProofs.tla`

For any set of workers (the run has one) and of operations, process deaths included:

- `TypeCorrect`: `Spec => []TypeOK`.
- `FailureAlwaysSurfaces`: `Spec => FailureSurfaces`.

and, if nobody is given a handle of another worker's operation (`Helpers = {}`; with helpers the
run `audit_shared_handle` shows that the first one fails):

- `OneOutcome`: `Spec => []AtMostOneOutcome`.
- `IntentComesFirst`: `Spec => []NothingWithoutDurableIntent`.
- `TrailIsTruthful`: `Spec => []OutcomesTruthful`.
- `SilenceMeansRecorded`: `Spec => []SilentExitMeansRecorded`.
- `FailureReportsAreReal`: `Spec => []ReportedFailureIsReal`.
- `SettledStaysSettled`: `Spec => SettledForGood`.

None of these is inductive alone. `Shape` adds to the types that an automatic call is about the
innermost block of its worker, so that leaving that block is well defined. `Handles`
is the ownership: with-blocks and outcome calls are about live operations of
their own worker, what the caller reports is still true when it is appended, and a
call between the check of `_state` and the append is about an open operation. This
is the conjunct that a shared handle breaks. `Ledger` ties the state of an
operation to the stream: an outcome in the stream is of a settled operation and
behind its intent (`OutcomesSettle`), a live operation has its intent
acknowledged (`Accountable`), acknowledged records are in the stream
(`AckedIsInTrail`), `finalised` means an acknowledged outcome and `failed` a stored
failure (`StateTells`), and how a block ended tells which (`LeftTells`).
`LedgerStep` takes it through every action, `CrashLedger` through the process death,
which leaves nobody a handle and a piece of the stream from its beginning
(`CrashTrail`); appending an outcome for an open
operation then cannot be the second one.

### The operational path: `OperationalLoggingProofs.tla`

Assumed: bounds are naturals, the window is positive, and (for the last theorem, which
counts calls in progress) there are finitely many threads.

- `TypeCorrect`: `Spec => []TypeOK`.
- `CountersAlwaysAgree`: `Spec => []CountersAgree`.
- `FallbackAlwaysOwned`: `Spec => []FallbackHasOneOwner`.
- `OnlyStrictEverRaises`: `Spec => []OnlyStrictRaises`.
- `VolumeIsBounded`: `Spec => []BoundedVolume`.
- `EveryCallIsAccounted`: `Spec => []EveryCallAccounted`.

`Typed` adds to the types that a thread in a call has its input; with it the health
counters, the owner of the fallback and what may raise are inductive. `BoundedVolume`
speaks of any run of lines in the past; `Budgeted` adds that all but the last `Spent`
lines precede the current window, and all but `MaxLines + 1` more do so by a whole
window. `EveryCallAccounted` counts returned calls only; `Account` also counts the calls
in progress that have left their trace already (`Traced`), so that a return moves one
from the one count to the other.

### Exceptions and evidence: `AuditEvidenceProofs.tla`

For any exceptions of the application and the sink, linked in any way before, any number
of raises, and any cap unless said otherwise:

- `TypeCorrect`: `Spec => []TypeOK`.
- `OriginalNeverRecorded`: `Spec => []OriginalStaysOffChain`.
- `BodyIsInEvidence`: `Spec => []BodyIsLocated`, if `MAX_CHAIN_DEPTH >= 3`. In the code
  it is 10 (`evidence.py`), in the run 3; with 2 the property is false.
- `TruncationIsHonest`: `Spec => []TruncatedMeansMissing`.
- `NearestIsRecordedFirst`: `Spec => []NearestFirst`.

`Hands` says which exceptions are in whose hands at each stage of the operation: the
sink's own is in nobody's, the facade's two only after they were raised. With it
`OffChain` is inductive: nothing but the sink's exception is linked to it, so every
other exception forms a set that is closed under links without it, and what is reachable from
what left the block stays in that set.
`BodyBehind` describes the two or three links by which the body's exception hangs behind
the finalisation error, cycles cut by CPython included, and `FirstTurns` follows the first three
turns of the walk over exactly these.

`WalkIsSound` and `WalkIsComplete` are the two halves of any graph walk: what is
recorded or queued is reachable, and until the cap is met what is recorded is linked
only to what is recorded or queued. When the queue is empty the recorded set is closed,
hence all that is reachable; when the cap was met, the exception in hand is reachable
and missing.

`NearestFirst` needs the layers of a breadth-first walk. `LayerByLayer` says of any
distance function that the first so many entries of the queue are as far as the
exception recorded last and the rest at most one further, that all that is nearer is
recorded, and that what is linked from a nearer one is recorded or among those first entries.
A turn then either stays in its layer or finds it complete. That there is a distance
function, and only one, needs induction over the number of links; TLC confirms it on the
run's graphs.

### The declarations: `EventSchemasProofs.tla`

For any declarations, values, numbers of fields and threads:

- `TypeCorrect`: `Spec => []TypeOK`.
- `PersistedConforms`: `Spec => []RecordsConform`.
- `GuardRefusesFirst`: `Spec => []NoLateRefusal`.
- `MessagesAreRendered`: `Spec => []AlwaysRendered`.
- `AutomaticOutcomesFit`: `Spec => []AutomaticOutcomeFits`.
- `DefectsAreRecordable`: `Spec => []DefectRecordable`.

`GuardRefusesFirst` lists every way in which a record that passed the guard can be
refused behind it, and says which of them are gone once the intent is durable.
`AutomaticOutcomesFit` has one exception, a line that is too long by no more than what
the outcome itself adds to it. For the sizes a line is the set of its bytes, each a pair of
the part of the record it is in and its place there, and its length is the cardinality
of that set: no fold over the fields is needed, and "shorter" follows from inclusion.

The invariant has four parts. `RegistryOK`: what is registered under an id passed the
checks of a declaration, and the package's event is its own or missing. `FacadesOK`: a
facade that exists has found or put that event there. `BegunOK`: behind every handle
there is an intent that was persisted, of the same event and actor, from which what the
outcome takes over is known to be accountable and encodable and to have fitted the line.
`Traced`: the latest record is what the guard made of a call that its schema accepts,
and the verdict is recomputed from the record and the schema; it survives declarations
because an id that is taken is never given again (`NothingRedeclared`). The rest is
about one schema and one call: `CalledWellmade` collects what the guard establishes, and
`WellmadeAccepted` what the later layers make of it.

### What stays with TLC

`EveryCallReturns`, of the sinks and of the operational path: liveness under fairness,
and ENABLED, are out of the prover's reach. The existence and uniqueness of the distance
function, as said above: induction over data. No module here declares a RECURSIVE
operator. The five runs that exhibit a disagreement are counterexamples, which need no proof.

## Abstractions and assumptions

- **Bytes.** A byte is the call that wrote it, its position in its record and its kind.
  That decides framing; the JSON text does not.
- **Paths.** A path leads to one directory entry for good (a link is not turned
  elsewhere while the process runs), and several entries may be hard links of one file.
  The fsync of a directory saves the entries that are in it.
- **Sizes.** The size of a part of a record is the bytes it takes in the encoded line,
  its key included. The envelope of an event has one size, but for what an outcome adds
  to it; a placeholder that a template repeats counts once.
- **What an append may leave.** `ReportedFailureIsReal` is weaker than
  `exceptions.py:88-93`, which says of an AuditFinalisationError that there is no
  outcome record: the failed append may have left one, so the property denies only an
  acknowledged one.
- **Crashes.** A file keeps any prefix of its content that includes what was fsynced, a
  directory entry is as last synced or as current. Reordered or garbled sectors below
  the file system are outside the model, as the module docstring of `jsonl_audit.py`
  puts them outside the guarantee.
- **Reading.** A read returns any non-empty piece of what is in the file, and the end of
  the file is whatever is its end then. A line parses if and only if it is exactly one
  record: what is left of a torn record, an object without its closing brace or its
  newline, makes no JSON object with what follows it. The reader lives in the process
  that writes; one in another process sees the same bytes.
- **Exception links.** `raise x` sets `x.__context__` to the exception being handled and
  cuts the context link that would close a cycle, as CPython does it. Application and
  sink may raise any object again, with any links it has. The four exceptions of the
  facade are new objects of their own.
- **The sink's own links.** A sink that raises some other exception out of its except
  clause for its own AuditPersistenceError does put that on the chain: such an exception
  passes the facade as it is, and the promise of `audit.py:237-247` is only about the
  one that is normalised.
- **Identity reuse.** A file that nothing names and nothing has open can be handed out
  again under the number `_STREAMS` still has an entry for. The entry's latch and kind
  then apply to the new file.
- **Signals.** CPython runs handlers in the main thread between bytecodes, in practice
  as a call into C returns. `Interrupt` is therefore enabled while waiting for the lock
  and after each `os.write` or `os.fsync`. An interrupt during construction closes the
  descriptor as a failed construction does (`FailConstruction`).
- **The GIL.** `StderrFallback._reentrant` and `EventRegistry._insert` are tested and
  set without a lock. Under CPython with a GIL (the project asks for 3.11 or later) no
  thread switch can fall between those two operations, which contain no call into Python
  code, so each is one step; on a free-threaded build neither would hold. The test of
  `DEFECT_EVENT` and its registration are in different calls, hence two steps; so are
  the check and the update of `AuditOperation._state`.
- **Health and budget** steps are atomic because they run under their lock or because
  only the owner of the reentrant flag reaches them.
- **The application** in `AuditOperations` keeps the standard's side of the bargain
  (`docs/logging-standard.md`, section 9.3): it mutates between intent and outcome,
  reports success only of an effect that happened and failure only of one that did not.
  Otherwise it is free.
- **`os.close` failing** raises after the instance is marked closed, which is the state
  `Close` leaves; the exception itself is not tracked.
- **Unbounded parts** are bounded by `MaxCalls`, `MaxCrashes`, `MaxTime`, and by the
  finite sets of threads, sinks, names and files. A trail holds at most two records per
  operation, so `AuditOperations` needs no bound.

## What is not modelled

- `AuditLog.complete`: it always raises and changes nothing.
- `_locations` of `evidence.py` (the last 20 frames of one traceback) and the type
  name of an entry: a function of one exception that relates to nothing else.
- Outcome calls after the first in `AuditEvidence`: `AuditOperations` has them, and
  AuditUsageError, raised `from None`, adds only the link to what is handled.
- An iterator of the reader that its caller drops half way; a file that is replaced
  while it is read.
- The grammars of ids, names, actors and placeholders, length limits of
  single values and free-form permission: a declaration or value that breaks one is refused
  at once; the classes `bad_str` and `accountable |-> FALSE` stand for the values.
- The text of messages, the mapping of severities to syslog keywords
  (`severity.py`), the constructors of exceptions, the protocols and the clock of
  `interfaces.py`, the public names of `__init__.py`: no state and no control.
- `last_failure_kind` and `snapshot` of the health object: written and read under one lock.

## Plan

In order of importance.

1. `StreamSinks` with its proofs. *Done:* every safety property of its two passing runs.
2. `AuditOperations` with its proofs, crashes included. *Done:* every property of
   the run.
3. `OperationalLogging` with its proofs. *Done:* every safety property of the run.
4. `DurableLog`, its theorems, and the refinement by `StreamSinks`. *Done:* the
   theorems and the proof of the refinement.
5. `JsonlReader`. *Done:* every property of the run.
6. `ExceptionEvidence` and `AuditEvidence`. *Done:* every property of the run.
7. `EventSchemas`. *Done:* every property of the run.

*Left:* that the theorems with `Replaceable = {}` also hold of removals that wait until no sink
has the file open and none is latched, for which the hypothesis would become a
condition on the action `Remove`.
