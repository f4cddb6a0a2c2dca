------------------------------ MODULE StreamSinks ------------------------------
(***************************************************************************)
(* The file sinks of nm-logging and the per-file stream state they share:  *)
(* sinks/_streams.py, sinks/jsonl.py (JsonlSink) and sinks/jsonl_audit.py  *)
(* (JsonlAuditSink), run by the threads of the one process that owns the   *)
(* files, over a file system that can crash.                               *)
(*                                                                         *)
(* A file is a sequence of bytes, a record RecordLen of them, the last one *)
(* its newline; a byte is tagged with the call that wrote it, its position *)
(* in the record and the record's kind, which is all that framing depends  *)
(* on.  os.write takes any non-empty prefix of what is left or stops.      *)
(*                                                                         *)
(* A path leads, through the symbolic links on its way, to one entry of a  *)
(* directory; entries of one file are hard links.  The code fsyncs the     *)
(* directory that the path itself names, which a link may leave.           *)
(*                                                                         *)
(* Abstracted: the JSON text of a record; an os.open that fails (it changes*)
(* nothing); the messages of the exceptions.  A construction that fails    *)
(* leaves the instance "absent", as if it had never been tried.            *)
(***************************************************************************)
EXTENDS Naturals, Sequences

CONSTANTS
    Threads,       \* threads of the owning process
    Sinks,         \* sink instances the application may construct
    Paths,         \* names a sink can be constructed with
    Entries,       \* directory entries that the paths lead to
    Entry,         \* Entry[p]: the one that path p leads to
    Siblings,      \* Siblings[p]: those in the directory os.path.dirname(p)
    Files,         \* file identities, (st_dev, st_ino)
    KindOf,        \* KindOf[s]: "audit" for a JsonlAuditSink, "operational" for a JsonlSink
    NoThread,      \* a free lock
    NoFile,        \* an unused entry, or an instance without a descriptor
    NoPath,        \* the path of a call that is no construction
    NoSink,        \* the sink of an idle thread
    RecordLen,     \* bytes of an encoded record, its newline included
    Replaceable,   \* entries that an operator may remove (and so replace)
    Interruptible, \* threads a signal handler may raise in: the main thread
    MaxCalls,      \* bound: append/write calls in a behaviour
    MaxCrashes     \* bound: process deaths in a behaviour

Kinds == {"audit", "operational"}
Calls == 1..MaxCalls

ASSUME RecordLenAssumption == RecordLen \in Nat /\ RecordLen >= 1
ASSUME KindOfAssumption == KindOf \in [Sinks -> Kinds]
ASSUME SentinelAssumption ==
    /\ NoThread \notin Threads
    /\ NoFile \notin Files
    /\ NoSink \notin Sinks
ASSUME DirectoryAssumption ==
    /\ Entry \in [Paths -> Entries]
    /\ Siblings \in [Paths -> SUBSET Entries]
ASSUME EnvironmentAssumption ==
    /\ Replaceable \subseteq Entries
    /\ Interruptible \subseteq Threads
    /\ MaxCalls \in Nat
    /\ MaxCrashes \in Nat

VARIABLES
    dir,      \* dir[e]: the file entry e names
    savedDir, \* the entries as a crash would leave them: what was last fsync-ed
    content,  \* content[f]: the bytes written to f
    synced,   \* synced[f]: how many of them an fsync has made durable
    kind,     \* _STREAMS[f].stream_kind, "none" when f has no entry
    latched,  \* _STREAMS[f].latched
    lock,     \* the holder of _STREAMS[f].lock
    phase,    \* phase[s]: how far the instance has come
    file,     \* the file behind the instance's descriptor
    pc,       \* where each thread is
    job,      \* the call each thread is in
    issued,   \* calls made so far; call r is the r-th
    reply,    \* reply[r]: what call r told its caller
    crashes   \* process deaths so far

disk == <<dir, savedDir, content, synced>>
table == <<kind, latched, lock>>
instances == <<phase, file>>
history == <<issued, reply>>
vars == <<disk, table, instances, pc, job, history, crashes>>

Results == {"none", "complete", "partial", "nothing", "sync_failed"}
\* "durable" and "written" are the normal returns of JsonlAuditSink.append and
\* JsonlSink.write; "refused" and "failed" are AuditPersistenceError and SinkError
\* raised before and after the file was touched; "schema_error" is EventSchemaError.
Replies == {"unused", "pending", "durable", "written", "refused", "failed",
            "schema_error", "interrupted", "lost"}
Byte == [rec : Calls, at : 1..RecordLen, kind : Kinds]
Job == [sink : Sinks \cup {NoSink}, path : Paths \cup {NoPath}, rec : 0..MaxCalls,
        written : 0..RecordLen, result : Results]
Construct(s, p) == [sink |-> s, path |-> p, rec |-> 0, written |-> 0, result |-> "none"]
JobOf(s, r) == [sink |-> s, path |-> NoPath, rec |-> r, written |-> 0, result |-> "none"]
NoJob == JobOf(NoSink, 0)

Init ==
    /\ dir \in [Entries -> Files \cup {NoFile}]
    /\ savedDir = dir
    /\ content = [f \in Files |-> <<>>]
    /\ synced = [f \in Files |-> 0]
    /\ kind = [f \in Files |-> "none"]
    /\ latched = [f \in Files |-> FALSE]
    /\ lock = [f \in Files |-> NoThread]
    /\ phase = [s \in Sinks |-> "absent"]
    /\ file = [s \in Sinks |-> NoFile]
    /\ pc = [t \in Threads |-> "idle"]
    /\ job = [t \in Threads |-> NoJob]
    /\ issued = 0
    /\ reply = [r \in Calls |-> "unused"]
    /\ crashes = 0

--------------------------------------------------------------------------------
(* Construction: os.open, fstat, directory fsync (audit only), register. *)

HoldsDescriptor(s) == phase[s] \in {"opened", "ready"}

\* A file identity the file system may hand out: nothing names it and nothing
\* has it open.  Its number may well be one _STREAMS still has an entry for.
Unused(f) ==
    /\ \A e \in Entries : dir[e] # f /\ savedDir[e] # f
    /\ \A s \in Sinks : HoldsDescriptor(s) => file[s] # f

\* Mutated form of AfterOpen: the audit sink does not sync its directory.
AfterOpenUnsynced(s) == "register"

\* The step after os.open.
AfterOpen(s) == IF KindOf[s] = "audit" THEN "dirsync" ELSE "register"

\* __init__: os.open(path, O_WRONLY | O_APPEND | O_CREAT).
Open(t, s, p) ==
    /\ pc[t] = "idle"
    /\ phase[s] = "absent"
    /\ \/ /\ dir[Entry[p]] # NoFile
          /\ file' = [file EXCEPT ![s] = dir[Entry[p]]]
          /\ UNCHANGED <<dir, content, synced>>
       \/ \E f \in Files :
             /\ dir[Entry[p]] = NoFile
             /\ Unused(f)
             /\ file' = [file EXCEPT ![s] = f]
             /\ dir' = [dir EXCEPT ![Entry[p]] = f]
             /\ content' = [content EXCEPT ![f] = <<>>]
             /\ synced' = [synced EXCEPT ![f] = 0]
    /\ phase' = [phase EXCEPT ![s] = "opened"]
    /\ pc' = [pc EXCEPT ![t] = AfterOpen(s)]
    /\ job' = [job EXCEPT ![t] = Construct(s, p)]
    /\ UNCHANGED <<savedDir, table, history, crashes>>

\* The descriptor is closed before the exception propagates; no instance is left.
CloseAndRaise(t) ==
    /\ phase' = [phase EXCEPT ![job[t].sink] = "absent"]
    /\ file' = [file EXCEPT ![job[t].sink] = NoFile]
    /\ pc' = [pc EXCEPT ![t] = "idle"]
    /\ job' = [job EXCEPT ![t] = NoJob]

\* JsonlAuditSink._fsync_directory: what the directory of the given path holds becomes
\* durable.
SyncDirectory(t) ==
    /\ pc[t] = "dirsync"
    /\ savedDir' = [e \in Entries |-> IF e \in Siblings[job[t].path] THEN dir[e] ELSE savedDir[e]]
    /\ pc' = [pc EXCEPT ![t] = "register"]
    /\ UNCHANGED <<dir, content, synced, table, instances, job, history, crashes>>

\* fstat, or the open or fsync of the directory, raises: both come before register.
FailConstruction(t) ==
    /\ pc[t] \in {"dirsync", "register"}
    /\ pc[t] = AfterOpen(job[t].sink)
    /\ CloseAndRaise(t)
    /\ UNCHANGED <<disk, table, history, crashes>>

\* Mutated form of Register: the kind of an existing entry is not compared.
RegisterAnyKind(t) ==
    /\ pc[t] = "register"
    /\ kind' = [kind EXCEPT ![file[job[t].sink]] = KindOf[job[t].sink]]
    /\ phase' = [phase EXCEPT ![job[t].sink] = "ready"]
    /\ pc' = [pc EXCEPT ![t] = "idle"]
    /\ job' = [job EXCEPT ![t] = NoJob]
    /\ UNCHANGED <<disk, latched, lock, file, history, crashes>>

\* _streams.register, under _GUARD: first sight creates the entry, a second sink
\* of the same kind shares it, one of the other kind is rejected.
Register(t) ==
    LET s == job[t].sink
        f == file[s]
    IN  /\ pc[t] = "register"
        /\ \/ /\ kind[f] \in {"none", KindOf[s]}
              /\ kind' = [kind EXCEPT ![f] = KindOf[s]]
              /\ phase' = [phase EXCEPT ![s] = "ready"]
              /\ pc' = [pc EXCEPT ![t] = "idle"]
              /\ job' = [job EXCEPT ![t] = NoJob]
              /\ UNCHANGED file
           \/ /\ kind[f] \notin {"none", KindOf[s]}
              /\ CloseAndRaise(t)
              /\ UNCHANGED kind
        /\ UNCHANGED <<disk, latched, lock, history, crashes>>

--------------------------------------------------------------------------------
(* JsonlAuditSink.append and JsonlSink.write: one critical section under the    *)
(* lock of the file, from the closed and latched checks to the fsync.           *)

FileOf(t) == file[job[t].sink]
InCritical(t) == pc[t] \in {"check", "write", "fsync", "settle"}

\* The call ends with answer a; leaving the with-block releases the lock.
Answer(t, a) ==
    /\ reply' = [reply EXCEPT ![job[t].rec] = a]
    /\ pc' = [pc EXCEPT ![t] = "idle"]
    /\ job' = [job EXCEPT ![t] = NoJob]

Release(t) == lock' = [lock EXCEPT ![FileOf(t)] = NoThread]

\* A call on a constructed instance, closed ones included.  The record is encoded
\* before the lock is taken: the wrong kind, an unencodable or an oversize record
\* raises EventSchemaError there.
Call(t, s, encodable) ==
    /\ pc[t] = "idle"
    /\ phase[s] \in {"ready", "closed"}
    /\ issued < MaxCalls
    /\ issued' = issued + 1
    /\ IF encodable
       THEN /\ reply' = [reply EXCEPT ![issued + 1] = "pending"]
            /\ pc' = [pc EXCEPT ![t] = "lock"]
            /\ job' = [job EXCEPT ![t] = JobOf(s, issued + 1)]
       ELSE /\ reply' = [reply EXCEPT ![issued + 1] = "schema_error"]
            /\ UNCHANGED <<pc, job>>
    /\ UNCHANGED <<disk, table, instances, crashes>>

\* Mutated form of Acquire: each instance has a lock of its own.
AcquireWithoutSharing(t) ==
    /\ pc[t] = "lock"
    /\ lock' = [lock EXCEPT ![FileOf(t)] = t]
    /\ pc' = [pc EXCEPT ![t] = "check"]
    /\ UNCHANGED <<disk, kind, latched, instances, job, history, crashes>>

Acquire(t) ==
    /\ pc[t] = "lock"
    /\ lock[FileOf(t)] = NoThread
    /\ lock' = [lock EXCEPT ![FileOf(t)] = t]
    /\ pc' = [pc EXCEPT ![t] = "check"]
    /\ UNCHANGED <<disk, kind, latched, instances, job, history, crashes>>

\* Mutated form of MustRefuse: the latch is not looked at.
MustRefuseClosedOnly(t) == phase[job[t].sink] = "closed"

\* The instance is closed or the stream latched: raise without touching the file.
MustRefuse(t) == phase[job[t].sink] = "closed" \/ latched[FileOf(t)]

\* Mutated form of Refuse: the early exit leaves the lock held.
RefuseHolding(t) ==
    /\ pc[t] = "check"
    /\ MustRefuse(t)
    /\ Answer(t, "refused")
    /\ UNCHANGED <<disk, table, instances, issued, crashes>>

Refuse(t) ==
    /\ pc[t] = "check"
    /\ MustRefuse(t)
    /\ Answer(t, "refused")
    /\ Release(t)
    /\ UNCHANGED <<disk, kind, latched, instances, issued, crashes>>

StartWriting(t) ==
    /\ pc[t] = "check"
    /\ ~MustRefuse(t)
    /\ pc' = [pc EXCEPT ![t] = "write"]
    /\ UNCHANGED <<disk, table, instances, job, history, crashes>>

\* The next n bytes of t's record, which O_APPEND puts at the end of the file.
NextBytes(t, n) ==
    [k \in 1..n |-> [rec |-> job[t].rec, at |-> job[t].written + k,
                     kind |-> KindOf[job[t].sink]]]

\* Mutated form of WriteSome: a later os.write is given a buffer that is too long.
WriteSomeTooLong(t) ==
    /\ pc[t] = "write"
    /\ \E n \in 1..RecordLen :
          /\ content' = [content EXCEPT ![FileOf(t)] = @ \o NextBytes(t, n)]
          /\ job' = [job EXCEPT ![t].written = @ + n]
    /\ pc' = [pc EXCEPT ![t] = IF job'[t].written < RecordLen THEN "write" ELSE "fsync"]
    /\ UNCHANGED <<dir, savedDir, synced, table, instances, history, crashes>>

\* write_completely: os.write returned n > 0.  Only the audit sink goes on to fsync.
WriteSome(t) ==
    /\ pc[t] = "write"
    /\ \E n \in 1..(RecordLen - job[t].written) :
          /\ content' = [content EXCEPT ![FileOf(t)] = @ \o NextBytes(t, n)]
          /\ IF job[t].written + n < RecordLen
             THEN /\ job' = [job EXCEPT ![t].written = @ + n]
                  /\ UNCHANGED pc
             ELSE IF KindOf[job[t].sink] = "audit"
             THEN /\ job' = [job EXCEPT ![t].written = @ + n]
                  /\ pc' = [pc EXCEPT ![t] = "fsync"]
             ELSE /\ job' = [job EXCEPT ![t].written = @ + n, ![t].result = "complete"]
                  /\ pc' = [pc EXCEPT ![t] = "settle"]
    /\ UNCHANGED <<dir, savedDir, synced, table, instances, history, crashes>>

\* write_completely: os.write raised OSError or returned 0 or less.
StopWriting(t) ==
    /\ pc[t] = "write"
    /\ job' = [job EXCEPT ![t].result = IF job[t].written > 0 THEN "partial" ELSE "nothing"]
    /\ pc' = [pc EXCEPT ![t] = "settle"]
    /\ UNCHANGED <<disk, table, instances, history, crashes>>

\* write_completely: os.fsync of the file returns, or raises OSError.
Fsync(t) ==
    /\ pc[t] = "fsync"
    /\ \/ /\ synced' = [synced EXCEPT ![FileOf(t)] = Len(content[FileOf(t)])]
          /\ job' = [job EXCEPT ![t].result = "complete"]
       \/ /\ job' = [job EXCEPT ![t].result = "sync_failed"]
          /\ UNCHANGED synced
    /\ pc' = [pc EXCEPT ![t] = "settle"]
    /\ UNCHANGED <<dir, savedDir, content, table, instances, history, crashes>>

\* Mutated form of Verdict: a failing fsync passes for a complete write.
VerdictIgnoringSync(t) ==
    IF job[t].result \notin {"complete", "sync_failed"} THEN "failed"
    ELSE IF KindOf[job[t].sink] = "audit" THEN "durable" ELSE "written"

\* What the caller is told once the attempt has ended.
Verdict(t) ==
    IF job[t].result # "complete" THEN "failed"
    ELSE IF KindOf[job[t].sink] = "audit" THEN "durable" ELSE "written"

\* Mutated forms of Settle: a partial write sets no latch; every failure sets it.
SettleWithoutLatch(t) ==
    /\ pc[t] = "settle"
    /\ Answer(t, Verdict(t))
    /\ Release(t)
    /\ UNCHANGED <<disk, kind, latched, instances, issued, crashes>>

SettleLatchingAnyFailure(t) ==
    /\ pc[t] = "settle"
    /\ latched' = [latched EXCEPT ![FileOf(t)] = @ \/ job[t].result # "complete"]
    /\ Answer(t, Verdict(t))
    /\ Release(t)
    /\ UNCHANGED <<disk, kind, instances, issued, crashes>>

\* A partial write latches the stream before the lock is released.
Settle(t) ==
    /\ pc[t] = "settle"
    /\ latched' = [latched EXCEPT ![FileOf(t)] = @ \/ job[t].result = "partial"]
    /\ Answer(t, Verdict(t))
    /\ Release(t)
    /\ UNCHANGED <<disk, kind, instances, issued, crashes>>

\* Mutated form of Close: it does not take the lock.
CloseUnlocked(t, s) ==
    /\ pc[t] = "idle"
    /\ phase[s] = "ready"
    /\ phase' = [phase EXCEPT ![s] = "closed"]
    /\ UNCHANGED <<disk, table, file, pc, job, history, crashes>>

\* close, which takes the same lock; closing an instance twice does nothing.
Close(t, s) ==
    /\ pc[t] = "idle"
    /\ phase[s] = "ready"
    /\ lock[file[s]] = NoThread
    /\ phase' = [phase EXCEPT ![s] = "closed"]
    /\ UNCHANGED <<disk, table, file, pc, job, history, crashes>>

--------------------------------------------------------------------------------
(* The environment. *)

\* A signal handler raises (KeyboardInterrupt) where CPython runs handlers: while
\* waiting for the lock, or as an os.write or os.fsync call returns.  No handler of
\* the code catches it on its way out of the with-block.
Interrupt(t) ==
    /\ t \in Interruptible
    /\ \/ pc[t] \in {"lock", "write", "fsync"}
       \/ pc[t] = "settle" /\ job[t].result = "complete"
    /\ Answer(t, "interrupted")
    /\ IF pc[t] = "lock" THEN UNCHANGED lock ELSE Release(t)
    /\ UNCHANGED <<disk, kind, latched, instances, issued, crashes>>

\* An operator removes an entry, durably; open descriptors stay valid.
Remove(e) ==
    /\ e \in Replaceable
    /\ dir[e] # NoFile
    /\ dir' = [dir EXCEPT ![e] = NoFile]
    /\ savedDir' = [savedDir EXCEPT ![e] = NoFile]
    /\ UNCHANGED <<content, synced, table, instances, pc, job, history, crashes>>

\* The process dies and starts again.  Memory is lost; every file keeps a prefix
\* with at least its synced bytes, every entry is as saved or as current.
Crash ==
    /\ crashes < MaxCrashes
    /\ crashes' = crashes + 1
    /\ \E kept \in [Files -> UNION {synced[f]..Len(content[f]) : f \in Files}] :
          /\ \A f \in Files : kept[f] \in synced[f]..Len(content[f])
          /\ content' = [f \in Files |-> SubSeq(content[f], 1, kept[f])]
    /\ \E current \in SUBSET Entries :
          dir' = [e \in Entries |-> IF e \in current THEN dir[e] ELSE savedDir[e]]
    /\ savedDir' = dir'
    /\ kind' = [f \in Files |-> "none"]
    /\ latched' = [f \in Files |-> FALSE]
    /\ lock' = [f \in Files |-> NoThread]
    /\ phase' = [s \in Sinks |-> "absent"]
    /\ file' = [s \in Sinks |-> NoFile]
    /\ pc' = [t \in Threads |-> "idle"]
    /\ job' = [t \in Threads |-> NoJob]
    /\ reply' = [r \in Calls |-> IF reply[r] = "pending" THEN "lost" ELSE reply[r]]
    /\ UNCHANGED <<synced, issued>>

--------------------------------------------------------------------------------
\* A thread carries on with what it has begun.
Step(t) ==
    \/ SyncDirectory(t) \/ FailConstruction(t) \/ Register(t)
    \/ Acquire(t) \/ Refuse(t) \/ StartWriting(t)
    \/ WriteSome(t) \/ StopWriting(t) \/ Fsync(t) \/ Settle(t)

\* The application's threads, without signals: what one process life consists of.
Work ==
    \/ \E t \in Threads : Step(t)
    \/ \E t \in Threads, s \in Sinks, p \in Paths : Open(t, s, p)
    \/ \E t \in Threads, s \in Sinks, encodable \in BOOLEAN : Call(t, s, encodable)
    \/ \E t \in Threads, s \in Sinks : Close(t, s)
    \/ \E e \in Entries : Remove(e)

Next ==
    \/ Work
    \/ \E t \in Threads : Interrupt(t)
    \/ Crash

Spec == Init /\ [][Next]_vars

\* One process that is neither interrupted nor killed, on files that start empty.
LifeSpec == Init /\ [][Work]_vars

\* Threads are scheduled; nobody is obliged to make a call, close or remove anything.
FairLifeSpec == LifeSpec /\ \A t \in Threads : WF_vars(Step(t))

--------------------------------------------------------------------------------
(* What the sinks promise. *)

\* The type invariant of the file system, the stream table, the instances and the calls.
TypeOK ==
    /\ dir \in [Entries -> Files \cup {NoFile}]
    /\ savedDir \in [Entries -> Files \cup {NoFile}]
    /\ content \in [Files -> Seq(Byte)]
    /\ synced \in [Files -> Nat]
    /\ kind \in [Files -> Kinds \cup {"none"}]
    /\ latched \in [Files -> BOOLEAN]
    /\ lock \in [Files -> Threads \cup {NoThread}]
    /\ phase \in [Sinks -> {"absent", "opened", "ready", "closed"}]
    /\ file \in [Sinks -> Files \cup {NoFile}]
    /\ pc \in [Threads -> {"idle", "dirsync", "register", "lock", "check", "write",
                           "fsync", "settle"}]
    /\ job \in [Threads -> Job]
    /\ issued \in 0..MaxCalls
    /\ reply \in [Calls -> Replies]
    /\ crashes \in 0..MaxCrashes

\* b may come right after a: the next byte of the same record, or the first byte of
\* another record once a's record is complete.
Follows(a, b) ==
    \/ b.rec = a.rec /\ b.at = a.at + 1
    \/ a.at = RecordLen /\ b.at = 1

\* Every file is whole records, with at most one torn record and that at the very end:
\* two writers never interleave and a torn tail never becomes middle-of-file
\* corruption (_streams.py:11-16).  True within one process life.
Framed ==
    \A f \in Files :
        /\ content[f] # <<>> => content[f][1].at = 1
        /\ \A k \in 2..Len(content[f]) : Follows(content[f][k - 1], content[f][k])

Torn(f) == content[f] # <<>> /\ content[f][Len(content[f])].at # RecordLen

\* Whenever a file's lock is free and its last record is torn, the stream is latched:
\* the damage is published before another writer can get in (_streams.py:14-16).
TornImpliesLatched ==
    \A f \in Files : lock[f] = NoThread /\ Torn(f) => latched[f]

\* The latch refuses writers only of a file that really is damaged: a write that left
\* nothing, or an fsync that failed, does not block the stream (_streams.py:88-90).
\* True where no operator replaces files: an identity handed out again keeps its latch.
LatchedMeansTorn ==
    \A f \in Files : latched[f] => Torn(f)

\* A latched file never grows, whoever holds a descriptor on it: the latch is shared
\* by the instances (_streams.py:14-16).
LatchedNeverGrows ==
    [][\A f \in Files : latched[f] => Len(content'[f]) <= Len(content[f])]_vars

Writing(t) == pc[t] \in {"write", "fsync"}

\* A thread that writes or syncs does so through a descriptor that is still open and
\* is alone on its file: close cannot race an append (jsonl_audit.py:141-145).
WriterHoldsOpenSink ==
    \A t \in Threads : Writing(t) =>
        /\ phase[job[t].sink] = "ready"
        /\ \A u \in Threads \ {t} : Writing(u) => FileOf(u) # FileOf(t)

\* No file holds records of both kinds, whatever names the sinks were constructed with
\* (_streams.py:17-20).  The table is per process, so this too is within one life.
KindsNeverMix ==
    \A f \in Files : \A j, k \in 1..Len(content[f]) :
        content[f][j].kind = content[f][k].kind

\* Record r lies within the synced bytes of f, whole and in one piece.
DurableIn(r, f) ==
    \E start \in 0..(Len(content[f]) - RecordLen) :
        /\ start + RecordLen <= synced[f]
        /\ \A k \in 1..RecordLen : content[f][start + k].rec = r /\ content[f][start + k].at = k

\* Every path leads to an entry of the directory it names: no symbolic link to a file
\* elsewhere.
Contained == \A p \in Paths : Entry[p] \in Siblings[p]

\* An audit append that returned is on disk to stay: the whole record is synced, in a
\* file that a saved directory entry names, now and after any crash
\* (jsonl_audit.py:3-12).  True where no operator removes files and paths are Contained.
AckedAuditDurable ==
    \A r \in Calls : reply[r] = "durable" =>
        \E e \in Entries :
            /\ dir[e] \in Files
            /\ savedDir[e] = dir[e]
            /\ DurableIn(r, dir[e])

\* What interfaces.py:63 says of an append that raised AuditPersistenceError: it left
\* the record unwritten, so no file holds all of it.
FailedLeavesNoRecord ==
    \A r \in Calls : reply[r] \in {"refused", "failed", "schema_error"} =>
        ~\E f \in Files : \E k \in 1..Len(content[f]) :
            content[f][k].rec = r /\ content[f][k].at = RecordLen

\* Every call is answered: no order of acquisitions, refusals, failures and closings
\* leaves a caller waiting for a lock nobody will release.
EveryCallReturns ==
    \A r \in Calls : reply[r] = "pending" ~> reply[r] # "pending"

================================================================================
