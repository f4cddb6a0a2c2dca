--------------------------- MODULE StreamSinksProofs ---------------------------
(***************************************************************************)
(* Theorems about StreamSinks, for every choice of its constants.          *)
(*                                                                         *)
(* Discipline says which call or construction a thread is in, and that the *)
(* lock of a file is held exactly by the thread inside its critical        *)
(* section; it is kept by every step, signals and crashes included, and    *)
(* gives the exclusion of writers.  Framing adds what a thread between the *)
(* acquisition and the release of the lock knows of the end of its file;   *)
(* on top of Discipline it is kept by every step of one process life, and  *)
(* gives the framing of the files.                                         *)
(*                                                                         *)
(* Two smaller arguments follow.  WritersUnlatched: a thread that writes a *)
(* file found its latch clear under a lock that only it can set the latch  *)
(* under.  KindsKnown: until a crash the entry of a file knows the kind of *)
(* whatever is in it.                                                      *)
(***************************************************************************)
EXTENDS StreamSinks, TLAPS

Constructing(t) == pc[t] \in {"dirsync", "register"}
Calling(t) == pc[t] \in {"lock", "check", "write", "fsync", "settle"}

\* A thread that constructs has its instance to itself.
Construction ==
    /\ \A s \in Sinks : phase[s] # "absent" => file[s] \in Files
    /\ \A t \in Threads : Constructing(t) =>
          job[t].sink \in Sinks /\ phase[job[t].sink] = "opened"
    /\ \A t, u \in Threads : t # u /\ Constructing(t) /\ Constructing(u) =>
          job[t].sink # job[u].sink

\* A thread in a call works through an instance that has been constructed.
Usage ==
    \A t \in Threads : Calling(t) =>
        /\ job[t].sink \in Sinks
        /\ phase[job[t].sink] \in {"ready", "closed"}
        /\ job[t].rec \in Calls

\* The lock is held exactly through the critical section, and close waits for it.
Locking ==
    /\ \A t \in Threads : InCritical(t) => lock[FileOf(t)] = t
    /\ \A f \in Files : lock[f] # NoThread => InCritical(lock[f]) /\ FileOf(lock[f]) = f
    /\ \A t \in Threads : pc[t] \in {"write", "fsync", "settle"} => phase[job[t].sink] = "ready"

Discipline == TypeOK /\ Construction /\ Usage /\ Locking

--------------------------------------------------------------------------------

LEMMA DisciplineInit == Init => Discipline
  BY RecordLenAssumption, EnvironmentAssumption
  DEF Init, Discipline, TypeOK, Construction, Usage, Locking, Constructing, Calling,
      InCritical, Job, NoJob, JobOf, Results, Replies, Kinds, Calls

\* The bytes of the next os.write are n bytes of the thread's record, in order.
LEMMA NextBytesShape ==
  ASSUME Discipline, NEW t \in Threads, Calling(t),
         NEW n \in 1..(RecordLen - job[t].written)
  PROVE  /\ NextBytes(t, n) \in Seq(Byte)
         /\ Len(NextBytes(t, n)) = n
         /\ \A k \in 1..n : NextBytes(t, n)[k] =
               [rec |-> job[t].rec, at |-> job[t].written + k, kind |-> KindOf[job[t].sink]]
<1>1. /\ n \in Nat
      /\ \A k \in 1..n : job[t].written + k \in 1..RecordLen
  BY RecordLenAssumption DEF Discipline, TypeOK, Job
<1>2. KindOf[job[t].sink] \in Kinds
  BY KindOfAssumption DEF Discipline, Usage
<1>3. job[t].rec \in Calls
  BY DEF Discipline, Usage
<1>4. \A k \in 1..n : [rec |-> job[t].rec, at |-> job[t].written + k,
                       kind |-> KindOf[job[t].sink]] \in Byte
  BY <1>1, <1>2, <1>3 DEF Byte
<1> QED
  BY <1>1, <1>4 DEF NextBytes

\* What an action does to the entry of the thread that takes it, and of the others.
LEMMA EndOfCall ==
  ASSUME Discipline, NEW t \in Threads, NEW a \in Replies, Calling(t), Answer(t, a)
  PROVE  /\ reply' \in [Calls -> Replies]
         /\ pc' \in [Threads -> {"idle", "dirsync", "register", "lock", "check", "write",
                                 "fsync", "settle"}]
         /\ job' \in [Threads -> Job]
         /\ pc'[t] = "idle"
         /\ \A u \in Threads \ {t} : pc'[u] = pc[u] /\ job'[u] = job[u]
<1>1. NoJob \in Job
  BY RecordLenAssumption, EnvironmentAssumption DEF NoJob, JobOf, Job, Results
<1> QED
  BY <1>1 DEF Discipline, TypeOK, Usage, Answer

\* Whoever leaves the critical section releases the lock and disturbs nobody else.
LEMMA LeaveCritical ==
  ASSUME Discipline, NEW t \in Threads, NEW a \in Replies, InCritical(t),
         Answer(t, a), Release(t), UNCHANGED <<disk, instances, issued, crashes>>,
         kind' = kind, latched' \in [Files -> BOOLEAN]
  PROVE  Discipline'
<1>1. /\ Calling(t)
      /\ FileOf(t) \in Files
      /\ lock[FileOf(t)] = t
  BY DEF Discipline, Construction, Usage, Locking, InCritical, Calling, FileOf
<1>2. /\ reply' \in [Calls -> Replies]
      /\ pc' \in [Threads -> {"idle", "dirsync", "register", "lock", "check", "write",
                              "fsync", "settle"}]
      /\ job' \in [Threads -> Job]
      /\ pc'[t] = "idle"
      /\ \A u \in Threads \ {t} : pc'[u] = pc[u] /\ job'[u] = job[u]
  BY <1>1, EndOfCall
<1>3. /\ lock' \in [Files -> Threads \cup {NoThread}]
      /\ lock'[FileOf(t)] = NoThread
      /\ \A f \in Files \ {FileOf(t)} : lock'[f] = lock[f]
  BY <1>1 DEF Discipline, TypeOK, Release
<1>4. TypeOK'
  BY <1>2, <1>3 DEF Discipline, TypeOK, disk, instances
<1>5. Construction'
  BY <1>2 DEF Discipline, Construction, Constructing, instances
<1>6. Usage'
  BY <1>2 DEF Discipline, Usage, Calling, instances
<1>7. Locking'
  <2>1. \A u \in Threads \ {t} : FileOf(u)' = FileOf(u)
    BY <1>2 DEF FileOf, instances
  <2>2. \A u \in Threads \ {t} : InCritical(u)' = InCritical(u)
    BY <1>2 DEF InCritical
  <2>3. ~InCritical(t)'
    BY <1>2 DEF InCritical
  <2>4. ASSUME NEW u \in Threads, InCritical(u)' PROVE lock'[FileOf(u)'] = u
    <3>1. u # t /\ InCritical(u) /\ lock[FileOf(u)] = u /\ FileOf(u) \in Files
      BY <2>2, <2>3, <2>4 DEF Discipline, Locking, Construction, Usage, FileOf, InCritical, Calling
    <3> QED
      BY <3>1, <2>1, <1>1, <1>3
  <2>5. ASSUME NEW f \in Files, lock'[f] # NoThread
        PROVE  (InCritical(lock[f]) /\ FileOf(lock[f]) = f)'
    <3>1. f # FileOf(t) /\ lock'[f] = lock[f]
      BY <1>3, <2>5
    <3>2. InCritical(lock[f]) /\ FileOf(lock[f]) = f /\ lock[f] \in Threads
      BY <3>1, <2>5 DEF Discipline, TypeOK, Locking
    <3>3. lock[f] # t
      BY <3>1, <3>2
    <3> QED
      BY <3>1, <3>2, <3>3, <1>2 DEF InCritical, FileOf, instances
  <2>6. ASSUME NEW u \in Threads, pc'[u] \in {"write", "fsync", "settle"}
        PROVE  phase'[job'[u].sink] = "ready"
    BY <2>6, <1>2 DEF Discipline, Locking, instances
  <2> QED
    BY <2>4, <2>5, <2>6 DEF Locking
<1> QED
  BY <1>4, <1>5, <1>6, <1>7 DEF Discipline

\* A step that moves nobody into or out of a critical section keeps the locks right.
LEMMA SameCritical ==
  ASSUME Discipline, lock' = lock,
         \A u \in Threads : InCritical(u)' <=> InCritical(u),
         \A u \in Threads : InCritical(u) => FileOf(u)' = FileOf(u),
         \A u \in Threads : pc'[u] \in {"write", "fsync", "settle"} =>
            phase'[job'[u].sink] = "ready"
  PROVE  Locking'
<1>1. ASSUME NEW u \in Threads, InCritical(u)' PROVE (lock[FileOf(u)] = u)'
  <2>1. InCritical(u) /\ FileOf(u)' = FileOf(u)
    BY <1>1
  <2> QED
    BY <2>1 DEF Discipline, Locking
<1>2. ASSUME NEW f \in Files, lock'[f] # NoThread
      PROVE  \E u \in Threads : u = lock'[f] /\ InCritical(u)' /\ FileOf(u)' = f
  <2>1. lock[f] \in Threads /\ InCritical(lock[f]) /\ FileOf(lock[f]) = f
    BY <1>2 DEF Discipline, TypeOK, Locking
  <2> QED
    BY <2>1
<1> QED
  BY <1>1, <1>2 DEF Locking, InCritical, FileOf

\* A step inside the critical section keeps the call, its instance and the lock.
LEMMA WithinCritical ==
  ASSUME Discipline, NEW t \in Threads, InCritical(t),
         pc' \in [Threads -> {"idle", "dirsync", "register", "lock", "check", "write",
                              "fsync", "settle"}],
         job' \in [Threads -> Job],
         InCritical(t)', job'[t].sink = job[t].sink, job'[t].rec = job[t].rec,
         \A u \in Threads \ {t} : pc'[u] = pc[u] /\ job'[u] = job[u],
         phase[job[t].sink] = "ready",
         UNCHANGED <<lock, phase, file>>
  PROVE  Construction' /\ Usage' /\ Locking'
<1>1. \A u \in Threads : job'[u].sink = job[u].sink /\ job'[u].rec = job[u].rec
  OBVIOUS
<1>2. \A u \in Threads \ {t} : pc'[u] = pc[u]
  OBVIOUS
<1>3. Construction'
  BY <1>1, <1>2 DEF Discipline, Construction, Constructing, InCritical
<1>4. Usage'
  BY <1>1, <1>2 DEF Discipline, Usage, Calling, InCritical
<1>5. Locking'
  <2>1. \A u \in Threads : InCritical(u)' <=> InCritical(u)
    BY <1>2 DEF InCritical
  <2>2. \A u \in Threads : FileOf(u)' = FileOf(u)
    BY <1>1 DEF FileOf
  <2>3. \A u \in Threads : pc'[u] \in {"write", "fsync", "settle"} => phase'[job'[u].sink] = "ready"
    BY <1>1, <1>2 DEF Discipline, Locking
  <2> QED
    BY <2>1, <2>2, <2>3, SameCritical
<1> QED
  BY <1>3, <1>4, <1>5

\* A thread writes, syncs or settles through an instance that is ready.
LEMMA CriticalFacts ==
  ASSUME Discipline, NEW t \in Threads, InCritical(t)
  PROVE  /\ Calling(t)
         /\ job[t].sink \in Sinks
         /\ FileOf(t) \in Files
         /\ lock[FileOf(t)] = t
         /\ job[t] \in Job
         /\ job[t].rec \in Calls
         /\ phase[job[t].sink] \in {"ready", "closed"}
         /\ pc[t] \in {"write", "fsync", "settle"} => phase[job[t].sink] = "ready"
BY DEF Discipline, TypeOK, Construction, Usage, Locking, InCritical, Calling, FileOf

\* Thread t works on for the call it is in, and no other thread's job changes.
SameCall(next, jobs, t) ==
    /\ next \in [Threads -> Job]
    /\ next[t].sink = jobs[t].sink /\ next[t].rec = jobs[t].rec
    /\ \A u \in Threads \ {t} : next[u] = jobs[u]

\* What write_completely makes of the job: more is written, and the attempt may have ended.
LEMMA JobCounts ==
  ASSUME NEW jobs \in [Threads -> Job], NEW t \in Threads, NEW n \in Nat, NEW r \in Results,
         jobs[t].written + n \in 0..RecordLen, NEW next,
         \/ next = [jobs EXCEPT ![t].written = @ + n]
         \/ next = [jobs EXCEPT ![t].written = @ + n, ![t].result = r]
  PROVE  SameCall(next, jobs, t)
<1>1. PICK j \in Job : j = jobs[t]
  OBVIOUS
<1>2. PICK w \in 0..RecordLen : w = j.written + n
  BY <1>1
<1>3. PICK k \in Job : next = [jobs EXCEPT ![t] = k] /\ k.sink = j.sink /\ k.rec = j.rec
  <2>1. CASE next = [jobs EXCEPT ![t].written = @ + n]
    <3>1. next = [jobs EXCEPT ![t] = [j EXCEPT !.written = w]]
      BY <1>1, <1>2, <2>1
    <3>2. /\ [j EXCEPT !.written = w] \in Job
          /\ [j EXCEPT !.written = w].sink = j.sink /\ [j EXCEPT !.written = w].rec = j.rec
      BY DEF Job
    <3> QED
      BY <3>1, <3>2
  <2>2. CASE next = [jobs EXCEPT ![t].written = @ + n, ![t].result = r]
    <3> DEFINE k == [j EXCEPT !.written = w, !.result = r]
    <3>1. next = [jobs EXCEPT ![t] = k]
      BY <1>1, <1>2, <2>2
    <3>2. k \in Job /\ k.sink = j.sink /\ k.rec = j.rec
      BY DEF Job
    <3> HIDE DEF k
    <3> QED
      BY <3>1, <3>2
  <2> QED
    BY <2>1, <2>2
<1> QED
  BY <1>1, <1>3 DEF SameCall

\* What the end of the attempt makes of the job.
LEMMA JobEnds ==
  ASSUME NEW jobs \in [Threads -> Job], NEW t \in Threads, NEW r \in Results, NEW next,
         next = [jobs EXCEPT ![t].result = r]
  PROVE  SameCall(next, jobs, t)
<1>1. PICK j \in Job : j = jobs[t]
  OBVIOUS
<1> DEFINE k == [j EXCEPT !.result = r]
<1>2. k \in Job /\ k.sink = j.sink /\ k.rec = j.rec
  BY DEF Job
<1>3. next = [jobs EXCEPT ![t] = k]
  BY <1>1
<1> HIDE DEF k
<1> QED
  BY <1>1, <1>2, <1>3 DEF SameCall

LEMMA DisciplineStep == Discipline /\ [Next]_vars => Discipline'
<1> SUFFICES ASSUME Discipline, [Next]_vars PROVE Discipline'
  OBVIOUS
<1>1. ASSUME NEW t \in Threads, SyncDirectory(t) PROVE Discipline'
  BY <1>1 DEF SyncDirectory, Discipline, TypeOK, Construction, Usage, Locking, Constructing,
     Calling, InCritical, FileOf, table, instances, history
<1>2. ASSUME NEW t \in Threads, FailConstruction(t) PROVE Discipline'
  BY <1>2, RecordLenAssumption, EnvironmentAssumption
     DEF FailConstruction, CloseAndRaise, disk, table, history, Discipline, TypeOK,
     Construction, Usage, Locking, Constructing, Calling, InCritical, FileOf, Job, NoJob, JobOf, Results
<1>4. ASSUME NEW t \in Threads, Acquire(t) PROVE Discipline'
  <2>1. FileOf(t) \in Files /\ lock[FileOf(t)] = NoThread
    BY <1>4 DEF Acquire, Discipline, Construction, Usage, Calling, FileOf
  <2>2. TypeOK'
    BY <1>4, <2>1 DEF Acquire, disk, instances, history, Discipline, TypeOK
  <2>3. Construction' /\ Usage'
    BY <1>4 DEF Acquire, instances, Discipline, TypeOK, Construction, Usage, Constructing, Calling
  <2>4. \A f \in Files : lock'[f] = IF f = FileOf(t) THEN t ELSE lock[f]
    BY <1>4 DEF Acquire, Discipline, TypeOK
  <2>5. \A u \in Threads : FileOf(u)' = FileOf(u)
    BY <1>4 DEF Acquire, FileOf, instances
  <2>6. \A u \in Threads : pc'[u] = IF u = t THEN "check" ELSE pc[u]
    BY <1>4 DEF Acquire, Discipline, TypeOK
  <2>7. \A u \in Threads : InCritical(u) => FileOf(u) # FileOf(t) /\ FileOf(u) \in Files
    BY <2>1, SentinelAssumption, CriticalFacts
  <2>8. Locking'
    <3>1. ASSUME NEW u \in Threads, InCritical(u)' PROVE lock'[FileOf(u)'] = u
      <4>1. CASE u = t
        BY <4>1, <2>1, <2>4, <2>5
      <4>2. CASE u # t
        <5>1. InCritical(u)
          BY <3>1, <4>2, <2>6 DEF InCritical
        <5> QED
          BY <5>1, <2>4, <2>5, <2>7, CriticalFacts
      <4> QED
        BY <4>1, <4>2
    <3>2. ASSUME NEW f \in Files, lock'[f] # NoThread
          PROVE  \E u \in Threads : u = lock'[f] /\ InCritical(u)' /\ FileOf(u)' = f
      <4>1. CASE f = FileOf(t)
        BY <4>1, <2>1, <2>4, <2>5, <2>6 DEF InCritical
      <4>2. CASE f # FileOf(t)
        <5>1. lock[f] \in Threads /\ lock'[f] = lock[f] /\ InCritical(lock[f]) /\ FileOf(lock[f]) = f
          BY <3>2, <4>2, <2>4 DEF Discipline, TypeOK, Locking
        <5> QED
          BY <5>1, <4>2, <2>5, <2>6 DEF InCritical
      <4> QED
        BY <4>1, <4>2
    <3>3. ASSUME NEW u \in Threads, pc'[u] \in {"write", "fsync", "settle"}
          PROVE  phase'[job'[u].sink] = "ready"
      BY <1>4, <3>3, <2>6 DEF Acquire, Discipline, Locking, instances
    <3> QED
      BY <3>1, <3>2, <3>3 DEF Locking, InCritical, FileOf
  <2> QED
    BY <2>2, <2>3, <2>8 DEF Discipline
<1>5. ASSUME NEW t \in Threads, Refuse(t) PROVE Discipline'
  <2>1. InCritical(t) /\ latched' \in [Files -> BOOLEAN] /\ "refused" \in Replies
    BY <1>5 DEF Refuse, InCritical, Discipline, TypeOK, Replies
  <2> QED
    BY <1>5, <2>1, LeaveCritical DEF Refuse
<1>10. ASSUME NEW t \in Threads, Settle(t) PROVE Discipline'
  <2>1. InCritical(t) /\ latched' \in [Files -> BOOLEAN] /\ Verdict(t) \in Replies
    BY <1>10 DEF Settle, InCritical, Discipline, TypeOK, Replies, Verdict
  <2> QED
    BY <1>10, <2>1, LeaveCritical DEF Settle
<1>6. ASSUME NEW t \in Threads, StartWriting(t) PROVE Discipline'
  <2>1. InCritical(t)
    BY <1>6 DEF StartWriting, InCritical
  <2>2. phase[job[t].sink] = "ready"
    BY <1>6, <2>1, CriticalFacts DEF StartWriting, MustRefuse
  <2>3. TypeOK'
    BY <1>6 DEF StartWriting, disk, table, instances, history, Discipline, TypeOK
  <2>4. /\ pc'[t] = "write"
        /\ \A u \in Threads \ {t} : pc'[u] = pc[u] /\ job'[u] = job[u]
    BY <1>6 DEF StartWriting, Discipline, TypeOK
  <2>5. Construction' /\ Usage' /\ Locking'
    BY <1>6, <2>1, <2>2, <2>3, <2>4, WithinCritical
    DEF StartWriting, InCritical, table, instances, TypeOK
  <2> QED
    BY <2>3, <2>5 DEF Discipline
<1>7. ASSUME NEW t \in Threads, WriteSome(t) PROVE Discipline'
  <2>1. InCritical(t) /\ phase[job[t].sink] = "ready" /\ job[t] \in Job /\ FileOf(t) \in Files
    BY <1>7, CriticalFacts DEF WriteSome, InCritical
  <2>2. PICK n \in 1..(RecordLen - job[t].written) :
           /\ content' = [content EXCEPT ![FileOf(t)] = @ \o NextBytes(t, n)]
           /\ \/ job' = [job EXCEPT ![t].written = @ + n]
              \/ job' = [job EXCEPT ![t].written = @ + n, ![t].result = "complete"]
    BY <1>7 DEF WriteSome
  <2>3. /\ UNCHANGED <<dir, savedDir, synced, table, instances, history, crashes>>
        /\ pc' = pc \/ pc' = [pc EXCEPT ![t] = "fsync"] \/ pc' = [pc EXCEPT ![t] = "settle"]
        /\ pc[t] = "write"
    BY <1>7 DEF WriteSome
  <2>4. content' \in [Files -> Seq(Byte)]
    BY <2>1, <2>2, NextBytesShape, CriticalFacts DEF Discipline, TypeOK
  <2>5. job[t].written + n \in 0..RecordLen
    BY <2>1, RecordLenAssumption DEF Job
  <2>6. /\ job' \in [Threads -> Job]
        /\ job'[t].sink = job[t].sink /\ job'[t].rec = job[t].rec
        /\ \A u \in Threads \ {t} : job'[u] = job[u]
    <3>1. job \in [Threads -> Job] /\ n \in Nat /\ "complete" \in Results
      BY DEF Discipline, TypeOK, Results
    <3>2. SameCall(job', job, t)
      BY <2>2, <2>5, <3>1, JobCounts
    <3> QED
      BY <3>2 DEF SameCall
  <2>7. /\ pc' \in [Threads -> {"idle", "dirsync", "register", "lock", "check", "write",
                                "fsync", "settle"}]
        /\ pc'[t] \in {"write", "fsync", "settle"}
        /\ \A u \in Threads \ {t} : pc'[u] = pc[u]
    <3>1. pc \in [Threads -> {"idle", "dirsync", "register", "lock", "check", "write",
                               "fsync", "settle"}]
      BY DEF Discipline, TypeOK
    <3>2. PICK p \in {"write", "fsync", "settle"} : pc' = [pc EXCEPT ![t] = p]
      BY <2>3, <3>1
    <3> QED
      BY <3>1, <3>2
  <2>8. TypeOK'
    BY <2>3, <2>4, <2>6, <2>7 DEF Discipline, TypeOK, table, instances, history
  <2>9. Construction' /\ Usage' /\ Locking'
    BY <2>1, <2>3, <2>6, <2>7, WithinCritical DEF InCritical, table, instances
  <2> QED
    BY <2>8, <2>9 DEF Discipline
<1>8. ASSUME NEW t \in Threads, StopWriting(t) PROVE Discipline'
  <2>1. InCritical(t) /\ phase[job[t].sink] = "ready" /\ job[t] \in Job
    BY <1>8, CriticalFacts DEF StopWriting, InCritical
  <2>2. /\ job' \in [Threads -> Job]
        /\ job'[t].sink = job[t].sink /\ job'[t].rec = job[t].rec
        /\ \A u \in Threads \ {t} : job'[u] = job[u]
    <3>1. PICK r \in Results : job' = [job EXCEPT ![t].result = r]
      BY <1>8 DEF StopWriting, Results
    <3>2. job \in [Threads -> Job]
      BY DEF Discipline, TypeOK
    <3>3. SameCall(job', job, t)
      BY <3>1, <3>2, JobEnds
    <3> QED
      BY <3>3 DEF SameCall
  <2>3. /\ pc' \in [Threads -> {"idle", "dirsync", "register", "lock", "check", "write",
                                "fsync", "settle"}]
        /\ pc'[t] = "settle"
        /\ \A u \in Threads \ {t} : pc'[u] = pc[u]
    BY <1>8 DEF StopWriting, Discipline, TypeOK
  <2>4. TypeOK'
    BY <1>8, <2>2, <2>3 DEF StopWriting, Discipline, TypeOK, disk, table, instances, history
  <2>5. Construction' /\ Usage' /\ Locking'
    BY <1>8, <2>1, <2>2, <2>3, WithinCritical DEF StopWriting, InCritical, table, instances
  <2> QED
    BY <2>4, <2>5 DEF Discipline
<1>9. ASSUME NEW t \in Threads, Fsync(t) PROVE Discipline'
  <2>1. InCritical(t) /\ phase[job[t].sink] = "ready" /\ job[t] \in Job /\ FileOf(t) \in Files
    BY <1>9, CriticalFacts DEF Fsync, InCritical
  <2>2. /\ job' \in [Threads -> Job]
        /\ job'[t].sink = job[t].sink /\ job'[t].rec = job[t].rec
        /\ \A u \in Threads \ {t} : job'[u] = job[u]
    <3>1. PICK r \in Results : job' = [job EXCEPT ![t].result = r]
      BY <1>9 DEF Fsync, Results
    <3>2. job \in [Threads -> Job]
      BY DEF Discipline, TypeOK
    <3>3. SameCall(job', job, t)
      BY <3>1, <3>2, JobEnds
    <3> QED
      BY <3>3 DEF SameCall
  <2>3. /\ pc' \in [Threads -> {"idle", "dirsync", "register", "lock", "check", "write",
                                "fsync", "settle"}]
        /\ pc'[t] = "settle"
        /\ \A u \in Threads \ {t} : pc'[u] = pc[u]
    BY <1>9 DEF Fsync, Discipline, TypeOK
  <2>4. synced' \in [Files -> Nat]
    <3>1. content[FileOf(t)] \in Seq(Byte)
      BY <2>1 DEF Discipline, TypeOK
    <3>2. Len(content[FileOf(t)]) \in Nat
      BY <3>1
    <3>3. synced \in [Files -> Nat]
      BY DEF Discipline, TypeOK
    <3>4. synced' = [synced EXCEPT ![FileOf(t)] = Len(content[FileOf(t)])] \/ synced' = synced
      BY <1>9 DEF Fsync
    <3> QED
      BY <3>2, <3>3, <3>4
  <2>5. TypeOK'
    BY <1>9, <2>2, <2>3, <2>4 DEF Fsync, Discipline, TypeOK, table, instances, history
  <2>6. Construction' /\ Usage' /\ Locking'
    BY <1>9, <2>1, <2>2, <2>3, WithinCritical DEF Fsync, InCritical, table, instances
  <2> QED
    BY <2>5, <2>6 DEF Discipline
<1>3. ASSUME NEW t \in Threads, Register(t) PROVE Discipline'
  <2> DEFINE s == job[t].sink
  <2>1. s \in Sinks /\ file[s] \in Files /\ phase[s] = "opened" /\ KindOf[s] \in Kinds /\ Constructing(t)
    BY <1>3, KindOfAssumption DEF Register, Discipline, Construction, Constructing
  <2>2. /\ \A x \in Sinks \ {s} : phase'[x] = phase[x] /\ file'[x] = file[x]
        /\ \/ phase'[s] = "absent" /\ file'[s] = NoFile
           \/ phase'[s] = "ready" /\ file'[s] = file[s]
        /\ phase' \in [Sinks -> {"absent", "opened", "ready", "closed"}]
        /\ file' \in [Sinks -> Files \cup {NoFile}]
    <3>1. phase \in [Sinks -> {"absent", "opened", "ready", "closed"}]
          /\ file \in [Sinks -> Files \cup {NoFile}]
      BY DEF Discipline, TypeOK
    <3>2. \/ phase' = [phase EXCEPT ![s] = "ready"] /\ file' = file
          \/ phase' = [phase EXCEPT ![s] = "absent"] /\ file' = [file EXCEPT ![s] = NoFile]
      BY <1>3 DEF Register, CloseAndRaise
    <3> QED
      BY <2>1, <3>1, <3>2
  <2>3. /\ \A u \in Threads \ {t} : pc'[u] = pc[u] /\ job'[u] = job[u]
        /\ pc'[t] = "idle"
        /\ pc' \in [Threads -> {"idle", "dirsync", "register", "lock", "check", "write",
                                "fsync", "settle"}]
        /\ job' \in [Threads -> Job]
    <3>1. NoJob \in Job
      BY RecordLenAssumption, EnvironmentAssumption DEF NoJob, JobOf, Job, Results
    <3>2. pc' = [pc EXCEPT ![t] = "idle"] /\ job' = [job EXCEPT ![t] = NoJob]
      BY <1>3 DEF Register, CloseAndRaise
    <3> QED
      BY <3>1, <3>2 DEF Discipline, TypeOK
  <2>4. kind' \in [Files -> Kinds \cup {"none"}]
    <3>1. kind \in [Files -> Kinds \cup {"none"}]
      BY DEF Discipline, TypeOK
    <3>2. kind' = kind \/ kind' = [kind EXCEPT ![file[s]] = KindOf[s]]
      BY <1>3 DEF Register
    <3> QED
      BY <2>1, <3>1, <3>2
  <2>5. UNCHANGED <<disk, latched, lock, history, crashes>>
    BY <1>3 DEF Register
  <2>6. TypeOK'
    BY <2>2, <2>3, <2>4, <2>5 DEF Discipline, TypeOK, disk, history
  <2>7. \A u \in Threads : Calling(u) => u # t /\ job[u].sink # s
    BY <2>1 DEF Discipline, Usage, Calling, Constructing
  <2>8. \A u \in Threads \ {t} : Constructing(u) => job[u].sink # s
    BY <2>1 DEF Discipline, Construction
  <2>9. Construction'
    BY <2>1, <2>2, <2>3, <2>8 DEF Discipline, Construction, Constructing
  <2>10. Usage'
    BY <2>2, <2>3, <2>7 DEF Discipline, Usage, Calling
  <2>11. Locking'
    <3>1. \A u \in Threads : InCritical(u)' <=> InCritical(u)
      BY <2>1, <2>3 DEF InCritical, Constructing
    <3>2. \A u \in Threads : InCritical(u) => FileOf(u)' = FileOf(u)
      BY <2>2, <2>3, <2>7, CriticalFacts DEF FileOf
    <3>3. \A u \in Threads : pc'[u] \in {"write", "fsync", "settle"} =>
             phase'[job'[u].sink] = "ready"
      <4>1. ASSUME NEW u \in Threads, pc'[u] \in {"write", "fsync", "settle"}
            PROVE  phase'[job'[u].sink] = "ready"
        <5>1. u # t /\ pc[u] = pc'[u] /\ job'[u] = job[u]
          BY <4>1, <2>3
        <5>2. phase[job[u].sink] = "ready" /\ job[u].sink \in Sinks \ {s}
          BY <4>1, <5>1, <2>7 DEF Discipline, Locking, Usage, Calling
        <5> QED
          BY <5>1, <5>2, <2>2
      <4> QED
        BY <4>1
    <3> QED
      BY <2>5, <3>1, <3>2, <3>3, SameCritical
  <2> QED
    BY <2>6, <2>9, <2>10, <2>11 DEF Discipline
<1>11. ASSUME NEW t \in Threads, NEW s \in Sinks, NEW p \in Paths, Open(t, s, p) PROVE Discipline'
  <2>0. Entry[p] \in Entries
    BY DirectoryAssumption
  <2>1. PICK f \in Files : file' = [file EXCEPT ![s] = f]
    <3>1. dir[Entry[p]] # NoFile => dir[Entry[p]] \in Files
      BY <2>0 DEF Discipline, TypeOK
    <3> QED
      BY <1>11, <3>1 DEF Open
  <2>2. /\ phase[s] = "absent" /\ phase' = [phase EXCEPT ![s] = "opened"]
        /\ pc[t] = "idle" /\ AfterOpen(s) \in {"dirsync", "register"}
        /\ pc' = [pc EXCEPT ![t] = AfterOpen(s)]
        /\ job' = [job EXCEPT ![t] = Construct(s, p)]
        /\ UNCHANGED <<savedDir, table, history, crashes>>
    BY <1>11 DEF Open, AfterOpen
  <2>3. /\ dir' \in [Entries -> Files \cup {NoFile}]
        /\ content' \in [Files -> Seq(Byte)]
        /\ synced' \in [Files -> Nat]
    <3>1. CASE UNCHANGED <<dir, content, synced>>
      BY <3>1 DEF Discipline, TypeOK
    <3>2. CASE \E g \in Files :
                  /\ dir' = [dir EXCEPT ![Entry[p]] = g]
                  /\ content' = [content EXCEPT ![g] = <<>>]
                  /\ synced' = [synced EXCEPT ![g] = 0]
      <4>1. <<>> \in Seq(Byte)
        OBVIOUS
      <4> QED
        BY <2>0, <3>2, <4>1 DEF Discipline, TypeOK
    <3> QED
      BY <1>11, <3>1, <3>2 DEF Open
  <2>4. Construct(s, p) \in Job
    BY RecordLenAssumption, EnvironmentAssumption DEF Construct, Job, Results
  <2>5. /\ \A u \in Threads \ {t} : pc'[u] = pc[u] /\ job'[u] = job[u]
        /\ pc'[t] \in {"dirsync", "register"} /\ job'[t].sink = s
        /\ pc' \in [Threads -> {"idle", "dirsync", "register", "lock", "check", "write",
                                "fsync", "settle"}]
        /\ job' \in [Threads -> Job]
    BY <2>2, <2>4 DEF Discipline, TypeOK, Construct
  <2>6. /\ \A x \in Sinks \ {s} : phase'[x] = phase[x] /\ file'[x] = file[x]
        /\ phase'[s] = "opened" /\ file'[s] = f
        /\ phase' \in [Sinks -> {"absent", "opened", "ready", "closed"}]
        /\ file' \in [Sinks -> Files \cup {NoFile}]
    BY <2>1, <2>2 DEF Discipline, TypeOK
  <2>7. TypeOK'
    BY <2>2, <2>3, <2>5, <2>6 DEF Discipline, TypeOK, table, history
  <2>8. \A u \in Threads : Calling(u) => u # t /\ job[u].sink \in Sinks \ {s}
    BY <2>2 DEF Discipline, Usage, Calling
  <2>9. \A u \in Threads : Constructing(u) => u # t /\ job[u].sink \in Sinks \ {s}
    BY <2>2 DEF Discipline, Construction, Constructing
  <2>10. Construction'
    BY <2>5, <2>6, <2>9 DEF Discipline, Construction, Constructing
  <2>11. Usage'
    BY <2>5, <2>6, <2>8 DEF Discipline, Usage, Calling
  <2>12. Locking'
    <3>1. \A u \in Threads : InCritical(u)' <=> InCritical(u)
      BY <2>2, <2>5 DEF InCritical
    <3>2. \A u \in Threads : InCritical(u) => FileOf(u)' = FileOf(u)
      BY <2>5, <2>6, <2>8, CriticalFacts DEF FileOf
    <3>3. ASSUME NEW u \in Threads, pc'[u] \in {"write", "fsync", "settle"}
          PROVE  phase'[job'[u].sink] = "ready"
      <4>1. u # t /\ pc[u] = pc'[u] /\ job'[u] = job[u]
        BY <3>3, <2>5
      <4>2. phase[job[u].sink] = "ready" /\ job[u].sink \in Sinks \ {s}
        BY <3>3, <4>1, <2>8 DEF Discipline, Locking, Calling
      <4> QED
        BY <4>1, <4>2, <2>6
    <3> QED
      BY <2>2, <3>1, <3>2, <3>3, SameCritical DEF table
  <2> QED
    BY <2>7, <2>10, <2>11, <2>12 DEF Discipline
<1>12. ASSUME NEW t \in Threads, NEW s \in Sinks, NEW encodable \in BOOLEAN, Call(t, s, encodable)
       PROVE  Discipline'
  <2>1. /\ UNCHANGED <<disk, table, instances, crashes>>
        /\ pc[t] = "idle" /\ phase[s] \in {"ready", "closed"}
        /\ issued' = issued + 1 /\ issued < MaxCalls
        /\ \/ /\ reply' = [reply EXCEPT ![issued + 1] = "pending"]
              /\ pc' = [pc EXCEPT ![t] = "lock"]
              /\ job' = [job EXCEPT ![t] = JobOf(s, issued + 1)]
           \/ /\ reply' = [reply EXCEPT ![issued + 1] = "schema_error"]
              /\ UNCHANGED <<pc, job>>
    BY <1>12 DEF Call
  <2>2. issued + 1 \in Calls /\ issued' \in 0..MaxCalls
    BY <2>1, EnvironmentAssumption DEF Discipline, TypeOK, Calls
  <2>3. reply' \in [Calls -> Replies]
    BY <2>1, <2>2 DEF Discipline, TypeOK, Replies
  <2>4. JobOf(s, issued + 1) \in Job
    BY <2>2, RecordLenAssumption, EnvironmentAssumption DEF JobOf, Job, Results, Calls
  <2>5. \/ /\ pc' = [pc EXCEPT ![t] = "lock"]
           /\ job' = [job EXCEPT ![t] = JobOf(s, issued + 1)]
        \/ UNCHANGED <<pc, job>>
    BY <2>1
  <2>6. /\ pc' \in [Threads -> {"idle", "dirsync", "register", "lock", "check", "write",
                                "fsync", "settle"}]
        /\ job' \in [Threads -> Job]
        /\ \A u \in Threads \ {t} : pc'[u] = pc[u] /\ job'[u] = job[u]
    BY <2>4, <2>5 DEF Discipline, TypeOK
  <2>7. \/ pc'[t] = "lock" /\ job'[t].sink = s /\ job'[t].rec = issued + 1
        \/ pc'[t] = "idle"
    BY <2>1, <2>5 DEF Discipline, TypeOK, JobOf
  <2>8. TypeOK'
    BY <2>1, <2>2, <2>3, <2>6 DEF Discipline, TypeOK, disk, table, instances
  <2>9. Construction'
    BY <2>1, <2>6, <2>7 DEF Discipline, Construction, Constructing, instances
  <2>10. Usage'
    BY <2>1, <2>2, <2>6, <2>7 DEF Discipline, Usage, Calling, instances
  <2>11. Locking'
    <3>1. \A u \in Threads : InCritical(u)' <=> InCritical(u)
      BY <2>1, <2>6, <2>7 DEF InCritical
    <3>2. \A u \in Threads : InCritical(u) => FileOf(u)' = FileOf(u)
      BY <2>1, <2>6 DEF FileOf, InCritical, instances
    <3>3. \A u \in Threads : pc'[u] \in {"write", "fsync", "settle"} => phase'[job'[u].sink] = "ready"
      BY <2>1, <2>6, <2>7 DEF Discipline, Locking, instances
    <3> QED
      BY <2>1, <3>1, <3>2, <3>3, SameCritical DEF table
  <2> QED
    BY <2>8, <2>9, <2>10, <2>11 DEF Discipline
<1>13. ASSUME NEW t \in Threads, NEW s \in Sinks, Close(t, s) PROVE Discipline'
  <2>1. /\ phase' = [phase EXCEPT ![s] = "closed"] /\ phase[s] = "ready"
        /\ lock[file[s]] = NoThread
        /\ UNCHANGED <<disk, table, file, pc, job, history, crashes>>
    BY <1>13 DEF Close
  <2>2. \A x \in Sinks : phase'[x] = IF x = s THEN "closed" ELSE phase[x]
    BY <2>1 DEF Discipline, TypeOK
  <2>3. TypeOK' /\ Construction' /\ Usage'
    BY <2>1, <2>2 DEF Discipline, TypeOK, Construction, Usage, Constructing, Calling, disk, table, history
  <2>4. Locking'
    <3>1. ASSUME NEW u \in Threads, pc[u] \in {"write", "fsync", "settle"}
          PROVE  phase'[job[u].sink] = "ready"
      <4>1. InCritical(u)
        BY <3>1 DEF InCritical
      <4>2. lock[file[job[u].sink]] = u /\ job[u].sink \in Sinks /\ phase[job[u].sink] = "ready"
        BY <3>1, <4>1, CriticalFacts DEF FileOf
      <4>3. job[u].sink # s
        BY <2>1, <4>2, SentinelAssumption
      <4> QED
        BY <2>2, <4>2, <4>3
    <3> QED
      BY <2>1, <3>1, SameCritical DEF table, InCritical, FileOf
  <2> QED
    BY <2>3, <2>4 DEF Discipline
<1>14. ASSUME NEW e \in Entries, Remove(e) PROVE Discipline'
  BY <1>14 DEF Remove, Discipline, TypeOK, Construction, Usage, Locking, Constructing,
     Calling, InCritical, FileOf, table, instances, history
<1>15. ASSUME NEW t \in Threads, Interrupt(t) PROVE Discipline'
  <2>1. /\ Answer(t, "interrupted") /\ "interrupted" \in Replies /\ Calling(t)
        /\ UNCHANGED <<disk, kind, latched, instances, issued, crashes>>
    BY <1>15 DEF Interrupt, Replies, Calling
  <2>2. CASE pc[t] # "lock"
    <3>1. InCritical(t) /\ Release(t) /\ latched' \in [Files -> BOOLEAN]
      BY <1>15, <2>1, <2>2 DEF Interrupt, InCritical, Discipline, TypeOK
    <3> QED
      BY <2>1, <3>1, LeaveCritical
  <2>3. CASE pc[t] = "lock"
    <3>1. lock' = lock
      BY <1>15, <2>3 DEF Interrupt
    <3>2. /\ reply' \in [Calls -> Replies]
          /\ pc' \in [Threads -> {"idle", "dirsync", "register", "lock", "check", "write",
                                  "fsync", "settle"}]
          /\ job' \in [Threads -> Job]
          /\ pc'[t] = "idle"
          /\ \A u \in Threads \ {t} : pc'[u] = pc[u] /\ job'[u] = job[u]
      BY <2>1, EndOfCall
    <3>3. TypeOK'
      BY <2>1, <3>1, <3>2 DEF Discipline, TypeOK, disk, instances
    <3>4. Construction' /\ Usage'
      BY <2>1, <3>2 DEF Discipline, Construction, Usage, Constructing, Calling, instances
    <3>5. Locking'
      <4>1. \A u \in Threads : InCritical(u)' <=> InCritical(u)
        BY <2>3, <3>2 DEF InCritical
      <4>2. \A u \in Threads : InCritical(u) => FileOf(u)' = FileOf(u)
        BY <2>1, <2>3, <3>2 DEF FileOf, InCritical, instances
      <4>3. \A u \in Threads : pc'[u] \in {"write", "fsync", "settle"} => phase'[job'[u].sink] = "ready"
        BY <2>1, <3>2 DEF Discipline, Locking, instances
      <4> QED
        BY <3>1, <4>1, <4>2, <4>3, SameCritical
    <3> QED
      BY <3>3, <3>4, <3>5 DEF Discipline
  <2> QED
    BY <2>2, <2>3
<1>16. ASSUME Crash PROVE Discipline'
  <2>1. content' \in [Files -> Seq(Byte)]
    <3>1. PICK kept \in [Files -> UNION {synced[f]..Len(content[f]) : f \in Files}] :
             /\ \A f \in Files : kept[f] \in synced[f]..Len(content[f])
             /\ content' = [f \in Files |-> SubSeq(content[f], 1, kept[f])]
      BY <1>16 DEF Crash
    <3>2. ASSUME NEW f \in Files PROVE SubSeq(content[f], 1, kept[f]) \in Seq(Byte)
      <4>1. content[f] \in Seq(Byte) /\ synced[f] \in Nat
        BY DEF Discipline, TypeOK
      <4>2. kept[f] \in synced[f]..Len(content[f])
        BY <3>1
      <4>3. kept[f] \in 0..Len(content[f])
        BY <4>1, <4>2
      <4> QED
        BY <4>1, <4>3
    <3> QED
      BY <3>1, <3>2
  <2>2. dir' \in [Entries -> Files \cup {NoFile}] /\ savedDir' = dir'
    BY <1>16 DEF Crash, Discipline, TypeOK
  <2>3. reply' \in [Calls -> Replies]
    BY <1>16 DEF Crash, Discipline, TypeOK, Replies
  <2>4. NoJob \in Job
    BY RecordLenAssumption, EnvironmentAssumption DEF NoJob, JobOf, Job, Results
  <2>5. TypeOK'
    BY <1>16, <2>1, <2>2, <2>3, <2>4, EnvironmentAssumption DEF Crash, Discipline, TypeOK
  <2> QED
    BY <1>16, <2>5 DEF Crash, Discipline, Construction, Usage, Locking, Constructing,
       Calling, InCritical, FileOf
<1>17. CASE UNCHANGED vars
  BY <1>17 DEF vars, disk, table, instances, history, Discipline, TypeOK, Construction, Usage,
     Locking, Constructing, Calling, InCritical, FileOf
<1> QED
  BY <1>1, <1>2, <1>3, <1>4, <1>5, <1>6, <1>7, <1>8, <1>9, <1>10, <1>11, <1>12, <1>13, <1>14,
     <1>15, <1>16, <1>17 DEF Next, Work, Step

LEMMA SpecDiscipline == Spec => []Discipline
  BY DisciplineInit, DisciplineStep, PTL DEF Spec

\* Every reachable state is of the declared type: whatever the threads, signals and
\* crashes do, the sinks' state stays within its domains.
THEOREM TypeCorrect == Spec => []TypeOK
<1>1. Discipline => TypeOK
  BY DEF Discipline
<1> QED
  BY <1>1, SpecDiscipline, PTL

\* A thread that writes or syncs has the file to itself, through a descriptor that no
\* close has taken away, crashes and signals included.
THEOREM WritersExclude == Spec => []WriterHoldsOpenSink
<1>1. ASSUME Discipline PROVE WriterHoldsOpenSink
  <2>1. ASSUME NEW t \in Threads, Writing(t) PROVE InCritical(t) /\ phase[job[t].sink] = "ready"
    BY <1>1, <2>1, CriticalFacts DEF Writing, InCritical
  <2>2. ASSUME NEW t \in Threads, NEW u \in Threads \ {t}, Writing(t), Writing(u)
        PROVE  FileOf(u) # FileOf(t)
    BY <1>1, <2>1, <2>2 DEF Discipline, Locking
  <2> QED
    BY <2>1, <2>2 DEF WriterHoldsOpenSink
<1> QED
  BY <1>1, SpecDiscipline, PTL

--------------------------------------------------------------------------------
(* Framing, within one process life.                                            *)

\* What a thread in a call knows of the end of its file.  A partial write is the only
\* way to leave a torn record, and only its writer can see it unlatched.
EndOfFile(t) ==
    /\ pc[t] \in {"lock", "check"} => job[t].written = 0
    /\ pc[t] = "check" => (Torn(FileOf(t)) => latched[FileOf(t)])
    /\ pc[t] = "write" =>
          /\ job[t].written < RecordLen
          /\ job[t].written = 0 => ~Torn(FileOf(t))
          /\ job[t].written > 0 =>
                /\ content[FileOf(t)] # <<>>
                /\ content[FileOf(t)][Len(content[FileOf(t)])].rec = job[t].rec
                /\ content[FileOf(t)][Len(content[FileOf(t)])].at = job[t].written
    /\ pc[t] = "fsync" => ~Torn(FileOf(t))
    /\ pc[t] = "settle" => (Torn(FileOf(t)) => job[t].result = "partial")

Framing == Framed /\ TornImpliesLatched /\ \A t \in Threads : EndOfFile(t)

LEMMA FramingInit == Init => Framing
  BY DEF Init, Framing, Framed, TornImpliesLatched, Torn, EndOfFile

\* A step that writes nothing keeps the framing; what is left to show is the end of
\* the acting thread's file and the latch of a file whose lock is or comes free.
LEMMA NothingWritten ==
  ASSUME Discipline, Framing, NEW t \in Threads,
         content' = content,
         \A f \in Files : latched[f] => latched'[f],
         \A u \in Threads \ {t} : pc'[u] = pc[u] /\ job'[u] = job[u],
         \A u \in Threads \ {t} : InCritical(u) => FileOf(u)' = FileOf(u),
         EndOfFile(t)',
         \A f \in Files : lock'[f] = NoThread /\ lock[f] # NoThread /\ Torn(f) => latched'[f]
  PROVE  Framing'
<1>1. Framed'
  BY DEF Framing, Framed
<1>2. TornImpliesLatched'
  BY DEF Framing, TornImpliesLatched, Torn
<1>3. ASSUME NEW u \in Threads \ {t} PROVE EndOfFile(u)'
  <2>1. pc'[u] = pc[u] /\ job'[u] = job[u] /\ EndOfFile(u)
    BY DEF Framing
  <2>2. CASE InCritical(u)
    <3>1. FileOf(u)' = FileOf(u) /\ FileOf(u) \in Files
      BY <2>2, CriticalFacts
    <3> QED
      BY <2>1, <3>1 DEF EndOfFile, Torn
  <2>3. CASE ~InCritical(u)
    BY <2>1, <2>3 DEF EndOfFile, InCritical
  <2> QED
    BY <2>2, <2>3
<1> QED
  BY <1>1, <1>2, <1>3 DEF Framing

\* The bytes a thread appends fit the end of its file.
LEMMA AppendKeepsFramed ==
  ASSUME Discipline, Framing, NEW t \in Threads, pc[t] = "write",
         NEW n \in 1..(RecordLen - job[t].written),
         content' = [content EXCEPT ![FileOf(t)] = @ \o NextBytes(t, n)]
  PROVE  /\ Framed'
         /\ content'[FileOf(t)] # <<>>
         /\ content'[FileOf(t)][Len(content'[FileOf(t)])].rec = job[t].rec
         /\ content'[FileOf(t)][Len(content'[FileOf(t)])].at = job[t].written + n
<1> DEFINE f == FileOf(t)
           old == content[f]
           new == NextBytes(t, n)
<1>1. /\ f \in Files /\ Calling(t) /\ job[t] \in Job /\ job[t].rec \in Calls
      /\ EndOfFile(t)
  BY CriticalFacts DEF InCritical, Framing
<1>2. old \in Seq(Byte)
  BY <1>1 DEF Discipline, TypeOK
<1>3. /\ new \in Seq(Byte) /\ Len(new) = n
      /\ \A k \in 1..n : new[k].rec = job[t].rec /\ new[k].at = job[t].written + k
  <2>1. /\ NextBytes(t, n) \in Seq(Byte) /\ Len(NextBytes(t, n)) = n
        /\ \A k \in 1..n : NextBytes(t, n)[k] =
              [rec |-> job[t].rec, at |-> job[t].written + k, kind |-> KindOf[job[t].sink]]
    BY <1>1, NextBytesShape
  <2> QED
    BY <2>1
<1>4. job[t].written \in Nat /\ n \in Nat /\ n >= 1 /\ RecordLen \in Nat
  BY <1>1, RecordLenAssumption DEF Job
<1>5. content'[f] = old \o new /\ \A g \in Files \ {f} : content'[g] = content[g]
  BY <1>1 DEF Discipline, TypeOK
<1> HIDE DEF f, old, new
<1>6. /\ old \o new \in Seq(Byte)
      /\ Len(old \o new) = Len(old) + n
      /\ Len(old) \in Nat
      /\ \A k \in 1..Len(old) : (old \o new)[k] = old[k]
      /\ \A k \in 1..n : (old \o new)[Len(old) + k] = new[k]
  BY <1>2, <1>3, <1>4
<1>7. /\ old = <<>> => job[t].written = 0
      /\ old # <<>> => Follows(old[Len(old)], new[1])
  <2>1. old # <<>> => \/ old[Len(old)].rec = job[t].rec /\ old[Len(old)].at = job[t].written
                      \/ old[Len(old)].at = RecordLen /\ job[t].written = 0
    BY <1>1, <1>4 DEF EndOfFile, Torn, f, old
  <2>2. old = <<>> => job[t].written = 0
    BY <1>1, <1>4 DEF EndOfFile, f, old
  <2>3. new[1].rec = job[t].rec /\ new[1].at = job[t].written + 1
    BY <1>3, <1>4
  <2> QED
    BY <1>4, <2>1, <2>2, <2>3 DEF Follows
<1>8. \A k \in 2..n : Follows(new[k - 1], new[k])
  <2> SUFFICES ASSUME NEW k \in 2..n PROVE Follows(new[k - 1], new[k])
    OBVIOUS
  <2>1. k - 1 \in 1..n /\ k \in 1..n /\ job[t].written + k = job[t].written + (k - 1) + 1
    BY <1>4
  <2> QED
    BY <1>3, <2>1 DEF Follows
<1>9. /\ old # <<>> => old[1].at = 1
      /\ \A k \in 2..Len(old) : Follows(old[k - 1], old[k])
  BY <1>1 DEF Framing, Framed, f, old
<1>10. (old \o new)[1].at = 1
  <2>1. CASE old = <<>>
    BY <2>1, <1>3, <1>4, <1>6, <1>7
  <2>2. CASE old # <<>>
    <3>1. Len(old) >= 1
      BY <2>2, <1>2
    <3> QED
      BY <2>2, <3>1, <1>6, <1>9
  <2> QED
    BY <2>1, <2>2
<1>11. ASSUME NEW k \in 2..Len(old \o new)
       PROVE  Follows((old \o new)[k - 1], (old \o new)[k])
  <2>1. CASE k <= Len(old)
    <3>1. k \in 2..Len(old) /\ k - 1 \in 1..Len(old) /\ k \in 1..Len(old)
      BY <2>1, <1>6
    <3> QED
      BY <3>1, <1>6, <1>9
  <2>2. CASE k = Len(old) + 1
    <3>1. Len(old) >= 1 /\ Len(old) \in 1..Len(old) /\ 1 \in 1..n
      BY <2>2, <1>4, <1>6
    <3>2. old # <<>>
      BY <3>1
    <3>3. (old \o new)[k] = new[1] /\ (old \o new)[k - 1] = old[Len(old)]
      BY <2>2, <3>1, <1>6
    <3> QED
      BY <3>2, <3>3, <1>7
  <2>3. CASE k > Len(old) + 1
    <3>1. PICK j \in 2..n : k = Len(old) + j
      <4>1. k - Len(old) \in 2..n /\ k = Len(old) + (k - Len(old))
        BY <2>3, <1>4, <1>6
      <4> QED
        BY <4>1
    <3>2. j - 1 \in 1..n /\ j \in 1..n /\ k - 1 = Len(old) + (j - 1)
      BY <3>1, <1>4, <1>6
    <3>3. (old \o new)[k] = new[j] /\ (old \o new)[k - 1] = new[j - 1]
      BY <3>1, <3>2, <1>6
    <3> QED
      BY <3>1, <3>3, <1>8
  <2> QED
    BY <2>1, <2>2, <2>3, <1>6
<1>12. Framed'
  <2>1. ASSUME NEW g \in Files
        PROVE  /\ content'[g] # <<>> => content'[g][1].at = 1
               /\ \A k \in 2..Len(content'[g]) : Follows(content'[g][k - 1], content'[g][k])
    <3>1. CASE g = f
      BY <3>1, <1>5, <1>10, <1>11
    <3>2. CASE g # f
      BY <3>2, <1>5 DEF Framing, Framed
    <3> QED
      BY <3>1, <3>2
  <2> QED
    BY <2>1 DEF Framed, Follows
<1>13. (old \o new)[Len(old \o new)] = new[n] /\ old \o new # <<>>
  <2>1. n \in 1..n /\ Len(old) + n >= 1
    BY <1>4, <1>6
  <2> QED
    BY <2>1, <1>6
<1>14. new[n].rec = job[t].rec /\ new[n].at = job[t].written + n
  BY <1>3, <1>4
<1> QED
  BY <1>5, <1>12, <1>13, <1>14 DEF f

LEMMA FramingStep == Discipline /\ Discipline' /\ Framing /\ [Work]_vars => Framing'
<1> SUFFICES ASSUME Discipline, Discipline', Framing, [Work]_vars PROVE Framing'
  OBVIOUS
<1>1. ASSUME NEW t \in Threads, SyncDirectory(t) PROVE Framing'
  <2>1. /\ pc[t] = "dirsync" /\ pc' = [pc EXCEPT ![t] = "register"]
        /\ UNCHANGED <<content, latched, lock, file, job>>
    BY <1>1 DEF SyncDirectory, table, instances
  <2>2. pc'[t] = "register" /\ \A u \in Threads \ {t} : pc'[u] = pc[u]
    BY <2>1 DEF Discipline, TypeOK
  <2> QED
    BY <2>1, <2>2, NothingWritten DEF EndOfFile, FileOf
<1>2. ASSUME NEW t \in Threads, FailConstruction(t) \/ Register(t) PROVE Framing'
  <2>1. /\ Constructing(t) /\ pc' = [pc EXCEPT ![t] = "idle"] /\ job' = [job EXCEPT ![t] = NoJob]
        /\ file' = file \/ file' = [file EXCEPT ![job[t].sink] = NoFile]
        /\ UNCHANGED <<content, latched, lock>>
    BY <1>2 DEF FailConstruction, Register, CloseAndRaise, Constructing, disk, table
  <2>2. pc'[t] = "idle" /\ \A u \in Threads \ {t} : pc'[u] = pc[u] /\ job'[u] = job[u]
    BY <2>1 DEF Discipline, TypeOK
  <2>3. ASSUME NEW u \in Threads \ {t}, InCritical(u) PROVE FileOf(u)' = FileOf(u)
    <3>1. job[u].sink # job[t].sink /\ job[u].sink \in Sinks
      BY <2>1, <2>3, CriticalFacts DEF Discipline, Construction
    <3> QED
      BY <2>1, <2>2, <3>1 DEF FileOf, Discipline, TypeOK
  <2> QED
    BY <2>1, <2>2, <2>3, NothingWritten DEF EndOfFile
<1>3. ASSUME NEW t \in Threads, NEW s \in Sinks, NEW p \in Paths, Open(t, s, p) PROVE Framing'
  <2>1. /\ phase[s] = "absent" /\ pc[t] = "idle"
        /\ pc'[t] \in {"dirsync", "register"} /\ latched' = latched /\ lock' = lock
        /\ \A u \in Threads \ {t} : pc'[u] = pc[u] /\ job'[u] = job[u]
        /\ \A x \in Sinks \ {s} : file'[x] = file[x]
    BY <1>3 DEF Open, AfterOpen, table, Discipline, TypeOK
  <2>2. ASSUME NEW u \in Threads, InCritical(u)
        PROVE  u # t /\ FileOf(u)' = FileOf(u) /\ FileOf(u) \in Files
    BY <2>1, <2>2, CriticalFacts DEF FileOf, InCritical
  <2>3. CASE content' = content
    BY <2>1, <2>2, <2>3, NothingWritten DEF EndOfFile
  <2>4. CASE \E f \in Files : Unused(f) /\ content' = [content EXCEPT ![f] = <<>>]
    <3>1. PICK f \in Files : Unused(f) /\ content' = [content EXCEPT ![f] = <<>>]
      BY <2>4
    <3>2. content'[f] = <<>> /\ \A g \in Files \ {f} : content'[g] = content[g]
      BY <3>1 DEF Discipline, TypeOK
    <3>3. Framed'
      BY <3>2 DEF Framing, Framed, Follows
    <3>4. ~Torn(f)' /\ \A g \in Files \ {f} : Torn(g)' = Torn(g)
      BY <3>2 DEF Torn
    <3>5. TornImpliesLatched'
      BY <2>1, <3>4 DEF Framing, TornImpliesLatched
    <3>6. ASSUME NEW u \in Threads PROVE EndOfFile(u)'
      <4>1. CASE u = t
        BY <2>1, <4>1 DEF EndOfFile
      <4>2. CASE u # t /\ ~InCritical(u)
        BY <2>1, <4>2 DEF Framing, EndOfFile, InCritical
      <4>3. CASE u # t /\ InCritical(u)
        <5>1. /\ pc'[u] = pc[u] /\ job'[u] = job[u] /\ EndOfFile(u)
              /\ FileOf(u)' = FileOf(u) /\ FileOf(u) \in Files
          BY <2>1, <2>2, <4>3 DEF Framing
        <5>2. CASE FileOf(u) # f
          BY <2>1, <3>2, <5>1, <5>2 DEF EndOfFile, Torn
        <5>3. CASE FileOf(u) = f
          <6>1. pc[u] # "write"
            BY <3>1, <4>3, <5>3, CriticalFacts DEF Unused, HoldsDescriptor, FileOf
          <6> QED
            BY <2>1, <3>2, <5>1, <5>3, <6>1 DEF EndOfFile, Torn
        <5> QED
          BY <5>2, <5>3
      <4> QED
        BY <4>1, <4>2, <4>3
    <3> QED
      BY <3>3, <3>5, <3>6 DEF Framing
  <2> QED
    BY <1>3, <2>3, <2>4 DEF Open
<1>4. ASSUME NEW t \in Threads, NEW s \in Sinks, NEW encodable \in BOOLEAN, Call(t, s, encodable)
      PROVE  Framing'
  <2>1. /\ pc[t] = "idle" /\ UNCHANGED <<content, latched, lock, file>>
        /\ \/ pc' = [pc EXCEPT ![t] = "lock"] /\ job' = [job EXCEPT ![t] = JobOf(s, issued + 1)]
           \/ UNCHANGED <<pc, job>>
    BY <1>4 DEF Call, disk, table, instances
  <2>2. /\ pc'[t] = "idle" \/ (pc'[t] = "lock" /\ job'[t].written = 0)
        /\ \A u \in Threads \ {t} : pc'[u] = pc[u] /\ job'[u] = job[u]
    BY <2>1 DEF Discipline, TypeOK, JobOf
  <2>3. EndOfFile(t)'
    BY <2>2 DEF EndOfFile
  <2>4. \A u \in Threads \ {t} : FileOf(u)' = FileOf(u)
    BY <2>1, <2>2 DEF FileOf
  <2> QED
    BY <2>1, <2>2, <2>3, <2>4, NothingWritten
<1>5. ASSUME NEW t \in Threads, Acquire(t) PROVE Framing'
  <2>1. /\ pc[t] = "lock" /\ lock[FileOf(t)] = NoThread
        /\ pc' = [pc EXCEPT ![t] = "check"] /\ lock' = [lock EXCEPT ![FileOf(t)] = t]
        /\ UNCHANGED <<content, latched, file, job>>
    BY <1>5 DEF Acquire, disk, instances
  <2>2. FileOf(t) \in Files
    BY <2>1 DEF Discipline, Construction, Usage, Calling, FileOf
  <2>3. /\ pc'[t] = "check" /\ \A u \in Threads \ {t} : pc'[u] = pc[u]
        /\ \A f \in Files : lock'[f] = NoThread => lock[f] = NoThread
    BY <2>1, <2>2, SentinelAssumption DEF Discipline, TypeOK
  <2>4. \A u \in Threads : FileOf(u)' = FileOf(u)
    BY <2>1 DEF FileOf
  <2>5. Torn(FileOf(t)) => latched[FileOf(t)]
    BY <2>1, <2>2 DEF Framing, TornImpliesLatched
  <2>6. EndOfFile(t)'
    BY <2>1, <2>3, <2>4, <2>5 DEF Framing, EndOfFile, Torn
  <2> QED
    BY <2>1, <2>3, <2>4, <2>6, NothingWritten
<1>6. ASSUME NEW t \in Threads, Refuse(t) \/ Settle(t) PROVE Framing'
  <2>1. /\ InCritical(t) /\ pc' = [pc EXCEPT ![t] = "idle"] /\ job' = [job EXCEPT ![t] = NoJob]
        /\ Release(t) /\ UNCHANGED <<content, file>>
        /\ \/ latched' = latched /\ pc[t] = "check"
           \/ /\ latched' = [latched EXCEPT ![FileOf(t)] = @ \/ job[t].result = "partial"]
              /\ pc[t] = "settle"
    BY <1>6 DEF Refuse, Settle, Answer, InCritical, disk, instances
  <2>2. FileOf(t) \in Files
    BY <2>1, CriticalFacts
  <2>3. /\ pc'[t] = "idle" /\ \A u \in Threads \ {t} : pc'[u] = pc[u] /\ job'[u] = job[u]
        /\ \A f \in Files \ {FileOf(t)} : lock'[f] = lock[f]
    BY <2>1, <2>2 DEF Discipline, TypeOK, Release
  <2>4. /\ \A f \in Files : latched[f] => latched'[f]
        /\ pc[t] = "settle" /\ job[t].result = "partial" => latched'[FileOf(t)]
        /\ pc[t] = "check" => latched' = latched
    BY <2>1, <2>2 DEF Discipline, TypeOK
  <2>5. Torn(FileOf(t)) => latched'[FileOf(t)]
    BY <2>1, <2>2, <2>4 DEF Framing, EndOfFile
  <2>6. EndOfFile(t)'
    BY <2>3 DEF EndOfFile
  <2>7. \A u \in Threads \ {t} : FileOf(u)' = FileOf(u)
    BY <2>1, <2>3 DEF FileOf
  <2>8. \A f \in Files : lock'[f] = NoThread /\ lock[f] # NoThread /\ Torn(f) => latched'[f]
    BY <2>3, <2>5
  <2> QED
    BY <2>1, <2>3, <2>4, <2>6, <2>7, <2>8, NothingWritten
<1>7. ASSUME NEW t \in Threads, StartWriting(t) PROVE Framing'
  <2>1. /\ pc[t] = "check" /\ ~latched[FileOf(t)] /\ pc' = [pc EXCEPT ![t] = "write"]
        /\ UNCHANGED <<content, latched, lock, file, job>>
    BY <1>7 DEF StartWriting, MustRefuse, disk, table, instances
  <2>2. /\ pc'[t] = "write" /\ \A u \in Threads \ {t} : pc'[u] = pc[u]
        /\ \A u \in Threads : FileOf(u)' = FileOf(u)
    BY <2>1 DEF Discipline, TypeOK, FileOf
  <2>3. job[t].written = 0 /\ ~Torn(FileOf(t))
    BY <2>1 DEF Framing, EndOfFile
  <2>4. EndOfFile(t)'
    BY <2>1, <2>2, <2>3, RecordLenAssumption DEF EndOfFile, Torn
  <2> QED
    BY <2>1, <2>2, <2>4, NothingWritten
<1>8. ASSUME NEW t \in Threads, WriteSome(t) PROVE Framing'
  <2>1. PICK n \in 1..(RecordLen - job[t].written) :
           /\ content' = [content EXCEPT ![FileOf(t)] = @ \o NextBytes(t, n)]
           /\ IF job[t].written + n < RecordLen
              THEN job' = [job EXCEPT ![t].written = @ + n] /\ pc' = pc
              ELSE \/ job' = [job EXCEPT ![t].written = @ + n] /\ pc' = [pc EXCEPT ![t] = "fsync"]
                   \/ /\ job' = [job EXCEPT ![t].written = @ + n, ![t].result = "complete"]
                      /\ pc' = [pc EXCEPT ![t] = "settle"]
    BY <1>8 DEF WriteSome
  <2>2. pc[t] = "write" /\ UNCHANGED <<latched, lock, file>>
    BY <1>8 DEF WriteSome, table, instances
  <2>3. /\ InCritical(t) /\ FileOf(t) \in Files /\ job[t] \in Job /\ lock[FileOf(t)] = t
    BY <2>2, CriticalFacts DEF InCritical
  <2>4. job[t].written \in Nat /\ n \in Nat /\ n >= 1 /\ RecordLen \in Nat /\ job[t].written + n <= RecordLen
    BY <2>3, RecordLenAssumption DEF Job
  <2>5. /\ Framed'
        /\ content'[FileOf(t)] # <<>>
        /\ content'[FileOf(t)][Len(content'[FileOf(t)])].rec = job[t].rec
        /\ content'[FileOf(t)][Len(content'[FileOf(t)])].at = job[t].written + n
    BY <2>1, <2>2, AppendKeepsFramed
  <2>6. /\ job'[t].rec = job[t].rec /\ job'[t].written = job[t].written + n
        /\ \A u \in Threads \ {t} : pc'[u] = pc[u] /\ job'[u] = job[u]
        /\ \A u \in Threads : job'[u].sink = job[u].sink
        /\ IF job[t].written + n < RecordLen THEN pc'[t] = "write" ELSE pc'[t] \in {"fsync", "settle"}
    <3>1. CASE job[t].written + n < RecordLen
      <4>1. job' = [job EXCEPT ![t].written = @ + n] /\ pc' = pc
        BY <2>1, <3>1
      <4> QED
        BY <2>2, <3>1, <4>1 DEF Discipline, TypeOK, Job
    <3>2. CASE ~(job[t].written + n < RecordLen)
      <4>1. CASE job' = [job EXCEPT ![t].written = @ + n] /\ pc' = [pc EXCEPT ![t] = "fsync"]
        BY <3>2, <4>1 DEF Discipline, TypeOK, Job
      <4>2. CASE /\ job' = [job EXCEPT ![t].written = @ + n, ![t].result = "complete"]
                 /\ pc' = [pc EXCEPT ![t] = "settle"]
        BY <3>2, <4>2 DEF Discipline, TypeOK, Job
      <4> QED
        BY <2>1, <3>2, <4>1, <4>2
    <3> QED
      BY <3>1, <3>2
  <2>7. \A u \in Threads : FileOf(u)' = FileOf(u)
    BY <2>2, <2>6 DEF FileOf
  <2>8. \A f \in Files \ {FileOf(t)} : content'[f] = content[f]
    BY <2>1, <2>3 DEF Discipline, TypeOK
  <2>9. TornImpliesLatched'
    BY <2>2, <2>3, <2>8, SentinelAssumption DEF Framing, TornImpliesLatched, Torn
  <2>10. EndOfFile(t)'
    <3>1. CASE job[t].written + n < RecordLen
      BY <3>1, <2>4, <2>5, <2>6, <2>7 DEF EndOfFile
    <3>2. CASE job[t].written + n = RecordLen
      <4>1. ~Torn(FileOf(t))'
        BY <3>2, <2>5, <2>7 DEF Torn
      <4> QED
        BY <3>2, <4>1, <2>4, <2>6 DEF EndOfFile
    <3> QED
      BY <3>1, <3>2, <2>4
  <2>11. ASSUME NEW u \in Threads \ {t} PROVE EndOfFile(u)'
    <3>1. pc'[u] = pc[u] /\ job'[u] = job[u] /\ EndOfFile(u) /\ FileOf(u)' = FileOf(u)
      BY <2>6, <2>7 DEF Framing
    <3>2. CASE InCritical(u)
      <4>1. FileOf(u) \in Files \ {FileOf(t)}
        BY <2>3, <3>2, CriticalFacts
      <4> QED
        BY <2>2, <2>8, <3>1, <4>1 DEF EndOfFile, Torn
    <3>3. CASE ~InCritical(u)
      BY <3>1, <3>3 DEF EndOfFile, InCritical
    <3> QED
      BY <3>2, <3>3
  <2> QED
    BY <2>5, <2>9, <2>10, <2>11 DEF Framing
<1>9. ASSUME NEW t \in Threads, StopWriting(t) PROVE Framing'
  <2>1. /\ pc[t] = "write" /\ pc' = [pc EXCEPT ![t] = "settle"]
        /\ job' = [job EXCEPT ![t].result = IF job[t].written > 0 THEN "partial" ELSE "nothing"]
        /\ UNCHANGED <<content, latched, lock, file>>
    BY <1>9 DEF StopWriting, disk, table, instances
  <2>2. /\ pc'[t] = "settle" /\ \A u \in Threads \ {t} : pc'[u] = pc[u] /\ job'[u] = job[u]
        /\ job'[t].sink = job[t].sink
        /\ job'[t].result = IF job[t].written > 0 THEN "partial" ELSE "nothing"
        /\ job[t].written \in Nat
    BY <2>1 DEF Discipline, TypeOK, Job
  <2>3. \A u \in Threads : FileOf(u)' = FileOf(u)
    BY <2>1, <2>2 DEF FileOf
  <2>4. EndOfFile(t)'
    BY <2>1, <2>2, <2>3 DEF Framing, EndOfFile, Torn
  <2> QED
    BY <2>1, <2>2, <2>3, <2>4, NothingWritten
<1>10. ASSUME NEW t \in Threads, Fsync(t) PROVE Framing'
  <2>1. /\ pc[t] = "fsync" /\ pc' = [pc EXCEPT ![t] = "settle"]
        /\ \E r \in {"complete", "sync_failed"} : job' = [job EXCEPT ![t].result = r]
        /\ UNCHANGED <<content, latched, lock, file>>
    BY <1>10 DEF Fsync, table, instances
  <2>2. /\ pc'[t] = "settle" /\ \A u \in Threads \ {t} : pc'[u] = pc[u] /\ job'[u] = job[u]
        /\ job'[t].sink = job[t].sink
    BY <2>1 DEF Discipline, TypeOK, Job
  <2>3. \A u \in Threads : FileOf(u)' = FileOf(u)
    BY <2>1, <2>2 DEF FileOf
  <2>4. EndOfFile(t)'
    BY <2>1, <2>2, <2>3 DEF Framing, EndOfFile, Torn
  <2> QED
    BY <2>1, <2>2, <2>3, <2>4, NothingWritten
<1>11. ASSUME NEW t \in Threads, NEW s \in Sinks, Close(t, s) PROVE Framing'
  BY <1>11 DEF Close, disk, table, history, Framing, Framed, TornImpliesLatched, Torn, EndOfFile, FileOf
<1>12. ASSUME NEW e \in Entries, Remove(e) PROVE Framing'
  BY <1>12 DEF Remove, table, instances, history, Framing, Framed, TornImpliesLatched, Torn, EndOfFile, FileOf
<1>13. CASE UNCHANGED vars
  BY <1>13 DEF vars, disk, table, instances, history, Framing, Framed, TornImpliesLatched, Torn, EndOfFile, FileOf
<1> QED
  BY <1>1, <1>2, <1>3, <1>4, <1>5, <1>6, <1>7, <1>8, <1>9, <1>10, <1>11, <1>12, <1>13
     DEF Work, Step

LEMMA LifeFraming == LifeSpec => []Framing
<1>1. [Work]_vars => [Next]_vars
  BY DEF Next
<1>2. Init => Discipline /\ Framing
  BY DisciplineInit, FramingInit
<1>3. Discipline /\ Framing /\ [Work]_vars => (Discipline /\ Framing)'
  BY <1>1, DisciplineStep, FramingStep
<1> QED
  BY <1>2, <1>3, PTL DEF LifeSpec

\* While the process lives and no signal interrupts a write, every file is whole
\* records with at most one torn record at its end: no interleaving of writers, no
\* order of partial writes, closings and reopenings puts damage in the middle.
THEOREM NoMidFileDamage == LifeSpec => []Framed
<1>1. Framing => Framed
  BY DEF Framing
<1> QED
  BY <1>1, LifeFraming, PTL

\* While the process lives, a torn record at the end of a file nobody is writing is
\* always published through the latch.
THEOREM DamageIsPublished == LifeSpec => []TornImpliesLatched
<1>1. Framing => TornImpliesLatched
  BY DEF Framing
<1> QED
  BY <1>1, LifeFraming, PTL

--------------------------------------------------------------------------------
(* What a step leaves alone.                                                    *)

\* t takes a step, of its own or by a signal.
Acts(t) ==
    \/ Step(t) \/ Interrupt(t)
    \/ \E s \in Sinks, p \in Paths : Open(t, s, p)
    \/ \E s \in Sinks, encodable \in BOOLEAN : Call(t, s, encodable)
    \/ \E s \in Sinks : Close(t, s)

LEMMA WhoActs ==
  ASSUME [Next]_vars
  PROVE  (\E t \in Threads : Acts(t)) \/ (\E e \in Entries : Remove(e)) \/ Crash \/ UNCHANGED vars
BY DEF Next, Work, Acts

\* An instance that has been constructed keeps its file until the process dies.
LEMMA ConstructedStays ==
  ASSUME Discipline, [Next]_vars, ~Crash, NEW s \in Sinks, phase[s] \in {"ready", "closed"}
  PROVE  phase'[s] \in {"ready", "closed"} /\ file'[s] = file[s]
<1>1. ASSUME NEW t \in Threads, SyncDirectory(t) \/ Acquire(t) \/ Refuse(t) \/ StartWriting(t)
                                \/ WriteSome(t) \/ StopWriting(t) \/ Fsync(t) \/ Settle(t)
      PROVE  UNCHANGED <<phase, file>>
  BY <1>1 DEF SyncDirectory, Acquire, Refuse, StartWriting, WriteSome, StopWriting, Fsync, Settle,
     instances
<1>2. ASSUME NEW t \in Threads, FailConstruction(t) \/ Register(t)
      PROVE  phase'[s] \in {"ready", "closed"} /\ file'[s] = file[s]
  <2>1. job[t].sink # s
    BY <1>2 DEF FailConstruction, Register, Discipline, Construction, Constructing
  <2> QED
    BY <1>2, <2>1 DEF FailConstruction, Register, CloseAndRaise, Discipline, TypeOK
<1>3. ASSUME NEW t \in Threads, NEW x \in Sinks, NEW p \in Paths, Open(t, x, p)
      PROVE  phase'[s] \in {"ready", "closed"} /\ file'[s] = file[s]
  BY <1>3 DEF Open, Discipline, TypeOK
<1>4. ASSUME NEW t \in Threads, NEW x \in Sinks, Close(t, x)
      PROVE  phase'[s] \in {"ready", "closed"} /\ file'[s] = file[s]
  BY <1>4 DEF Close, Discipline, TypeOK
<1>5. ASSUME NEW t \in Threads, \/ Interrupt(t)
                                \/ \E x \in Sinks, encodable \in BOOLEAN : Call(t, x, encodable)
      PROVE  UNCHANGED <<phase, file>>
  BY <1>5 DEF Interrupt, Call, instances
<1>6. ASSUME (\E e \in Entries : Remove(e)) \/ UNCHANGED vars
      PROVE  UNCHANGED <<phase, file>>
  BY <1>6 DEF Remove, vars, instances
<1> QED
  BY <1>1, <1>2, <1>3, <1>4, <1>5, <1>6 DEF Next, Work, Step

\* While one thread acts, no other moves, and what it works on stays its own.
LEMMA Bystanders ==
  ASSUME Discipline, NEW t \in Threads, Acts(t), NEW u \in Threads \ {t}
  PROVE  pc'[u] = pc[u] /\ job'[u] = job[u] /\ (Calling(u) => FileOf(u)' = FileOf(u))
<1>1. pc'[u] = pc[u] /\ job'[u] = job[u]
  <2> USE DEF Discipline, TypeOK
  <2>1. CASE SyncDirectory(t) \/ FailConstruction(t) \/ Register(t)
    BY <2>1 DEF SyncDirectory, FailConstruction, Register, CloseAndRaise
  <2>2. CASE Acquire(t) \/ Refuse(t) \/ StartWriting(t) \/ Settle(t) \/ Interrupt(t)
    BY <2>2 DEF Acquire, Refuse, StartWriting, Settle, Interrupt, Answer
  <2>3. CASE WriteSome(t)
    BY <2>3 DEF WriteSome
  <2>4. CASE StopWriting(t) \/ Fsync(t)
    BY <2>4 DEF StopWriting, Fsync
  <2>5. CASE \E s \in Sinks, p \in Paths : Open(t, s, p)
    BY <2>5 DEF Open
  <2>6. CASE \/ \E s \in Sinks, encodable \in BOOLEAN : Call(t, s, encodable)
             \/ \E s \in Sinks : Close(t, s)
    BY <2>6 DEF Call, Close
  <2> QED
    BY <2>1, <2>2, <2>3, <2>4, <2>5, <2>6 DEF Acts, Step
<1>2. ASSUME Calling(u) PROVE FileOf(u)' = FileOf(u)
  <2>1. job[u].sink \in Sinks /\ phase[job[u].sink] \in {"ready", "closed"}
    BY <1>2 DEF Discipline, Usage
  <2>2. [Next]_vars
    BY DEF Acts, Next, Work
  <2>3. ~Crash
    BY <1>1, <1>2 DEF Crash, Calling, Discipline, TypeOK
  <2>4. file'[job[u].sink] = file[job[u].sink]
    BY <2>1, <2>2, <2>3, ConstructedStays
  <2> QED
    BY <1>1, <2>4 DEF FileOf
<1> QED
  BY <1>1, <1>2

\* Two threads in their critical sections work on different files.
LEMMA CriticalApart ==
  ASSUME Discipline, NEW t \in Threads, NEW u \in Threads, t # u, InCritical(t), InCritical(u)
  PROVE  FileOf(t) # FileOf(u)
BY CriticalFacts

\* How a step can change what is in the files.
LEMMA ContentChange ==
  ASSUME [Next]_vars
  PROVE  \/ UNCHANGED content
         \/ \E t \in Threads : WriteSome(t)
         \/ \E f \in Files : Unused(f) /\ content' = [content EXCEPT ![f] = <<>>]
         \/ Crash
<1>1. ASSUME NEW t \in Threads, Step(t), ~WriteSome(t) PROVE UNCHANGED content
  BY <1>1 DEF Step, SyncDirectory, FailConstruction, Register, Acquire, Refuse, StartWriting,
     StopWriting, Fsync, Settle, disk
<1>2. ASSUME NEW t \in Threads, NEW s \in Sinks, NEW p \in Paths, Open(t, s, p)
      PROVE  \/ UNCHANGED content
             \/ \E f \in Files : Unused(f) /\ content' = [content EXCEPT ![f] = <<>>]
  BY <1>2 DEF Open
<1> QED
  BY <1>1, <1>2 DEF Next, Work, Call, Close, Remove, Interrupt, disk, vars

--------------------------------------------------------------------------------
(* The latch. *)

\* Past the check, no latch can be set on the file: only the holder of its lock sets it.
WritersUnlatched == \A t \in Threads : Writing(t) => ~latched[FileOf(t)]

LEMMA WritersUnlatchedStep ==
  ASSUME Discipline, WritersUnlatched, [Next]_vars
  PROVE  WritersUnlatched'
<1>1. ASSUME NEW t \in Threads, Acts(t) PROVE WritersUnlatched'
  <2>1. ASSUME NEW u \in Threads \ {t}, Writing(u)' PROVE ~latched'[FileOf(u)']
    <3>1. Writing(u) /\ InCritical(u) /\ FileOf(u)' = FileOf(u) /\ FileOf(u) \in Files
      BY <1>1, <2>1, Bystanders, CriticalFacts DEF Writing, InCritical, Calling
    <3>2. ~latched[FileOf(u)]
      BY <3>1 DEF WritersUnlatched
    <3>3. CASE Settle(t)
      <4>1. InCritical(t)
        BY <3>3 DEF Settle, InCritical
      <4>2. FileOf(t) # FileOf(u)
        BY <3>1, <4>1, CriticalApart
      <4> QED
        BY <3>1, <3>2, <3>3, <4>2 DEF Settle, Discipline, TypeOK
    <3>4. CASE ~Settle(t)
      <4>1. latched' = latched
        BY <1>1, <3>4 DEF Acts, Step, SyncDirectory, FailConstruction, Register, Acquire, Refuse,
           StartWriting, WriteSome, StopWriting, Fsync, Interrupt, Open, Call, Close, table
      <4> QED
        BY <3>1, <3>2, <4>1
    <3> QED
      BY <3>3, <3>4
  <2>2. ASSUME Writing(t)' PROVE ~latched'[FileOf(t)']
    <3> USE DEF Discipline, TypeOK, Writing, FileOf
    <3>1. CASE StartWriting(t)
      BY <3>1 DEF StartWriting, MustRefuse, table, instances
    <3>2. CASE WriteSome(t)
      <4>1. Writing(t) /\ job'[t].sink = job[t].sink
        BY <3>2 DEF WriteSome, Job
      <4> QED
        BY <3>2, <4>1 DEF WriteSome, WritersUnlatched, table, instances
    <3>3. CASE SyncDirectory(t) \/ FailConstruction(t) \/ Register(t)
      BY <2>2, <3>3 DEF SyncDirectory, FailConstruction, Register, CloseAndRaise
    <3>4. CASE Acquire(t) \/ Refuse(t) \/ StopWriting(t) \/ Fsync(t) \/ Settle(t) \/ Interrupt(t)
      BY <2>2, <3>4 DEF Acquire, Refuse, StopWriting, Fsync, Settle, Interrupt, Answer
    <3>5. CASE \E s \in Sinks, p \in Paths : Open(t, s, p)
      BY <2>2, <3>5 DEF Open, AfterOpen
    <3>6. CASE \/ \E s \in Sinks, encodable \in BOOLEAN : Call(t, s, encodable)
               \/ \E s \in Sinks : Close(t, s)
      BY <2>2, <3>6 DEF Call, Close
    <3> QED
      BY <1>1, <3>1, <3>2, <3>3, <3>4, <3>5, <3>6 DEF Acts, Step
  <2> QED
    BY <2>1, <2>2 DEF WritersUnlatched
<1>2. ASSUME NEW e \in Entries, Remove(e) PROVE WritersUnlatched'
  BY <1>2 DEF Remove, table, instances, WritersUnlatched, Writing, FileOf
<1>3. CASE Crash
  BY <1>3 DEF Crash, WritersUnlatched, Writing
<1>4. CASE UNCHANGED vars
  BY <1>4 DEF vars, table, instances, WritersUnlatched, Writing, FileOf
<1> QED
  BY <1>1, <1>2, <1>3, <1>4, WhoActs

\* Nothing is ever appended to a latched file, through whichever instance or descriptor.
THEOREM LatchStopsGrowth == Spec => LatchedNeverGrows
<1>1. Init => WritersUnlatched
  BY DEF Init, WritersUnlatched, Writing
<1>2. ASSUME Discipline, WritersUnlatched, [Next]_vars, NEW f \in Files, latched[f]
      PROVE  Len(content'[f]) <= Len(content[f])
  <2>1. content[f] \in Seq(Byte) /\ Len(content[f]) \in Nat
    BY <1>2 DEF Discipline, TypeOK
  <2>2. ASSUME NEW t \in Threads, WriteSome(t) PROVE content'[f] = content[f]
    <3>1. FileOf(t) # f
      BY <1>2, <2>2 DEF WriteSome, WritersUnlatched, Writing
    <3> QED
      BY <1>2, <2>2, <3>1 DEF WriteSome, Discipline, TypeOK
  <2>3. ASSUME NEW g \in Files, content' = [content EXCEPT ![g] = <<>>]
        PROVE  Len(content'[f]) <= Len(content[f])
    BY <1>2, <2>1, <2>3 DEF Discipline, TypeOK
  <2>4. ASSUME Crash PROVE Len(content'[f]) <= Len(content[f])
    <3>1. PICK kept \in [Files -> UNION {synced[g]..Len(content[g]) : g \in Files}] :
             /\ kept[f] \in synced[f]..Len(content[f])
             /\ content'[f] = SubSeq(content[f], 1, kept[f])
      BY <2>4 DEF Crash
    <3>2. kept[f] \in Nat /\ kept[f] <= Len(content[f])
      BY <1>2, <2>1, <3>1 DEF Discipline, TypeOK
    <3>3. Len(SubSeq(content[f], 1, kept[f])) = kept[f]
      BY <2>1, <3>2
    <3> QED
      BY <3>1, <3>2, <3>3
  <2> QED
    BY <1>2, <2>1, <2>2, <2>3, <2>4, ContentChange
<1>3. Discipline /\ WritersUnlatched /\ [Next]_vars =>
         [\A f \in Files : latched[f] => Len(content'[f]) <= Len(content[f])]_vars
  BY <1>2
<1>4. Discipline /\ WritersUnlatched /\ [Next]_vars => WritersUnlatched'
  BY WritersUnlatchedStep
<1> QED
  BY <1>1, <1>3, <1>4, SpecDiscipline, PTL DEF Spec, LatchedNeverGrows

--------------------------------------------------------------------------------
(* The kinds.                                                                   *)

\* As long as the process lives the table knows the kind of every sink that has been
\* registered and of every byte that has been written: an entry is never dropped.
KindsKnown ==
    crashes = 0 =>
        /\ \A s \in Sinks : phase[s] \in {"ready", "closed"} => kind[file[s]] = KindOf[s]
        /\ \A f \in Files : \A k \in 1..Len(content[f]) : content[f][k].kind = kind[f]

\* An entry keeps its kind until the process dies.
LEMMA EntriesStay ==
  ASSUME Discipline, [Next]_vars, ~Crash, NEW f \in Files, kind[f] # "none"
  PROVE  kind'[f] = kind[f]
<1>1. ASSUME NEW t \in Threads, Register(t) PROVE kind'[f] = kind[f]
  BY <1>1 DEF Register, Discipline, TypeOK
<1>2. ASSUME NEW t \in Threads, Step(t), ~Register(t) PROVE kind' = kind
  BY <1>2 DEF Step, SyncDirectory, FailConstruction, Acquire, Refuse, StartWriting, WriteSome,
     StopWriting, Fsync, Settle, table
<1>3. ASSUME NEW t \in Threads, \/ Interrupt(t)
                                \/ \E s \in Sinks, p \in Paths : Open(t, s, p)
                                \/ \E s \in Sinks, encodable \in BOOLEAN : Call(t, s, encodable)
                                \/ \E s \in Sinks : Close(t, s)
      PROVE  kind' = kind
  BY <1>3 DEF Interrupt, Open, Call, Close, table
<1>4. ASSUME (\E e \in Entries : Remove(e)) \/ UNCHANGED vars PROVE kind' = kind
  BY <1>4 DEF Remove, vars, table
<1> QED
  BY <1>1, <1>2, <1>3, <1>4 DEF Next, Work

\* A sink that a step makes ready has been registered by it, under its own kind.
LEMMA ReadyMeansRegistered ==
  ASSUME Discipline, [Next]_vars, ~Crash, NEW s \in Sinks,
         phase[s] \notin {"ready", "closed"}, phase'[s] \in {"ready", "closed"}
  PROVE  file'[s] = file[s] /\ kind'[file[s]] = KindOf[s]
<1>1. ASSUME NEW t \in Threads, Register(t)
      PROVE  file'[s] = file[s] /\ kind'[file[s]] = KindOf[s]
  <2>1. job[t].sink \in Sinks /\ file[job[t].sink] \in Files
    BY <1>1 DEF Register, Discipline, Construction, Constructing
  <2> QED
    BY <1>1, <2>1 DEF Register, CloseAndRaise, Discipline, TypeOK
<1>2. ASSUME NEW t \in Threads, Step(t), ~Register(t) PROVE phase'[s] \in {phase[s], "absent"}
  BY <1>2 DEF Step, SyncDirectory, FailConstruction, CloseAndRaise, Acquire, Refuse, StartWriting,
     WriteSome, StopWriting, Fsync, Settle, instances, Discipline, TypeOK
<1>3. ASSUME NEW t \in Threads, \/ Interrupt(t)
                                \/ \E x \in Sinks, p \in Paths : Open(t, x, p)
                                \/ \E x \in Sinks, encodable \in BOOLEAN : Call(t, x, encodable)
                                \/ \E x \in Sinks : Close(t, x)
      PROVE  phase'[s] \in {phase[s], "opened"}
  BY <1>3 DEF Interrupt, Open, Call, Close, instances, Discipline, TypeOK
<1>4. ASSUME (\E e \in Entries : Remove(e)) \/ UNCHANGED vars PROVE phase' = phase
  BY <1>4 DEF Remove, vars, instances
<1> QED
  BY <1>1, <1>2, <1>3, <1>4 DEF Next, Work

LEMMA KindsKnownStep ==
  ASSUME Discipline, Discipline', KindsKnown, [Next]_vars
  PROVE  KindsKnown'
<1> SUFFICES ASSUME crashes' = 0
             PROVE  /\ \A s \in Sinks : phase'[s] \in {"ready", "closed"} => kind'[file'[s]] = KindOf[s]
                    /\ \A f \in Files : \A k \in 1..Len(content'[f]) : content'[f][k].kind = kind'[f]
  BY DEF KindsKnown
<1>1. ~Crash
  BY DEF Crash, Discipline, TypeOK
<1>2. crashes = 0
  <2>1. ASSUME NEW t \in Threads, Acts(t) PROVE crashes' = crashes
    BY <2>1 DEF Acts, Step, SyncDirectory, FailConstruction, Register, Acquire, Refuse,
       StartWriting, WriteSome, StopWriting, Fsync, Settle, Interrupt, Open, Call, Close
  <2> QED
    BY <1>1, <2>1, WhoActs DEF Remove, vars
<1>3. ASSUME NEW s \in Sinks, phase'[s] \in {"ready", "closed"}
      PROVE  kind'[file'[s]] = KindOf[s]
  <2>1. CASE phase[s] \in {"ready", "closed"}
    <3>1. kind[file[s]] = KindOf[s] /\ file[s] \in Files /\ KindOf[s] # "none"
      BY <1>2, <2>1, KindOfAssumption DEF KindsKnown, Discipline, Construction, Kinds
    <3> QED
      BY <1>1, <2>1, <3>1, ConstructedStays, EntriesStay
  <2>2. CASE phase[s] \notin {"ready", "closed"}
    BY <1>1, <1>3, <2>2, ReadyMeansRegistered
  <2> QED
    BY <2>1, <2>2
<1>4. ASSUME NEW f \in Files, NEW k \in 1..Len(content[f])
      PROVE  content[f][k].kind = kind'[f]
  <2>1. content[f][k].kind = kind[f]
    BY <1>2 DEF KindsKnown
  <2>2. content[f][k] \in Byte
    BY DEF Discipline, TypeOK
  <2>3. kind[f] # "none"
    BY <2>1, <2>2 DEF Byte, Kinds
  <2> QED
    BY <1>1, <2>1, <2>3, EntriesStay
<1>5. ASSUME NEW t \in Threads, WriteSome(t), NEW f \in Files, NEW k \in 1..Len(content'[f])
      PROVE  content'[f][k].kind = kind'[f]
  <2>1. PICK n \in 1..(RecordLen - job[t].written) :
           content' = [content EXCEPT ![FileOf(t)] = @ \o NextBytes(t, n)]
    BY <1>5 DEF WriteSome
  <2>2. /\ FileOf(t) \in Files /\ Calling(t) /\ job[t].sink \in Sinks
        /\ phase[job[t].sink] \in {"ready", "closed"} /\ kind' = kind
    BY <1>5, CriticalFacts DEF WriteSome, InCritical, table
  <2>3. CASE f # FileOf(t)
    BY <1>4, <2>1, <2>3 DEF Discipline, TypeOK
  <2>4. CASE f = FileOf(t)
    <3>1. content[f] \in Seq(Byte) /\ content'[f] = content[f] \o NextBytes(t, n)
      BY <2>1, <2>2, <2>4 DEF Discipline, TypeOK
    <3>2. /\ NextBytes(t, n) \in Seq(Byte) /\ Len(NextBytes(t, n)) = n
          /\ \A j \in 1..n : NextBytes(t, n)[j].kind = KindOf[job[t].sink]
      <4>1. /\ NextBytes(t, n) \in Seq(Byte) /\ Len(NextBytes(t, n)) = n
            /\ \A j \in 1..n : NextBytes(t, n)[j] =
                  [rec |-> job[t].rec, at |-> job[t].written + j, kind |-> KindOf[job[t].sink]]
        BY <2>2, NextBytesShape
      <4> QED
        BY <4>1
    <3>3. KindOf[job[t].sink] = kind'[f]
      BY <1>2, <2>2, <2>4 DEF KindsKnown, FileOf
    <3>4. CASE k \in 1..Len(content[f])
      BY <1>4, <3>1, <3>2, <3>4
    <3>5. CASE k \notin 1..Len(content[f])
      <4>1. k - Len(content[f]) \in 1..n /\ content'[f][k] = NextBytes(t, n)[k - Len(content[f])]
        BY <3>1, <3>2, <3>5
      <4> QED
        BY <3>2, <3>3, <4>1
    <3> QED
      BY <3>4, <3>5
  <2> QED
    BY <2>3, <2>4
<1>6. ASSUME NEW g \in Files, content' = [content EXCEPT ![g] = <<>>],
             NEW f \in Files, NEW k \in 1..Len(content'[f])
      PROVE  content'[f][k].kind = kind'[f]
  <2>1. f # g /\ content'[f] = content[f]
    BY <1>6 DEF Discipline, TypeOK
  <2> QED
    BY <1>4, <1>6, <2>1
<1>7. ASSUME NEW f \in Files, NEW k \in 1..Len(content'[f])
      PROVE  content'[f][k].kind = kind'[f]
  BY <1>1, <1>4, <1>5, <1>6, <1>7, ContentChange
<1> QED
  BY <1>3, <1>7

LEMMA SpecKindsKnown == Spec => []KindsKnown
<1>1. Init => KindsKnown
  BY DEF Init, KindsKnown
<1>2. Discipline /\ Discipline' /\ KindsKnown /\ [Next]_vars => KindsKnown'
  BY KindsKnownStep
<1> QED
  BY <1>1, <1>2, SpecDiscipline, PTL DEF Spec

\* Until the process dies, signals included, no file holds records of both kinds: not even
\* one whose identity was handed out again after its name was removed.
THEOREM KindsStayApart == Spec => [](crashes = 0 => KindsNeverMix)
<1>1. KindsKnown => (crashes = 0 => KindsNeverMix)
  BY DEF KindsKnown, KindsNeverMix
<1> QED
  BY <1>1, SpecKindsKnown, PTL

\* So it is within one process life.
THEOREM LifeKeepsKinds == LifeSpec => []KindsNeverMix
<1>1. Init => crashes = 0
  BY DEF Init
<1>2. crashes = 0 /\ [Work]_vars => (crashes = 0)'
  BY DEF Work, Step, SyncDirectory, FailConstruction, Register, Acquire, Refuse, StartWriting,
     WriteSome, StopWriting, Fsync, Settle, Open, Call, Close, Remove, vars
<1>3. [Work]_vars => [Next]_vars
  BY DEF Next
<1> QED
  BY <1>1, <1>2, <1>3, KindsStayApart, PTL DEF LifeSpec, Spec

================================================================================
