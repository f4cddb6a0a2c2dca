----------------------- MODULE StreamSinksRefinementProofs -----------------------
(***************************************************************************)
(* What the sinks promise of records, for every choice of the constants,   *)
(* and that they implement DurableLog.                                     *)
(*                                                                         *)
(* Recording says where the bytes of a record are - its beginning, in one  *)
(* piece, once - and what of it a thread in a call has put there.  Every   *)
(* step keeps it.  Keeping says what has a name in a directory, and Saving *)
(* what has a saved one.  The first is kept where no operator removes      *)
(* files, which is the hypothesis Replaceable = {} of the theorems: an     *)
(* identity that is handed out again takes a latch, or a record, away.     *)
(* The second needs Contained besides: the directory that is fsync-ed is   *)
(* the one that the path names.                                            *)
(***************************************************************************)
EXTENDS StreamSinksRefinement, StreamSinksProofs, FiniteSetTheorems

--------------------------------------------------------------------------------
(* Where the bytes of a record are.                                             *)

\* The bytes before a byte of a record are the earlier ones of that record: what is in a
\* file of a record is always its beginning, in one piece.
OnePiece ==
    \A f \in Files : \A k \in 1..Len(content[f]) :
        /\ content[f][k].at <= k
        /\ \A i \in 0..(content[f][k].at - 1) :
              /\ content[f][k - i].rec = content[f][k].rec
              /\ content[f][k - i].at = content[f][k].at - i

\* No byte of a record is written twice.
NoDuplicates ==
    \A f, g \in Files : \A j \in 1..Len(content[f]), k \in 1..Len(content[g]) :
        content[f][j].rec = content[g][k].rec /\ content[f][j].at = content[g][k].at =>
            f = g /\ j = k

\* Calls are numbered as they come, and a call in progress is that of one thread.
Numbered ==
    /\ \A r \in Calls : r > issued => reply[r] = "unused"
    /\ \A t \in Threads : Calling(t) => job[t].rec <= issued /\ reply[job[t].rec] = "pending"
    /\ \A t, u \in Threads : t # u /\ Calling(t) /\ Calling(u) => job[t].rec # job[u].rec
    /\ \A f \in Files : \A k \in 1..Len(content[f]) : content[f][k].rec <= issued

SyncedIsThere == \A f \in Files : synced[f] <= Len(content[f])

\* Of the record of t, no more is written than t has counted.
NoneBeyond(t) ==
    \A f \in Files : \A k \in 1..Len(content[f]) :
        content[f][k].rec = job[t].rec => content[f][k].at <= job[t].written

\* The last byte of t's file is the last one t has written.
EndsAt(t) ==
    /\ content[FileOf(t)] # <<>>
    /\ content[FileOf(t)][Len(content[FileOf(t)])].rec = job[t].rec
    /\ content[FileOf(t)][Len(content[FileOf(t)])].at = job[t].written

\* The newline of record r is at place k of f.
EndsThere(r, f, k) == content[f][k].rec = r /\ content[f][k].at = RecordLen

\* What a thread in a call has left in the files so far.
Progress(t) ==
    /\ pc[t] \in {"lock", "check"} => job[t].written = 0
    /\ pc[t] \in {"lock", "check", "write", "fsync"} => NoneBeyond(t)
    /\ pc[t] = "write" => job[t].written < RecordLen /\ (job[t].written > 0 => EndsAt(t))
    /\ pc[t] = "fsync" => job[t].written = RecordLen /\ EndsAt(t)
    /\ pc[t] = "settle" /\ job[t].result = "complete" =>
          \E k \in 1..Len(content[FileOf(t)]) :
              /\ EndsThere(job[t].rec, FileOf(t), k)
              /\ KindOf[job[t].sink] = "audit" => k <= synced[FileOf(t)]
    /\ pc[t] = "settle" /\ job[t].result = "partial" => Torn(FileOf(t))

Recording ==
    /\ OnePiece
    /\ NoDuplicates
    /\ Numbered
    /\ SyncedIsThere
    /\ \A t \in Threads : Progress(t)

LEMMA RecordingInit == Init => Recording
  BY DEF Init, Recording, OnePiece, NoDuplicates, Numbered, SyncedIsThere, Progress, Calling

\* A thread's progress is not undone by a step that adds no byte of its record, and leaves
\* its file as it is from the moment it may be writing it.
LEMMA ProgressKept ==
  ASSUME Discipline, NEW u \in Threads, Progress(u),
         pc'[u] = pc[u], job'[u] = job[u], Calling(u) => FileOf(u)' = FileOf(u),
         \A f \in Files : \A k \in 1..Len(content'[f]) :
            Calling(u) /\ content'[f][k].rec = job[u].rec =>
                k \in 1..Len(content[f]) /\ content'[f][k] = content[f][k],
         pc[u] \in {"write", "fsync", "settle"} =>
            content'[FileOf(u)] = content[FileOf(u)] /\ synced'[FileOf(u)] = synced[FileOf(u)]
  PROVE  Progress(u)'
<1>1. ASSUME Calling(u), NoneBeyond(u) PROVE NoneBeyond(u)'
  BY <1>1 DEF NoneBeyond
<1>2. ASSUME pc[u] \in {"write", "fsync", "settle"}
      PROVE  /\ FileOf(u)' = FileOf(u) /\ FileOf(u) \in Files
             /\ content'[FileOf(u)] = content[FileOf(u)]
             /\ synced'[FileOf(u)] = synced[FileOf(u)]
  BY <1>2, CriticalFacts DEF Calling, InCritical
<1>3. pc[u] \in {"write", "fsync"} /\ EndsAt(u) => EndsAt(u)'
  BY <1>2 DEF EndsAt
<1>4. pc[u] = "settle" => Torn(FileOf(u))' = Torn(FileOf(u))
  BY <1>2 DEF Torn
<1>5. ASSUME pc[u] = "settle", job[u].result = "complete"
      PROVE  \E k \in 1..Len(content'[FileOf(u)']) :
                /\ EndsThere(job[u].rec, FileOf(u), k)'
                /\ KindOf[job[u].sink] = "audit" => k <= synced'[FileOf(u)']
  BY <1>2, <1>5 DEF Progress, EndsThere
<1> QED
  BY <1>1, <1>2, <1>3, <1>4, <1>5 DEF Progress, Calling, EndsThere

\* A step of t that touches no file keeps the records where they are.
LEMMA FilesUntouched ==
  ASSUME Discipline, Recording, NEW t \in Threads, Acts(t),
         content' = content, synced' = synced, Numbered', Progress(t)'
  PROVE  Recording'
<1>1. OnePiece' /\ NoDuplicates' /\ SyncedIsThere'
  BY DEF Recording, OnePiece, NoDuplicates, SyncedIsThere
<1>2. ASSUME NEW u \in Threads \ {t} PROVE Progress(u)'
  BY Bystanders, ProgressKept DEF Recording
<1> QED
  BY <1>1, <1>2 DEF Recording

\* A call that ends leaves the numbering right.
LEMMA AnswerNumbered ==
  ASSUME Discipline, Recording, NEW t \in Threads, Acts(t), Calling(t), NEW a \in Replies,
         Answer(t, a), content' = content, issued' = issued
  PROVE  Numbered' /\ Progress(t)'
<1>1. /\ job[t].rec \in Calls /\ job[t].rec <= issued
      /\ \A r \in Calls \ {job[t].rec} : reply'[r] = reply[r]
      /\ pc'[t] = "idle"
  BY DEF Recording, Numbered, Discipline, Usage, TypeOK, Answer
<1>2. \A r \in Calls : r > issued => reply'[r] = "unused"
  BY <1>1 DEF Recording, Numbered, Discipline, TypeOK, Calls
<1>3. ASSUME NEW u \in Threads, Calling(u)'
      PROVE  /\ u # t /\ Calling(u) /\ job'[u].rec = job[u].rec
             /\ job'[u].rec <= issued /\ reply'[job'[u].rec] = "pending"
  <2>1. u # t /\ Calling(u) /\ job'[u] = job[u]
    BY <1>1, <1>3, Bystanders DEF Calling
  <2>2. job[u].rec # job[t].rec /\ job[u].rec \in Calls
    BY <2>1 DEF Recording, Numbered, Discipline, Usage
  <2> QED
    BY <1>1, <2>1, <2>2 DEF Recording, Numbered
<1>4. Numbered'
  BY <1>2, <1>3 DEF Recording, Numbered
<1> QED
  BY <1>1, <1>4 DEF Progress

\* A step that ends no call and begins none leaves the numbering right.
LEMMA SameCallsNumbered ==
  ASSUME Discipline, Recording, NEW t \in Threads, Acts(t),
         UNCHANGED <<issued, reply>>,
         \A f \in Files : \A k \in 1..Len(content'[f]) : content'[f][k].rec <= issued,
         Calling(t)' => Calling(t) /\ job'[t].rec = job[t].rec
  PROVE  Numbered'
<1>1. ASSUME NEW u \in Threads, Calling(u)' PROVE Calling(u) /\ job'[u].rec = job[u].rec
  BY <1>1, Bystanders DEF Calling
<1> QED
  BY <1>1 DEF Recording, Numbered

\* The bytes of an os.write stand behind the ones there were, in order.
LEMMA Appended ==
  ASSUME Discipline, Recording, NEW t \in Threads, pc[t] = "write",
         NEW n \in Nat, n \in 1..(RecordLen - job[t].written),
         content' = [content EXCEPT ![FileOf(t)] = @ \o NextBytes(t, n)]
  PROVE  /\ \A g \in Files \ {FileOf(t)} : content'[g] = content[g]
         /\ Len(content[FileOf(t)]) \in Nat
         /\ Len(content'[FileOf(t)]) = Len(content[FileOf(t)]) + n
         /\ \A k \in 1..Len(content[FileOf(t)]) : content'[FileOf(t)][k] = content[FileOf(t)][k]
         /\ \A m \in 1..n :
               /\ content'[FileOf(t)][Len(content[FileOf(t)]) + m].rec = job[t].rec
               /\ content'[FileOf(t)][Len(content[FileOf(t)]) + m].at = job[t].written + m
<1> DEFINE old == content[FileOf(t)]
           new == NextBytes(t, n)
<1>1. FileOf(t) \in Files /\ Calling(t)
  BY CriticalFacts DEF InCritical
<1>2. /\ content'[FileOf(t)] = old \o new /\ old \in Seq(Byte)
      /\ \A g \in Files \ {FileOf(t)} : content'[g] = content[g]
  BY <1>1 DEF Discipline, TypeOK
<1>3. /\ new \in Seq(Byte) /\ Len(new) = n
      /\ \A k \in 1..n : new[k].rec = job[t].rec /\ new[k].at = job[t].written + k
  <2>1. /\ NextBytes(t, n) \in Seq(Byte) /\ Len(NextBytes(t, n)) = n
        /\ \A k \in 1..n : NextBytes(t, n)[k] =
              [rec |-> job[t].rec, at |-> job[t].written + k, kind |-> KindOf[job[t].sink]]
    BY <1>1, NextBytesShape
  <2> QED
    BY <2>1
<1>5. n \in Nat
  OBVIOUS
<1> HIDE DEF old, new
<1>6. old \in Seq(Byte) /\ new \in Seq(Byte) /\ Len(new) = n
  BY <1>2, <1>3
<1>4. /\ Len(old \o new) = Len(old) + n
      /\ Len(old) \in Nat
      /\ \A k \in 1..Len(old) : (old \o new)[k] = old[k]
      /\ \A k \in 1..n : (old \o new)[Len(old) + k] = new[k]
  BY <1>5, <1>6
<1> QED
  BY <1>2, <1>3, <1>4 DEF old

LEMMA WriteKeepsRecording ==
  ASSUME Discipline, Recording, NEW t \in Threads, WriteSome(t)
  PROVE  Recording'
<1> DEFINE f == FileOf(t)
           w == job[t].written
           L == Len(content[f])
<1>1. PICK n \in 1..(RecordLen - job[t].written) :
         /\ content' = [content EXCEPT ![FileOf(t)] = @ \o NextBytes(t, n)]
         /\ IF job[t].written + n < RecordLen
            THEN job' = [job EXCEPT ![t].written = @ + n] /\ pc' = pc
            ELSE \/ job' = [job EXCEPT ![t].written = @ + n] /\ pc' = [pc EXCEPT ![t] = "fsync"]
                 \/ /\ job' = [job EXCEPT ![t].written = @ + n, ![t].result = "complete"]
                    /\ pc' = [pc EXCEPT ![t] = "settle"]
                    /\ KindOf[job[t].sink] # "audit"
  BY DEF WriteSome
<1>0. content' = [content EXCEPT ![FileOf(t)] = @ \o NextBytes(t, n)]
  BY <1>1
<1>20. n \in Nat /\ n \in 1..(RecordLen - job[t].written)
  BY <1>1 DEF WriteSome
<1>2. pc[t] = "write" /\ UNCHANGED <<synced, phase, file, issued, reply>>
  BY DEF WriteSome, instances, history
<1>3. /\ f \in Files /\ Calling(t) /\ InCritical(t) /\ job[t] \in Job /\ job[t].rec \in Calls
  BY <1>2, CriticalFacts DEF InCritical
<1>4. w \in Nat /\ n \in Nat /\ n >= 1 /\ RecordLen \in Nat /\ w + n <= RecordLen /\ L \in Nat
  BY <1>0, <1>20, <1>2, <1>3, Appended, RecordLenAssumption DEF Job
<1>5. /\ \A g \in Files \ {f} : content'[g] = content[g]
      /\ \A k \in 1..L : content'[f][k] = content[f][k]
  BY <1>0, <1>20, <1>2, Appended
<1>6. /\ Len(content'[f]) = L + n
      /\ \A m \in 1..n : content'[f][L + m].rec = job[t].rec /\ content'[f][L + m].at = w + m
  BY <1>0, <1>20, <1>2, Appended
<1>7. /\ job'[t].rec = job[t].rec /\ job'[t].sink = job[t].sink /\ job'[t].written = w + n
      /\ IF w + n < RecordLen THEN pc'[t] = "write"
         ELSE \/ pc'[t] = "fsync"
              \/ pc'[t] = "settle" /\ KindOf[job[t].sink] # "audit" /\ job'[t].result = "complete"
  <2>1. CASE w + n < RecordLen
    BY <1>1, <1>2, <1>3, <2>1 DEF Discipline, TypeOK, Job
  <2>2. CASE /\ ~(w + n < RecordLen)
             /\ job' = [job EXCEPT ![t].written = @ + n] /\ pc' = [pc EXCEPT ![t] = "fsync"]
    BY <2>2 DEF Discipline, TypeOK, Job
  <2>3. CASE /\ ~(w + n < RecordLen)
             /\ job' = [job EXCEPT ![t].written = @ + n, ![t].result = "complete"]
             /\ pc' = [pc EXCEPT ![t] = "settle"]
             /\ KindOf[job[t].sink] # "audit"
    BY <2>3 DEF Discipline, TypeOK, Job
  <2> QED
    BY <1>1, <2>1, <2>2, <2>3
<1>8. FileOf(t)' = f
  BY <1>2, <1>7 DEF FileOf
<1>9. /\ NoneBeyond(t) /\ (w > 0 => EndsAt(t))
      /\ OnePiece /\ NoDuplicates /\ Numbered /\ SyncedIsThere
  BY <1>2 DEF Recording, Progress
<1>10. \A g \in Files : \A k \in 1..Len(content[g]) : content[g][k] \in Byte
  BY DEF Discipline, TypeOK
<1> HIDE DEF f, w, L
<1>21. ASSUME NEW g \in Files, NEW k \in 1..Len(content[g])
       PROVE  k \in 1..Len(content'[g]) /\ content'[g][k] = content[g][k]
  <2>1. CASE g = f
    BY <1>4, <1>5, <1>6, <1>21, <2>1 DEF L
  <2> QED
    BY <1>5, <1>21, <2>1
<1>22. ASSUME NEW g \in Files, NEW k \in 1..Len(content'[g])
       PROVE  \/ k \in 1..Len(content[g]) /\ content'[g][k] = content[g][k]
              \/ g = f /\ \E m \in 1..n : k = L + m
  <2>1. CASE g = f /\ k \notin 1..L
    <3>1. k - L \in 1..n /\ k = L + (k - L)
      BY <1>4, <1>6, <1>22, <2>1
    <3> QED
      BY <2>1, <3>1
  <2>2. CASE g = f /\ k \in 1..L
    BY <1>21, <2>2 DEF L
  <2> QED
    BY <1>5, <1>22, <2>1, <2>2
<1>11. OnePiece'
  <2> SUFFICES ASSUME NEW g \in Files, NEW k \in 1..Len(content'[g])
               PROVE  /\ content'[g][k].at <= k
                      /\ \A i \in 0..(content'[g][k].at - 1) :
                            /\ content'[g][k - i].rec = content'[g][k].rec
                            /\ content'[g][k - i].at = content'[g][k].at - i
    BY DEF OnePiece
  <2>1. CASE k \in 1..Len(content[g]) /\ content'[g][k] = content[g][k]
    <3>1. /\ content[g][k].at <= k /\ content[g][k].at \in Nat
          /\ \A i \in 0..(content[g][k].at - 1) :
                /\ content[g][k - i].rec = content[g][k].rec
                /\ content[g][k - i].at = content[g][k].at - i
      <4>1. content[g][k] \in Byte
        BY <1>10, <2>1
      <4>2. content[g][k].at \in Nat
        BY <4>1, RecordLenAssumption DEF Byte
      <4> QED
        BY <1>9, <2>1, <4>2 DEF OnePiece
    <3>2. \A i \in 0..(content[g][k].at - 1) : k - i \in 1..Len(content[g])
      <4>1. PICK at \in Nat : at = content[g][k].at /\ at <= k
        BY <3>1
      <4>2. Len(content[g]) \in Nat /\ k \in 1..Len(content[g])
        BY <2>1 DEF Discipline, TypeOK
      <4>3. \A i \in 0..(at - 1) : k - i \in 1..Len(content[g])
        BY <4>1, <4>2
      <4> QED
        BY <4>1, <4>3
    <3>3. \A i \in 0..(content[g][k].at - 1) : content'[g][k - i] = content[g][k - i]
      BY <1>21, <1>22, <3>2
    <3> QED
      BY <2>1, <3>1, <3>3
  <2>2. CASE g = f /\ \E m \in 1..n : k = L + m
    <3>1. PICK m \in 1..n : k = L + m
      BY <2>2
    <3>2. content'[g][k].rec = job[t].rec /\ content'[g][k].at = w + m
      BY <1>6, <2>2, <3>1
    <3>3. w <= L
      <4>1. CASE w > 0
        <5>1. /\ L \in 1..L /\ content[f][L].at = w
          BY <1>4, <1>9, <4>1, <1>3 DEF EndsAt, f, w, L, Discipline, TypeOK
        <5> QED
          BY <1>3, <1>9, <5>1 DEF OnePiece, L
      <4> QED
        BY <1>4, <4>1
    <3>4. ASSUME NEW i \in 0..(w + m - 1)
          PROVE  content'[g][k - i].rec = job[t].rec /\ content'[g][k - i].at = w + m - i
      <4>1. CASE i < m
        <5>1. m - i \in 1..n /\ k - i = L + (m - i) /\ w + m - i = w + (m - i)
          BY <1>4, <3>1, <4>1
        <5> QED
          BY <1>6, <2>2, <5>1
      <4>2. CASE i >= m
        <5>1. /\ w > 0 /\ i - m \in 0..(w - 1) /\ k - i = L - (i - m) /\ k - i \in 1..L
              /\ w + m - i = w - (i - m)
          BY <1>4, <3>1, <3>3, <4>2
        <5>2. /\ L \in 1..L /\ content[f][L].at = w /\ content[f][L].rec = job[t].rec
          BY <1>4, <1>9, <5>1, <3>3 DEF EndsAt, f, w, L
        <5>3. /\ content[f][L - (i - m)].rec = job[t].rec
              /\ content[f][L - (i - m)].at = w - (i - m)
          BY <1>3, <1>9, <5>1, <5>2 DEF OnePiece, L
        <5>4. content'[f][k - i] = content[f][k - i]
          BY <1>3, <1>21, <1>22, <5>1 DEF L
        <5> QED
          BY <2>2, <5>1, <5>3, <5>4
      <4> QED
        BY <1>4, <4>1, <4>2
    <3> QED
      BY <1>4, <3>1, <3>2, <3>3, <3>4
  <2> QED
    BY <1>21, <1>22, <2>1, <2>2
<1>12. NoDuplicates'
  <2> SUFFICES ASSUME NEW g \in Files, NEW h \in Files,
                      NEW j \in 1..Len(content'[g]), NEW k \in 1..Len(content'[h]),
                      content'[g][j].rec = content'[h][k].rec,
                      content'[g][j].at = content'[h][k].at
               PROVE  g = h /\ j = k
    BY DEF NoDuplicates
  <2>1. ASSUME NEW x \in Files, NEW i \in 1..Len(content[x]), NEW m \in 1..n,
               content'[x][i].rec = job[t].rec, content'[x][i].at = w + m
        PROVE  FALSE
    <3>1. content[x][i].rec = job[t].rec /\ content[x][i].at = w + m
      BY <1>21, <1>22, <2>1
    <3>2. content[x][i].at <= w
      BY <1>9, <3>1 DEF NoneBeyond, w
    <3> QED
      BY <1>4, <3>1, <3>2
  <2>2. CASE j \in 1..Len(content[g]) /\ k \in 1..Len(content[h])
    <3>1. content'[g][j] = content[g][j] /\ content'[h][k] = content[h][k]
      BY <1>21, <1>22, <2>2
    <3> QED
      BY <1>9, <2>2, <3>1 DEF NoDuplicates
  <2>3. CASE j \in 1..Len(content[g]) /\ k \notin 1..Len(content[h])
    <3>1. PICK m \in 1..n : h = f /\ k = L + m
      BY <1>21, <1>22, <2>3
    <3> QED
      BY <1>6, <2>1, <2>3, <3>1
  <2>4. CASE j \notin 1..Len(content[g]) /\ k \in 1..Len(content[h])
    <3>1. PICK m \in 1..n : g = f /\ j = L + m
      BY <1>21, <1>22, <2>4
    <3> QED
      BY <1>6, <2>1, <2>4, <3>1
  <2>5. CASE j \notin 1..Len(content[g]) /\ k \notin 1..Len(content[h])
    <3>1. PICK m \in 1..n : g = f /\ j = L + m
      BY <1>21, <1>22, <2>5
    <3>2. PICK q \in 1..n : h = f /\ k = L + q
      BY <1>21, <1>22, <2>5
    <3>3. w + m = w + q
      BY <1>6, <3>1, <3>2
    <3> QED
      BY <1>4, <3>1, <3>2, <3>3
  <2> QED
    BY <2>2, <2>3, <2>4, <2>5
<1>13. Numbered'
  <2>1. ASSUME NEW g \in Files, NEW k \in 1..Len(content'[g]) PROVE content'[g][k].rec <= issued
    <3>1. CASE k \in 1..Len(content[g]) /\ content'[g][k] = content[g][k]
      BY <1>9, <3>1 DEF Numbered
    <3>2. CASE g = f /\ \E m \in 1..n : k = L + m
      <4>1. content'[g][k].rec = job[t].rec
        BY <1>6, <3>2
      <4> QED
        BY <1>3, <1>9, <4>1 DEF Numbered
    <3> QED
      BY <1>21, <1>22, <3>1, <3>2
  <2> QED
    BY <1>2, <1>3, <1>7, <2>1, SameCallsNumbered DEF Acts, Step
<1>14. SyncedIsThere'
  <2> SUFFICES ASSUME NEW g \in Files PROVE synced[g] <= Len(content'[g])
    BY <1>2 DEF SyncedIsThere
  <2>1. synced[g] \in Nat /\ synced[g] <= Len(content[g])
    BY <1>9 DEF SyncedIsThere, Discipline, TypeOK
  <2>2. CASE g = f
    BY <1>4, <1>6, <2>1, <2>2 DEF L
  <2>3. CASE g # f
    BY <1>5, <2>1, <2>3
  <2> QED
    BY <2>2, <2>3
<1>15. Progress(t)'
  <2>1. NoneBeyond(t)'
    <3> SUFFICES ASSUME NEW g \in Files, NEW k \in 1..Len(content'[g]),
                        content'[g][k].rec = job[t].rec
                 PROVE  content'[g][k].at <= w + n
      BY <1>7 DEF NoneBeyond
    <3>1. CASE k \in 1..Len(content[g]) /\ content'[g][k] = content[g][k]
      <4>1. content[g][k].at <= w /\ content[g][k].at \in Nat
        BY <1>9, <1>10, <3>1, RecordLenAssumption DEF NoneBeyond, w, Byte
      <4> QED
        BY <1>4, <3>1, <4>1
    <3>2. CASE g = f /\ \E m \in 1..n : k = L + m
      <4>1. PICK m \in 1..n : k = L + m
        BY <3>2
      <4>2. content'[g][k].at = w + m
        BY <1>6, <3>2, <4>1
      <4> QED
        BY <1>4, <4>1, <4>2
    <3> QED
      BY <1>21, <1>22, <3>1, <3>2
  <2>2. EndsAt(t)' /\ L + n \in 1..Len(content'[f]) /\ content'[f][L + n].rec = job[t].rec
        /\ content'[f][L + n].at = w + n
    <3>1. n \in 1..n /\ L + n >= 1 /\ L + n \in 1..(L + n)
      BY <1>4
    <3>2. /\ Len(content'[f]) = L + n
          /\ content'[f][L + n].rec = job[t].rec /\ content'[f][L + n].at = w + n
      BY <1>6, <3>1
    <3>3. content'[f] # <<>>
      BY <3>1, <3>2
    <3> QED
      BY <1>7, <1>8, <3>1, <3>2, <3>3 DEF EndsAt
  <2>3. CASE w + n < RecordLen
    BY <1>4, <1>7, <2>1, <2>2, <2>3 DEF Progress
  <2>4. CASE w + n = RecordLen
    <3>1. ASSUME pc'[t] = "settle"
          PROVE  /\ KindOf[job'[t].sink] # "audit"
                 /\ job'[t].result = "complete"
                 /\ (\E k \in 1..Len(content[FileOf(t)]) : EndsThere(job[t].rec, FileOf(t), k))'
      BY <1>4, <1>7, <1>8, <2>2, <2>4, <3>1 DEF EndsThere
    <3>2. CASE pc'[t] = "settle"
      BY <1>8, <3>1, <3>2 DEF Progress, EndsThere
    <3>3. CASE pc'[t] = "fsync"
      BY <1>7, <2>1, <2>2, <2>4, <3>3 DEF Progress
    <3> QED
      BY <1>4, <1>7, <2>4, <3>2, <3>3
  <2> QED
    BY <1>4, <2>3, <2>4
<1>16. ASSUME NEW u \in Threads \ {t} PROVE Progress(u)'
  <2>1. Acts(t)
    BY DEF Acts, Step
  <2>2. pc'[u] = pc[u] /\ job'[u] = job[u] /\ (Calling(u) => FileOf(u)' = FileOf(u))
    BY <2>1, Bystanders
  <2>3. ASSUME NEW g \in Files, NEW k \in 1..Len(content'[g]),
               Calling(u), content'[g][k].rec = job[u].rec
        PROVE  k \in 1..Len(content[g]) /\ content'[g][k] = content[g][k]
    <3>1. job[u].rec # job[t].rec
      BY <1>3, <1>9, <2>3 DEF Numbered
    <3> QED
      BY <1>21, <1>22, <1>6, <2>3, <3>1
  <2>4. ASSUME pc[u] \in {"write", "fsync", "settle"}
        PROVE  content'[FileOf(u)] = content[FileOf(u)] /\ synced'[FileOf(u)] = synced[FileOf(u)]
    <3>1. InCritical(u)
      BY <2>4 DEF InCritical
    <3>2. FileOf(u) # f /\ FileOf(u) \in Files
      BY <1>3, <3>1, CriticalApart, CriticalFacts DEF f
    <3> QED
      BY <1>2, <1>5, <3>2
  <2> QED
    BY <2>2, <2>3, <2>4, ProgressKept DEF Recording
<1> QED
  BY <1>11, <1>12, <1>13, <1>14, <1>15, <1>16 DEF Recording

\* A file that loses bytes from its end, or all of them, breaks no record apart.
LEMMA CutKeepsPieces ==
  ASSUME Discipline, Recording,
         \A f \in Files :
            /\ Len(content'[f]) <= Len(content[f])
            /\ Len(content'[f]) \in Nat
            /\ \A k \in 1..Len(content'[f]) : content'[f][k] = content[f][k]
  PROVE  OnePiece' /\ NoDuplicates'
<1>1. ASSUME NEW f \in Files
      PROVE  /\ Len(content[f]) \in Nat
             /\ 1..Len(content'[f]) \subseteq 1..Len(content[f])
             /\ \A k \in 1..Len(content[f]) : content[f][k].at \in Nat
  <2>1. content[f] \in Seq(Byte)
    BY DEF Discipline, TypeOK
  <2>2. \A k \in 1..Len(content[f]) : content[f][k] \in Byte
    BY <2>1
  <2> QED
    BY <2>1, <2>2, RecordLenAssumption DEF Byte
<1>2. OnePiece'
  <2> SUFFICES ASSUME NEW f \in Files, NEW k \in 1..Len(content'[f])
               PROVE  /\ content'[f][k].at <= k
                      /\ \A i \in 0..(content'[f][k].at - 1) :
                            /\ content'[f][k - i].rec = content'[f][k].rec
                            /\ content'[f][k - i].at = content'[f][k].at - i
    BY DEF OnePiece
  <2>1. /\ k \in 1..Len(content[f]) /\ content'[f][k] = content[f][k]
        /\ content[f][k].at \in Nat /\ content[f][k].at <= k
        /\ \A i \in 0..(content[f][k].at - 1) :
              /\ content[f][k - i].rec = content[f][k].rec
              /\ content[f][k - i].at = content[f][k].at - i
    BY <1>1 DEF Recording, OnePiece
  <2>2. \A i \in 0..(content[f][k].at - 1) : k - i \in 1..Len(content'[f])
    BY <2>1
  <2> QED
    BY <2>1, <2>2
<1>3. NoDuplicates'
  <2> SUFFICES ASSUME NEW f \in Files, NEW g \in Files,
                      NEW j \in 1..Len(content'[f]), NEW k \in 1..Len(content'[g]),
                      content'[f][j].rec = content'[g][k].rec,
                      content'[f][j].at = content'[g][k].at
               PROVE  f = g /\ j = k
    BY DEF NoDuplicates
  <2>1. /\ j \in 1..Len(content[f]) /\ content'[f][j] = content[f][j]
        /\ k \in 1..Len(content[g]) /\ content'[g][k] = content[g][k]
    BY <1>1
  <2> QED
    BY <2>1 DEF Recording, NoDuplicates
<1> QED
  BY <1>2, <1>3

LEMMA FreshKeepsRecording ==
  ASSUME Discipline, Recording, NEW t \in Threads, NEW s \in Sinks, NEW p \in Paths,
         Open(t, s, p), NEW f \in Files, Unused(f),
         content' = [content EXCEPT ![f] = <<>>], synced' = [synced EXCEPT ![f] = 0]
  PROVE  Recording'
<1>1. /\ Acts(t) /\ pc'[t] \in {"dirsync", "register"} /\ UNCHANGED <<issued, reply>>
  BY DEF Acts, Open, AfterOpen, history, Discipline, TypeOK
<1>2. /\ content'[f] = <<>> /\ synced'[f] = 0
      /\ \A g \in Files \ {f} : content'[g] = content[g] /\ synced'[g] = synced[g]
  BY DEF Discipline, TypeOK
<1>3. \A g \in Files : content[g] \in Seq(Byte) /\ Len(content[g]) \in Nat
  BY DEF Discipline, TypeOK
<1>4. OnePiece' /\ NoDuplicates'
  BY <1>2, <1>3, CutKeepsPieces
<1>5. SyncedIsThere'
  BY <1>2 DEF Recording, SyncedIsThere
<1>6. ASSUME NEW g \in Files, NEW k \in 1..Len(content'[g])
      PROVE  g # f /\ content'[g] = content[g] /\ k \in 1..Len(content[g])
  BY <1>2, <1>6
<1>7. Numbered'
  BY <1>1, <1>6, SameCallsNumbered DEF Calling, Recording, Numbered
<1>8. Progress(t)'
  BY <1>1 DEF Progress
<1>9. ASSUME NEW u \in Threads \ {t} PROVE Progress(u)'
  <2>1. ASSUME pc[u] \in {"write", "fsync", "settle"}
        PROVE  content'[FileOf(u)] = content[FileOf(u)] /\ synced'[FileOf(u)] = synced[FileOf(u)]
    <3>1. job[u].sink \in Sinks /\ phase[job[u].sink] = "ready" /\ FileOf(u) \in Files
      BY <2>1, CriticalFacts DEF InCritical
    <3>2. FileOf(u) # f
      BY <3>1 DEF Unused, HoldsDescriptor, FileOf
    <3> QED
      BY <1>2, <3>1, <3>2
  <2>2. pc'[u] = pc[u] /\ job'[u] = job[u] /\ (Calling(u) => FileOf(u)' = FileOf(u))
    BY <1>1, Bystanders
  <2> QED
    BY <1>6, <2>1, <2>2, ProgressKept DEF Recording
<1> QED
  BY <1>4, <1>5, <1>7, <1>8, <1>9 DEF Recording

LEMMA CrashKeepsRecording ==
  ASSUME Discipline, Recording, Crash
  PROVE  Recording'
<1>1. PICK kept \in [Files -> UNION {synced[f]..Len(content[f]) : f \in Files}] :
         /\ \A f \in Files : kept[f] \in synced[f]..Len(content[f])
         /\ content' = [f \in Files |-> SubSeq(content[f], 1, kept[f])]
  BY DEF Crash
<1>2. ASSUME NEW f \in Files
      PROVE  /\ Len(content'[f]) = kept[f]
             /\ kept[f] \in Nat /\ kept[f] <= Len(content[f]) /\ synced[f] <= kept[f]
             /\ 1..kept[f] \subseteq 1..Len(content[f])
             /\ \A k \in 1..kept[f] : content'[f][k] = content[f][k]
  <2>1. content[f] \in Seq(Byte) /\ synced[f] \in Nat /\ kept[f] \in synced[f]..Len(content[f])
    BY <1>1 DEF Discipline, TypeOK
  <2>2. kept[f] \in Nat /\ kept[f] <= Len(content[f]) /\ synced[f] <= kept[f]
    BY <2>1
  <2>3. content'[f] = SubSeq(content[f], 1, kept[f])
    BY <1>1
  <2> QED
    BY <2>1, <2>2, <2>3
<1>3. OnePiece' /\ NoDuplicates'
  BY <1>2, CutKeepsPieces
<1>4. SyncedIsThere'
  BY <1>2 DEF SyncedIsThere, Crash
<1>5. \A t \in Threads : pc'[t] = "idle"
  BY DEF Crash
<1>6. \A r \in Calls : r > issued' => reply'[r] = "unused"
  BY DEF Crash, Recording, Numbered
<1>7. ASSUME NEW f \in Files, NEW k \in 1..Len(content'[f])
      PROVE  content'[f][k].rec <= issued'
  <2>1. k \in 1..Len(content[f]) /\ content'[f][k] = content[f][k]
    BY <1>2
  <2>2. issued' = issued
    BY DEF Crash
  <2> QED
    BY <2>1, <2>2 DEF Recording, Numbered
<1>8. Numbered'
  BY <1>5, <1>6, <1>7 DEF Numbered, Calling
<1>9. \A t \in Threads : Progress(t)'
  BY <1>5 DEF Progress
<1> QED
  BY <1>3, <1>4, <1>8, <1>9 DEF Recording

LEMMA CallKeepsRecording ==
  ASSUME Discipline, Recording, NEW t \in Threads, NEW s \in Sinks, NEW encodable \in BOOLEAN,
         Call(t, s, encodable)
  PROVE  Recording'
<1>1. /\ pc[t] = "idle" /\ UNCHANGED <<content, synced>>
      /\ issued' = issued + 1 /\ issued + 1 \in Calls /\ issued \in Nat
      /\ \/ /\ reply' = [reply EXCEPT ![issued + 1] = "pending"]
            /\ pc' = [pc EXCEPT ![t] = "lock"]
            /\ job' = [job EXCEPT ![t] = JobOf(s, issued + 1)]
         \/ /\ reply' = [reply EXCEPT ![issued + 1] = "schema_error"]
            /\ UNCHANGED <<pc, job>>
  BY EnvironmentAssumption DEF Call, disk, Discipline, TypeOK, Calls
<1>2. Acts(t)
  BY DEF Acts
<1>3. \A r \in Calls : r # issued + 1 => reply'[r] = reply[r]
  BY <1>1 DEF Discipline, TypeOK
<1>4. \A f \in Files : \A k \in 1..Len(content[f]) :
         content[f][k].rec \in Nat /\ content[f][k].rec <= issued
  <2>1. \A f \in Files : \A k \in 1..Len(content[f]) : content[f][k] \in Byte
    BY DEF Discipline, TypeOK
  <2> QED
    BY <2>1, EnvironmentAssumption DEF Recording, Numbered, Byte, Calls
<1>5. \/ /\ pc'[t] = "lock" /\ job'[t].rec = issued + 1 /\ job'[t].written = 0
         /\ reply'[issued + 1] = "pending"
      \/ pc'[t] = "idle"
  BY <1>1 DEF Discipline, TypeOK, JobOf
<1>6. ASSUME NEW u \in Threads \ {t}, Calling(u)'
      PROVE  /\ Calling(u) /\ job'[u].rec = job[u].rec /\ job[u].rec \in Nat
             /\ job[u].rec <= issued /\ reply'[job[u].rec] = "pending"
  <2>1. Calling(u) /\ job'[u].rec = job[u].rec
    BY <1>2, <1>6, Bystanders DEF Calling
  <2>2. job[u].rec \in Calls /\ job[u].rec <= issued /\ reply[job[u].rec] = "pending"
    BY <2>1 DEF Discipline, Usage, Recording, Numbered
  <2> QED
    BY <1>1, <1>3, <2>1, <2>2, EnvironmentAssumption DEF Calls
<1>7. \A r \in Calls : r > issued' => reply'[r] = "unused"
  <2> SUFFICES ASSUME NEW r \in Calls, r > issued + 1 PROVE reply'[r] = "unused"
    BY <1>1
  <2>1. r > issued /\ r # issued + 1
    BY <1>1, EnvironmentAssumption DEF Calls
  <2> QED
    BY <1>3, <2>1 DEF Recording, Numbered
<1>8. \A u \in Threads : Calling(u)' => job'[u].rec <= issued' /\ reply'[job'[u].rec] = "pending"
  BY <1>1, <1>5, <1>6 DEF Calling
<1>9. \A u, v \in Threads : u # v /\ Calling(u)' /\ Calling(v)' => job'[u].rec # job'[v].rec
  <2>1. ASSUME NEW u \in Threads \ {t}, Calling(u)', Calling(t)' PROVE job'[u].rec # job'[t].rec
    BY <1>1, <1>5, <1>6, <2>1 DEF Calling
  <2>2. ASSUME NEW u \in Threads \ {t}, NEW v \in Threads \ {t}, u # v, Calling(u)', Calling(v)'
        PROVE  job'[u].rec # job'[v].rec
    BY <1>6, <2>2 DEF Recording, Numbered
  <2> QED
    BY <2>1, <2>2
<1>10. \A f \in Files : \A k \in 1..Len(content'[f]) : content'[f][k].rec <= issued'
  BY <1>1, <1>4
<1>11. Numbered'
  BY <1>7, <1>8, <1>9, <1>10 DEF Numbered, Calling
<1>12. Progress(t)'
  <2>1. CASE pc'[t] = "idle"
    BY <2>1 DEF Progress
  <2>2. CASE pc'[t] = "lock" /\ job'[t].rec = issued + 1 /\ job'[t].written = 0
    <3>1. NoneBeyond(t)'
      BY <1>1, <1>4, <2>2 DEF NoneBeyond
    <3> QED
      BY <2>2, <3>1 DEF Progress
  <2> QED
    BY <1>5, <2>1, <2>2
<1> QED
  BY <1>1, <1>2, <1>11, <1>12, FilesUntouched

\* An fsync that returns makes durable all that is in the file.
LEMMA FsyncKeepsRecording ==
  ASSUME Discipline, Recording, NEW t \in Threads, Fsync(t)
  PROVE  Recording'
<1> DEFINE f == FileOf(t)
<1>1. /\ Acts(t) /\ InCritical(t) /\ Calling(t) /\ f \in Files /\ job[t] \in Job
      /\ Progress(t) /\ pc[t] = "fsync"
  BY CriticalFacts DEF Fsync, Acts, Step, InCritical, Recording
<1>2. /\ content' = content /\ UNCHANGED <<issued, reply, file>> /\ pc'[t] = "settle"
      /\ \/ synced' = [synced EXCEPT ![f] = Len(content[f])] /\ job' = [job EXCEPT ![t].result = "complete"]
         \/ synced' = synced /\ job' = [job EXCEPT ![t].result = "sync_failed"]
  BY DEF Fsync, instances, history, Discipline, TypeOK
<1>3. /\ job'[t].sink = job[t].sink /\ job'[t].rec = job[t].rec
      /\ \/ job'[t].result = "complete" /\ synced'[f] = Len(content[f])
         \/ job'[t].result = "sync_failed"
  BY <1>1, <1>2 DEF Discipline, TypeOK, Job
<1>4. \A g \in Files \ {f} : synced'[g] = synced[g]
  BY <1>2 DEF Discipline, TypeOK
<1>5. OnePiece' /\ NoDuplicates'
  BY <1>2 DEF Recording, OnePiece, NoDuplicates
<1>6. SyncedIsThere'
  <2>1. content[f] \in Seq(Byte) /\ Len(content[f]) \in Nat
    BY <1>1 DEF Discipline, TypeOK
  <2>2. synced'[f] = Len(content[f]) \/ synced'[f] = synced[f]
    BY <1>1, <1>2 DEF Discipline, TypeOK
  <2> QED
    BY <1>2, <1>4, <2>1, <2>2 DEF Recording, SyncedIsThere
<1>7. Numbered'
  <2>1. \A g \in Files : \A k \in 1..Len(content'[g]) : content'[g][k].rec <= issued
    BY <1>2 DEF Recording, Numbered
  <2>2. UNCHANGED <<issued, reply>>
    BY <1>2
  <2> QED
    BY <1>1, <1>3, <2>1, <2>2, SameCallsNumbered
<1>8. Progress(t)'
  <2>1. content[f] # <<>> /\ content[f] \in Seq(Byte)
        /\ content[f][Len(content[f])].rec = job[t].rec /\ content[f][Len(content[f])].at = RecordLen
    BY <1>1 DEF Progress, EndsAt, Discipline, TypeOK
  <2>2. Len(content[f]) \in 1..Len(content[f])
    BY <2>1
  <2>3. FileOf(t)' = f
    BY <1>2, <1>3 DEF FileOf
  <2>4. ASSUME job'[t].result = "complete"
        PROVE  \E k \in 1..Len(content[f]) :
                  /\ content[f][k].rec = job[t].rec /\ content[f][k].at = RecordLen
                  /\ k <= synced'[f]
    BY <1>3, <2>1, <2>2, <2>4
  <2> HIDE DEF f
  <2> QED
    BY <1>2, <1>3, <2>3, <2>4 DEF Progress, EndsThere
<1>9. ASSUME NEW u \in Threads \ {t} PROVE Progress(u)'
  <2>1. ASSUME pc[u] \in {"write", "fsync", "settle"}
        PROVE  content'[FileOf(u)] = content[FileOf(u)] /\ synced'[FileOf(u)] = synced[FileOf(u)]
    <3>1. InCritical(u)
      BY <2>1 DEF InCritical
    <3>2. FileOf(u) # f /\ FileOf(u) \in Files
      BY <1>1, <3>1, CriticalApart, CriticalFacts DEF f
    <3> QED
      BY <1>2, <1>4, <3>2
  <2>2. pc'[u] = pc[u] /\ job'[u] = job[u] /\ (Calling(u) => FileOf(u)' = FileOf(u))
    BY <1>1, Bystanders
  <2>3. \A g \in Files : \A k \in 1..Len(content'[g]) :
            Calling(u) /\ content'[g][k].rec = job[u].rec =>
                k \in 1..Len(content[g]) /\ content'[g][k] = content[g][k]
    BY <1>2
  <2> QED
    BY <2>1, <2>2, <2>3, ProgressKept DEF Recording
<1> QED
  BY <1>5, <1>6, <1>7, <1>8, <1>9 DEF Recording

\* A step outside any call, or inside one but neither writing, syncing nor ending it.
LEMMA QuietKeepsRecording ==
  ASSUME Discipline, Recording, NEW t \in Threads, Acts(t),
         UNCHANGED <<content, synced, issued, reply>>,
         Calling(t)' => Calling(t) /\ job'[t].rec = job[t].rec,
         Progress(t)'
  PROVE  Recording'
<1>1. \A f \in Files : \A k \in 1..Len(content'[f]) : content'[f][k].rec <= issued
  BY DEF Recording, Numbered
<1>2. Numbered'
  BY <1>1, SameCallsNumbered
<1> QED
  BY <1>2, FilesUntouched

LEMMA RecordingStep ==
  ASSUME Discipline, Recording, [Next]_vars
  PROVE  Recording'
<1>1. ASSUME NEW t \in Threads, SyncDirectory(t) \/ FailConstruction(t) \/ Register(t)
      PROVE  Recording'
  <2>1. Acts(t) /\ UNCHANGED <<content, synced, issued, reply>>
    BY <1>1 DEF Acts, Step, SyncDirectory, FailConstruction, Register, disk, history
  <2>2. pc'[t] \in {"register", "idle"}
    BY <1>1 DEF SyncDirectory, FailConstruction, Register, CloseAndRaise, Discipline, TypeOK
  <2> QED
    BY <2>1, <2>2, QuietKeepsRecording DEF Calling, Progress
<1>2. ASSUME NEW t \in Threads, Acquire(t) \/ StartWriting(t) PROVE Recording'
  <2>1. Acts(t) /\ UNCHANGED <<content, synced, issued, reply, file>> /\ job' = job
        /\ pc[t] \in {"lock", "check"} /\ pc'[t] \in {"check", "write"}
    BY <1>2 DEF Acts, Step, Acquire, StartWriting, disk, instances, history, Discipline, TypeOK
  <2>2. NoneBeyond(t)' /\ job[t].written = 0
    BY <2>1 DEF Recording, Progress, NoneBeyond
  <2>3. Progress(t)'
    BY <2>1, <2>2, RecordLenAssumption DEF Progress
  <2> QED
    BY <2>1, <2>3, QuietKeepsRecording DEF Calling
<1>3. ASSUME NEW t \in Threads, StopWriting(t) PROVE Recording'
  <2>1. Acts(t) /\ UNCHANGED <<content, synced, issued, reply, file>> /\ pc[t] = "write"
        /\ pc'[t] = "settle"
    BY <1>3 DEF Acts, Step, StopWriting, disk, instances, history, Discipline, TypeOK
  <2>2. job'[t].rec = job[t].rec /\ job'[t].sink = job[t].sink
        /\ job'[t].result \in {"partial", "nothing"}
        /\ (job'[t].result = "partial" => job[t].written > 0)
    BY <1>3 DEF StopWriting, Discipline, TypeOK, Job
  <2>3. job[t].written > 0 => Torn(FileOf(t))
    <3>1. job[t].written \in Nat /\ job[t].written < RecordLen
      BY <2>1, RecordLenAssumption DEF Recording, Progress, Discipline, TypeOK, Job
    <3> QED
      BY <2>1, <3>1, RecordLenAssumption DEF Recording, Progress, EndsAt, Torn
  <2>4. FileOf(t)' = FileOf(t)
    BY <2>1, <2>2 DEF FileOf
  <2>5. Progress(t)'
    BY <2>1, <2>2, <2>3, <2>4 DEF Progress, Torn
  <2> QED
    BY <2>1, <2>2, <2>5, QuietKeepsRecording DEF Calling
<1>4. ASSUME NEW t \in Threads, Refuse(t) \/ Settle(t) \/ Interrupt(t) PROVE Recording'
  <2>1. Acts(t) /\ UNCHANGED <<content, synced, issued>> /\ Calling(t)
    BY <1>4 DEF Acts, Step, Refuse, Settle, Interrupt, disk, Calling
  <2>2. PICK a \in Replies : Answer(t, a)
    BY <1>4 DEF Refuse, Settle, Interrupt, Verdict, Replies
  <2>3. Numbered' /\ Progress(t)'
    BY <2>1, <2>2, AnswerNumbered
  <2> QED
    BY <2>1, <2>3, FilesUntouched
<1>5. ASSUME NEW t \in Threads, WriteSome(t) PROVE Recording'
  BY <1>5, WriteKeepsRecording
<1>6. ASSUME NEW t \in Threads, Fsync(t) PROVE Recording'
  BY <1>6, FsyncKeepsRecording
<1>7. ASSUME NEW t \in Threads, NEW s \in Sinks, NEW p \in Paths, Open(t, s, p) PROVE Recording'
  <2>1. CASE UNCHANGED <<content, synced>>
    <3>1. Acts(t) /\ UNCHANGED <<issued, reply>>
      BY <1>7 DEF Acts, Open, history
    <3>2. pc'[t] \in {"dirsync", "register"}
      BY <1>7 DEF Open, AfterOpen, Discipline, TypeOK
    <3> QED
      BY <2>1, <3>1, <3>2, QuietKeepsRecording DEF Calling, Progress
  <2>2. ASSUME NEW f \in Files, Unused(f), content' = [content EXCEPT ![f] = <<>>],
               synced' = [synced EXCEPT ![f] = 0]
        PROVE  Recording'
    BY <1>7, <2>2, FreshKeepsRecording
  <2> QED
    BY <1>7, <2>1, <2>2 DEF Open
<1>8. ASSUME NEW t \in Threads, NEW s \in Sinks, NEW encodable \in BOOLEAN, Call(t, s, encodable)
      PROVE  Recording'
  BY <1>8, CallKeepsRecording
<1>9. ASSUME NEW t \in Threads, NEW s \in Sinks, Close(t, s) PROVE Recording'
  <2>1. Acts(t) /\ UNCHANGED <<content, synced, issued, reply, pc, job>> /\ pc[t] = "idle"
    BY <1>9 DEF Acts, Close, disk, history
  <2> QED
    BY <2>1, QuietKeepsRecording DEF Calling, Progress
<1>10. ASSUME (\E e \in Entries : Remove(e)) \/ UNCHANGED vars PROVE Recording'
  <2>1. UNCHANGED <<content, synced, issued, reply, pc, job, file>>
    BY <1>10 DEF Remove, vars, disk, instances, history
  <2>2. OnePiece' /\ NoDuplicates' /\ SyncedIsThere'
    BY <2>1 DEF Recording, OnePiece, NoDuplicates, SyncedIsThere
  <2>3. Numbered'
    BY <2>1 DEF Recording, Numbered, Calling
  <2>4. ASSUME NEW u \in Threads PROVE Progress(u)'
    BY <2>1 DEF Recording, Progress, NoneBeyond, EndsAt, EndsThere, Torn, FileOf
  <2> QED
    BY <2>2, <2>3, <2>4 DEF Recording
<1>11. CASE Crash
  BY <1>11, CrashKeepsRecording
<1> QED
  BY <1>1, <1>2, <1>3, <1>4, <1>5, <1>6, <1>7, <1>8, <1>9, <1>10, <1>11 DEF Next, Work, Step

LEMMA SpecRecording == Spec => []Recording
<1>1. Discipline /\ Recording /\ [Next]_vars => Recording'
  BY RecordingStep
<1> QED
  BY <1>1, RecordingInit, SpecDiscipline, PTL DEF Spec

--------------------------------------------------------------------------------
(* Where no operator removes files.                                             *)

Named(f) == \E e \in Entries : dir[e] = f
Saved(f) == \E e \in Entries : dir[e] = f /\ savedDir[e] = f

\* Record r is on disk to stay, its last byte at place k of f.
Kept(r, f) == \E k \in 1..Len(content[f]) : EndsThere(r, f, k) /\ k <= synced[f]

\* The path of a construction still leads to the file that it opened.
Led(t) == job[t].path \in Paths /\ dir[Entry[job[t].path]] = FileOf(t)

\* What stands behind an audit sink that is past its directory fsync, or behind an answer of
\* one, has a saved name, if the directory is the one the file is in.
Saving ==
    /\ \A s \in Sinks : phase[s] \in {"ready", "closed"} /\ KindOf[s] = "audit" => Saved(file[s])
    /\ \A t \in Threads : pc[t] = "register" /\ KindOf[job[t].sink] = "audit" => Saved(FileOf(t))
    /\ \A r \in Calls : reply[r] = "durable" => \E f \in Files : Saved(f) /\ Kept(r, f)

\* What stands behind a latch or an instance has a name.
Keeping ==
    /\ \A s \in Sinks : phase[s] # "absent" => Named(file[s])
    /\ \A t \in Threads : pc[t] = "dirsync" => Led(t)
    /\ \A f \in Files : latched[f] => Torn(f) /\ Named(f)
    /\ Contained => Saving

LEMMA KeepingInit == Init => Keeping
  BY DEF Init, Keeping, Saving

\* Until a crash a name keeps its file, and a saved one keeps it beyond.
LEMMA NamesStay ==
  ASSUME Replaceable = {}, Discipline, [Next]_vars, NEW f \in Files
  PROVE  /\ ~Crash => \A e \in Entries : dir[e] = f => dir'[e] = f
         /\ ~Crash /\ Named(f) => Named(f)'
         /\ Saved(f) => Saved(f)'
<1>1. ASSUME NEW t \in Threads, SyncDirectory(t), NEW e \in Entries, dir[e] = f
      PROVE  dir'[e] = f /\ (savedDir[e] = f => savedDir'[e] = f)
  BY <1>1 DEF SyncDirectory
<1>2. ASSUME NEW t \in Threads, NEW s \in Sinks, NEW q \in Paths, Open(t, s, q),
             NEW e \in Entries, dir[e] = f
      PROVE  dir'[e] = f /\ savedDir' = savedDir
  BY <1>2, SentinelAssumption DEF Open, Discipline, TypeOK
<1>3. ASSUME NEW t \in Threads, Acts(t), ~SyncDirectory(t),
             ~\E s \in Sinks, q \in Paths : Open(t, s, q)
      PROVE  UNCHANGED <<dir, savedDir>>
  BY <1>3 DEF Acts, Step, FailConstruction, Register, Acquire, Refuse, StartWriting, WriteSome,
     StopWriting, Fsync, Settle, Interrupt, Call, Close, disk
<1>4. ASSUME Crash, NEW e \in Entries, dir[e] = f, savedDir[e] = f
      PROVE  dir'[e] = f /\ savedDir'[e] = f
  BY <1>4 DEF Crash
<1>5. ~\E e \in Entries : Remove(e)
  BY DEF Remove
<1>6. UNCHANGED vars => UNCHANGED <<dir, savedDir>>
  BY DEF vars, disk
<1> QED
  BY <1>1, <1>2, <1>3, <1>4, <1>5, <1>6, WhoActs DEF Named, Saved

\* A named file only grows, at its end, and what is synced in it too.
LEMMA NamedGrows ==
  ASSUME Discipline, Recording, [Next]_vars, ~Crash, NEW f \in Files, Named(f)
  PROVE  /\ Len(content[f]) \in Nat /\ Len(content'[f]) \in Nat
         /\ Len(content[f]) <= Len(content'[f])
         /\ \A k \in 1..Len(content[f]) : content'[f][k] = content[f][k]
         /\ synced[f] <= synced'[f]
<1>1. content[f] \in Seq(Byte) /\ Len(content[f]) \in Nat /\ synced[f] \in Nat
      /\ synced[f] <= Len(content[f])
  BY DEF Discipline, TypeOK, Recording, SyncedIsThere
<1>2. ~\E g \in Files : Unused(g) /\ g = f
  BY DEF Named, Unused
<1>3. /\ Len(content'[f]) \in Nat /\ Len(content[f]) <= Len(content'[f])
      /\ \A k \in 1..Len(content[f]) : content'[f][k] = content[f][k]
  <2>1. ASSUME NEW t \in Threads, WriteSome(t)
        PROVE  /\ Len(content'[f]) \in Nat /\ Len(content[f]) <= Len(content'[f])
               /\ \A k \in 1..Len(content[f]) : content'[f][k] = content[f][k]
    <3>1. PICK n \in 1..(RecordLen - job[t].written) :
             content' = [content EXCEPT ![FileOf(t)] = @ \o NextBytes(t, n)]
      BY <2>1 DEF WriteSome
    <3>2. pc[t] = "write" /\ n \in Nat
      BY <2>1 DEF WriteSome
    <3>3. CASE f = FileOf(t)
      BY <1>1, <3>1, <3>2, <3>3, Appended
    <3>4. CASE f # FileOf(t)
      BY <1>1, <3>1, <3>4 DEF Discipline, TypeOK
    <3> QED
      BY <3>3, <3>4
  <2>2. ASSUME NEW g \in Files, Unused(g), content' = [content EXCEPT ![g] = <<>>]
        PROVE  content'[f] = content[f]
    BY <1>2, <2>2 DEF Discipline, TypeOK
  <2> QED
    BY <1>1, <2>1, <2>2, ContentChange
<1>4. synced[f] <= synced'[f]
  <2>1. ASSUME NEW t \in Threads, Fsync(t) PROVE synced[f] <= synced'[f]
    <3>1. synced'[f] = synced[f] \/ synced'[f] = Len(content[f])
      BY <2>1 DEF Fsync, Discipline, TypeOK
    <3> QED
      BY <1>1, <3>1
  <2>2. ASSUME NEW t \in Threads, NEW s \in Sinks, NEW p \in Paths, Open(t, s, p)
        PROVE  synced'[f] = synced[f]
    BY <1>2, <2>2 DEF Open, Discipline, TypeOK
  <2>3. ASSUME NEW t \in Threads, Acts(t), ~Fsync(t), ~\E s \in Sinks, p \in Paths : Open(t, s, p)
        PROVE  synced' = synced
    BY <2>3 DEF Acts, Step, SyncDirectory, FailConstruction, Register, Acquire, Refuse,
       StartWriting, WriteSome, StopWriting, Settle, Interrupt, Call, Close, disk
  <2>4. (\E e \in Entries : Remove(e)) \/ UNCHANGED vars => synced' = synced
    BY DEF Remove, vars, disk
  <2> QED
    BY <1>1, <2>1, <2>2, <2>3, <2>4, WhoActs
<1> QED
  BY <1>1, <1>3, <1>4

\* What becomes of an instance: it stays on its file, or is new.
LEMMA InstancesChange ==
  ASSUME Discipline, [Next]_vars, ~Crash, NEW s \in Sinks, phase'[s] # "absent"
  PROVE  \/ /\ phase[s] # "absent" /\ file'[s] = file[s]
            /\ \/ phase'[s] \in {"ready", "closed"} => phase[s] \in {"ready", "closed"}
               \/ \E t \in Threads : pc[t] = "register" /\ job[t].sink = s
         \/ /\ phase[s] = "absent" /\ phase'[s] = "opened"
            /\ \E e \in Entries : dir'[e] = file'[s]
<1> USE DEF Discipline, TypeOK
<1>1. ASSUME NEW t \in Threads, Register(t) \/ FailConstruction(t)
      PROVE  /\ phase[s] # "absent" /\ file'[s] = file[s]
             /\ \/ phase'[s] \in {"ready", "closed"} => phase[s] \in {"ready", "closed"}
                \/ pc[t] = "register" /\ job[t].sink = s
  <2>1. job[t].sink \in Sinks /\ phase[job[t].sink] = "opened"
    BY <1>1 DEF Register, FailConstruction, Construction, Constructing
  <2>2. CASE job[t].sink = s
    BY <1>1, <2>1, <2>2 DEF Register, FailConstruction, CloseAndRaise
  <2>3. CASE job[t].sink # s
    BY <1>1, <2>1, <2>3 DEF Register, FailConstruction, CloseAndRaise
  <2> QED
    BY <2>2, <2>3
<1>2. ASSUME NEW t \in Threads, Step(t), ~Register(t), ~FailConstruction(t)
      PROVE  phase' = phase /\ file' = file
  BY <1>2 DEF Step, SyncDirectory, Acquire, Refuse, StartWriting, WriteSome, StopWriting, Fsync,
     Settle, instances
<1>3. ASSUME NEW t \in Threads, NEW x \in Sinks, NEW p \in Paths, Open(t, x, p)
      PROVE  \/ phase'[s] = phase[s] /\ file'[s] = file[s]
             \/ /\ phase[s] = "absent" /\ phase'[s] = "opened"
                /\ \E e \in Entries : dir'[e] = file'[s]
  <2>1. Entry[p] \in Entries
    BY DirectoryAssumption
  <2>2. CASE x = s
    <3>1. phase[s] = "absent" /\ phase'[s] = "opened" /\ dir'[Entry[p]] = file'[s]
      BY <1>3, <2>1, <2>2 DEF Open
    <3> QED
      BY <2>1, <3>1
  <2>3. CASE x # s
    BY <1>3, <2>3 DEF Open
  <2> QED
    BY <2>2, <2>3
<1>4. ASSUME NEW t \in Threads, NEW x \in Sinks, Close(t, x)
      PROVE  phase'[s] # phase[s] => phase[s] = "ready" /\ file'[s] = file[s]
  BY <1>4 DEF Close
<1>5. (\E t \in Threads, x \in Sinks : Close(t, x)) => file' = file
  BY DEF Close
<1>6. \/ \E t \in Threads, x \in Sinks, encodable \in BOOLEAN : Call(t, x, encodable)
      \/ \E t \in Threads : Interrupt(t)
      \/ \E e \in Entries : Remove(e)
      \/ UNCHANGED vars
      => phase' = phase /\ file' = file
  BY DEF Call, Interrupt, Remove, vars, instances
<1> QED
  BY <1>1, <1>2, <1>3, <1>4, <1>5, <1>6 DEF Next, Work

\* Of an instance past the directory fsync, the file's name is saved.
LEMMA InstancesKept ==
  ASSUME Replaceable = {}, Discipline, Discipline', Keeping, [Next]_vars, ~Crash
  PROVE  /\ \A s \in Sinks : phase'[s] # "absent" => Named(file[s])'
         /\ \A t \in Threads : pc'[t] = "dirsync" => Led(t)'
         /\ Contained =>
               /\ \A s \in Sinks : phase'[s] \in {"ready", "closed"} /\ KindOf[s] = "audit" =>
                     Saved(file[s])'
               /\ \A t \in Threads : pc'[t] = "register" /\ KindOf[job'[t].sink] = "audit" =>
                     Saved(FileOf(t))'
<1>1. ASSUME NEW s \in Sinks, phase'[s] # "absent" PROVE Named(file[s])'
  <2>1. ASSUME phase[s] # "absent", file'[s] = file[s] PROVE Named(file[s])'
    <3>1. file[s] \in Files /\ Named(file[s])
      BY <2>1 DEF Discipline, Construction, Keeping
    <3> QED
      BY <2>1, <3>1, NamesStay DEF Named
  <2>2. ASSUME \E e \in Entries : dir'[e] = file'[s] PROVE Named(file[s])'
    BY <2>2 DEF Named
  <2> QED
    BY <1>1, <2>1, <2>2, InstancesChange
<1>2. ASSUME Contained, NEW s \in Sinks, phase'[s] \in {"ready", "closed"}, KindOf[s] = "audit"
      PROVE  Saved(file[s])'
  <2>1. phase[s] # "absent" /\ file'[s] = file[s] /\ file[s] \in Files
    BY <1>2, InstancesChange DEF Discipline, Construction
  <2>2. Saved(file[s])
    <3>1. CASE phase[s] \in {"ready", "closed"}
      BY <1>2, <3>1 DEF Keeping, Saving
    <3>2. ASSUME NEW t \in Threads, pc[t] = "register", job[t].sink = s PROVE Saved(file[s])
      BY <1>2, <3>2 DEF Keeping, Saving, FileOf
    <3> QED
      BY <1>2, <3>1, <3>2, InstancesChange
  <2> QED
    BY <2>1, <2>2, NamesStay DEF Saved
<1>3. ASSUME Contained, NEW t \in Threads, pc'[t] = "register", KindOf[job'[t].sink] = "audit"
      PROVE  Saved(FileOf(t))'
  <2>1. CASE SyncDirectory(t)
    <3>1. job' = job /\ file' = file /\ dir' = dir /\ pc[t] = "dirsync"
      BY <2>1 DEF SyncDirectory, instances
    <3>2. job[t].path \in Paths /\ dir[Entry[job[t].path]] = FileOf(t)
      BY <3>1 DEF Keeping, Led
    <3>3. Entry[job[t].path] \in Entries /\ Entry[job[t].path] \in Siblings[job[t].path]
      BY <1>3, <3>2, DirectoryAssumption DEF Contained
    <3>4. savedDir'[Entry[job[t].path]] = dir[Entry[job[t].path]]
      BY <2>1, <3>3 DEF SyncDirectory
    <3> QED
      BY <3>1, <3>2, <3>3, <3>4 DEF Saved, FileOf
  <2>2. CASE pc[t] = "register" /\ job'[t] = job[t]
    <3>1. /\ job[t].sink \in Sinks /\ phase[job[t].sink] = "opened"
          /\ phase'[job[t].sink] = "opened"
      BY <1>3, <2>2 DEF Discipline, Construction, Constructing
    <3>2. file'[job[t].sink] = file[job[t].sink] /\ file[job[t].sink] \in Files
      BY <3>1, InstancesChange DEF Discipline, Construction
    <3>3. Saved(file[job[t].sink])
      BY <1>3, <2>2 DEF Keeping, Saving, FileOf
    <3> QED
      BY <2>2, <3>2, <3>3, NamesStay DEF Saved, FileOf
  <2>3. SyncDirectory(t) \/ (pc[t] = "register" /\ job'[t] = job[t])
    <3>1. ASSUME NEW u \in Threads, Acts(u), u # t PROVE pc[t] = "register" /\ job'[t] = job[t]
      BY <1>3, <3>1, Bystanders
    <3>2. ASSUME Step(t), ~SyncDirectory(t) PROVE FALSE
      <4>1. CASE FailConstruction(t) \/ Register(t)
        BY <1>3, <4>1 DEF FailConstruction, Register, CloseAndRaise, Discipline, TypeOK
      <4>2. CASE Acquire(t) \/ Refuse(t) \/ StartWriting(t) \/ StopWriting(t) \/ Fsync(t) \/ Settle(t)
        BY <1>3, <4>2 DEF Acquire, Refuse, StartWriting, StopWriting, Fsync, Settle, Answer,
           Discipline, TypeOK
      <4>3. CASE WriteSome(t)
        BY <1>3, <4>3 DEF WriteSome, Discipline, TypeOK
      <4> QED
        BY <3>2, <4>1, <4>2, <4>3 DEF Step
    <3>3. ASSUME NEW s \in Sinks, NEW p \in Paths, Open(t, s, p) PROVE FALSE
      BY <1>3, <3>3 DEF Open, AfterOpen, Construct, Discipline, TypeOK
    <3>4. ASSUME NEW s \in Sinks, Close(t, s) PROVE pc[t] = "register" /\ job'[t] = job[t]
      BY <1>3, <3>4 DEF Close
    <3>5. ASSUME NEW s \in Sinks, NEW encodable \in BOOLEAN, Call(t, s, encodable) PROVE FALSE
      BY <1>3, <3>5 DEF Call, Discipline, TypeOK
    <3>6. ASSUME Interrupt(t) PROVE FALSE
      BY <1>3, <3>6 DEF Interrupt, Answer, Discipline, TypeOK
    <3>7. UNCHANGED vars => pc' = pc /\ job' = job
      BY DEF vars
    <3>8. Acts(t) => SyncDirectory(t) \/ (pc[t] = "register" /\ job'[t] = job[t])
      BY <3>2, <3>3, <3>4, <3>5, <3>6 DEF Acts
    <3>9. ~\E e \in Entries : Remove(e)
      BY DEF Remove
    <3> QED
      BY <1>3, <3>1, <3>7, <3>8, <3>9, WhoActs
  <2> QED
    BY <2>1, <2>2, <2>3
<1>4. ASSUME NEW t \in Threads, pc'[t] = "dirsync" PROVE Led(t)'
  <2>1. ASSUME NEW s \in Sinks, NEW p \in Paths, Open(t, s, p) PROVE Led(t)'
    <3>1. Entry[p] \in Entries
      BY DirectoryAssumption
    <3>2. job'[t] = Construct(s, p)
      BY <2>1 DEF Open, Discipline, TypeOK
    <3>3. job'[t].path = p /\ job'[t].sink = s
      BY <3>2 DEF Construct
    <3>4. dir'[Entry[p]] = file'[s]
      BY <2>1, <3>1 DEF Open, Discipline, TypeOK
    <3> QED
      BY <3>3, <3>4 DEF Led, FileOf
  <2>2. ASSUME pc[t] = "dirsync", job'[t] = job[t] PROVE Led(t)'
    <3>1. /\ job[t].sink \in Sinks /\ phase[job[t].sink] = "opened"
          /\ phase'[job[t].sink] = "opened"
      BY <1>4, <2>2 DEF Discipline, Construction, Constructing
    <3>2. file'[job[t].sink] = file[job[t].sink] /\ file[job[t].sink] \in Files
      BY <3>1, InstancesChange DEF Discipline, Construction
    <3>3. job[t].path \in Paths /\ dir[Entry[job[t].path]] = file[job[t].sink]
      BY <2>2 DEF Keeping, Led, FileOf
    <3>4. Entry[job[t].path] \in Entries
      BY <3>3, DirectoryAssumption
    <3>5. dir'[Entry[job[t].path]] = file[job[t].sink]
      BY <3>2, <3>3, <3>4, NamesStay
    <3> QED
      BY <2>2, <3>2, <3>3, <3>5 DEF Led, FileOf
  <2>3. \/ \E s \in Sinks, p \in Paths : Open(t, s, p)
        \/ pc[t] = "dirsync" /\ job'[t] = job[t]
    <3>1. ASSUME NEW u \in Threads, Acts(u), u # t PROVE pc[t] = "dirsync" /\ job'[t] = job[t]
      BY <1>4, <3>1, Bystanders
    <3>2. ASSUME Step(t) PROVE FALSE
      <4>1. CASE SyncDirectory(t) \/ FailConstruction(t) \/ Register(t)
        BY <1>4, <4>1 DEF SyncDirectory, FailConstruction, Register, CloseAndRaise, Discipline, TypeOK
      <4>2. CASE Acquire(t) \/ Refuse(t) \/ StartWriting(t) \/ StopWriting(t) \/ Fsync(t) \/ Settle(t)
        BY <1>4, <4>2 DEF Acquire, Refuse, StartWriting, StopWriting, Fsync, Settle, Answer,
           Discipline, TypeOK
      <4>3. CASE WriteSome(t)
        BY <1>4, <4>3 DEF WriteSome, Discipline, TypeOK
      <4> QED
        BY <3>2, <4>1, <4>2, <4>3 DEF Step
    <3>3. ASSUME NEW s \in Sinks, Close(t, s) PROVE pc[t] = "dirsync" /\ job'[t] = job[t]
      BY <1>4, <3>3 DEF Close
    <3>4. ASSUME NEW s \in Sinks, NEW encodable \in BOOLEAN, Call(t, s, encodable) PROVE FALSE
      BY <1>4, <3>4 DEF Call, Discipline, TypeOK
    <3>5. ASSUME Interrupt(t) PROVE FALSE
      BY <1>4, <3>5 DEF Interrupt, Answer, Discipline, TypeOK
    <3>6. UNCHANGED vars => pc' = pc /\ job' = job
      BY DEF vars
    <3>7. ~\E e \in Entries : Remove(e)
      BY DEF Remove
    <3> QED
      BY <1>4, <3>1, <3>2, <3>3, <3>4, <3>5, <3>6, <3>7, WhoActs DEF Acts
  <2> QED
    BY <2>1, <2>2, <2>3
<1> QED
  BY <1>1, <1>2, <1>3, <1>4

\* A latch is set for a torn record and nothing clears up behind it.
LEMMA LatchesKept ==
  ASSUME Replaceable = {}, Discipline, Recording, Keeping, WritersUnlatched, [Next]_vars, ~Crash,
         NEW f \in Files, latched'[f]
  PROVE  Torn(f)' /\ Named(f)'
<1>1. CASE latched[f]
  <2>1. Torn(f) /\ Named(f)
    BY <1>1 DEF Keeping
  <2>2. content'[f] = content[f]
    <3>1. ASSUME NEW t \in Threads, WriteSome(t) PROVE content'[f] = content[f]
      <4>1. FileOf(t) # f
        BY <1>1, <3>1 DEF WriteSome, WritersUnlatched, Writing
      <4> QED
        BY <3>1, <4>1 DEF WriteSome, Discipline, TypeOK
    <3>2. ASSUME NEW g \in Files, Unused(g), content' = [content EXCEPT ![g] = <<>>]
          PROVE  content'[f] = content[f]
      BY <2>1, <3>2 DEF Named, Unused, Discipline, TypeOK
    <3> QED
      BY <3>1, <3>2, ContentChange
  <2> QED
    BY <2>1, <2>2, NamesStay DEF Torn
<1>2. CASE ~latched[f]
  <2>1. PICK t \in Threads : Settle(t) /\ job[t].result = "partial" /\ f = FileOf(t)
    <3>1. ASSUME NEW t \in Threads, Settle(t)
          PROVE  job[t].result = "partial" /\ f = FileOf(t)
      BY <1>2, <3>1 DEF Settle, Discipline, TypeOK
    <3>2. ASSUME NEW t \in Threads, Acts(t), ~Settle(t) PROVE latched' = latched
      BY <3>2 DEF Acts, Step, SyncDirectory, FailConstruction, Register, Acquire, Refuse,
         StartWriting, WriteSome, StopWriting, Fsync, Interrupt, Open, Call, Close, table
    <3>3. (\E e \in Entries : Remove(e)) \/ UNCHANGED vars => latched' = latched
      BY DEF Remove, vars, table
    <3> QED
      BY <1>2, <3>1, <3>2, <3>3, WhoActs
  <2>2. InCritical(t) /\ pc[t] = "settle" /\ content' = content
    BY <2>1 DEF Settle, InCritical, disk
  <2>3. Torn(f) /\ job[t].sink \in Sinks /\ phase[job[t].sink] # "absent" /\ f \in Files
    BY <2>1, <2>2, CriticalFacts DEF Recording, Progress
  <2>4. Named(f)
    BY <2>1, <2>3 DEF Keeping, FileOf
  <2> QED
    BY <2>2, <2>3, <2>4, NamesStay DEF Torn
<1> QED
  BY <1>1, <1>2

\* What is kept stays kept, in a crash too: a crash spares synced bytes.
LEMMA KeptStays ==
  ASSUME Discipline, Recording, [Next]_vars, NEW f \in Files, Saved(f), NEW r \in Calls, Kept(r, f)
  PROVE  Kept(r, f)'
<1>1. PICK k \in 1..Len(content[f]) : EndsThere(r, f, k) /\ k <= synced[f]
  BY DEF Kept
<1>2. content[f] \in Seq(Byte) /\ Len(content[f]) \in Nat /\ synced[f] \in Nat
      /\ synced[f] <= Len(content[f])
  BY DEF Discipline, TypeOK, Recording, SyncedIsThere
<1>3. ASSUME k \in 1..Len(content'[f]), content'[f][k] = content[f][k], k <= synced'[f]
      PROVE  Kept(r, f)'
  <2>1. EndsThere(r, f, k)'
    BY <1>1, <1>3 DEF EndsThere
  <2> QED
    BY <1>3, <2>1 DEF Kept
<1>4. CASE ~Crash
  <2>1. Named(f)
    BY DEF Named, Saved
  <2>2. /\ Len(content[f]) \in Nat /\ Len(content'[f]) \in Nat
        /\ Len(content[f]) <= Len(content'[f])
        /\ \A j \in 1..Len(content[f]) : content'[f][j] = content[f][j]
        /\ synced[f] <= synced'[f]
    BY <1>4, <2>1, NamedGrows
  <2>3. synced'[f] \in Nat
    BY <1>4, DisciplineStep DEF Discipline, TypeOK
  <2> QED
    BY <1>1, <1>2, <1>3, <2>2, <2>3
<1>5. CASE Crash
  <2>1. PICK kept \in [Files -> UNION {synced[g]..Len(content[g]) : g \in Files}] :
           /\ \A g \in Files : kept[g] \in synced[g]..Len(content[g])
           /\ content' = [g \in Files |-> SubSeq(content[g], 1, kept[g])]
    BY <1>5 DEF Crash
  <2>2. kept[f] \in Nat /\ synced[f] <= kept[f] /\ kept[f] <= Len(content[f])
    <3>1. kept[f] \in synced[f]..Len(content[f])
      BY <2>1
    <3> QED
      BY <1>2, <3>1
  <2>3. content'[f] = SubSeq(content[f], 1, kept[f])
    BY <2>1
  <2>4. Len(content'[f]) = kept[f] /\ \A j \in 1..kept[f] : content'[f][j] = content[f][j]
    BY <1>2, <2>2, <2>3
  <2>5. synced' = synced
    BY <1>5 DEF Crash
  <2> QED
    BY <1>1, <1>2, <1>3, <2>2, <2>4, <2>5
<1> QED
  BY <1>4, <1>5

\* "durable" is told only of a record that is kept.
LEMMA AnswersKept ==
  ASSUME Replaceable = {}, Contained, Discipline, Recording, Keeping, [Next]_vars,
         NEW r \in Calls, reply'[r] = "durable"
  PROVE  \E f \in Files : Saved(f)' /\ Kept(r, f)'
<1>1. CASE reply[r] = "durable"
  BY <1>1, NamesStay, KeptStays DEF Keeping, Saving
<1>2. CASE reply[r] # "durable"
  <2>1. PICK t \in Threads : Settle(t) /\ job[t].rec = r /\ Verdict(t) = "durable"
    <3> USE DEF Discipline, TypeOK
    <3>1. ASSUME NEW t \in Threads, Settle(t) PROVE job[t].rec = r /\ Verdict(t) = "durable"
      BY <1>2, <3>1 DEF Settle, Answer
    <3>2. ASSUME NEW t \in Threads, Refuse(t) \/ Interrupt(t) PROVE FALSE
      BY <1>2, <3>2 DEF Refuse, Interrupt, Answer
    <3>3. ASSUME NEW t \in Threads, NEW s \in Sinks, NEW encodable \in BOOLEAN,
                 Call(t, s, encodable)
          PROVE  FALSE
      BY <1>2, <3>3 DEF Call
    <3>4. ASSUME NEW t \in Threads, Step(t), ~Settle(t), ~Refuse(t) PROVE reply' = reply
      BY <3>4 DEF Step, SyncDirectory, FailConstruction, Register, Acquire, StartWriting,
         WriteSome, StopWriting, Fsync, history
    <3>5. \/ \E t \in Threads, s \in Sinks, p \in Paths : Open(t, s, p)
          \/ \E t \in Threads, s \in Sinks : Close(t, s)
          \/ \E e \in Entries : Remove(e)
          \/ UNCHANGED vars
          => reply' = reply
      BY DEF Open, Close, Remove, vars, history
    <3>6. ~Crash
      BY <1>2 DEF Crash
    <3> HIDE DEF Discipline, TypeOK
    <3> QED
      BY <1>2, <3>1, <3>2, <3>3, <3>4, <3>5, <3>6 DEF Next, Work
  <2>2. /\ InCritical(t) /\ pc[t] = "settle" /\ job[t].result = "complete"
        /\ KindOf[job[t].sink] = "audit" /\ UNCHANGED <<content, synced, dir, savedDir>>
    BY <2>1 DEF Settle, InCritical, disk, Verdict
  <2>3. FileOf(t) \in Files /\ job[t].sink \in Sinks /\ phase[job[t].sink] = "ready"
    BY <2>2, CriticalFacts
  <2>4. Saved(FileOf(t))
    BY <2>2, <2>3 DEF Keeping, Saving, FileOf
  <2>5. Kept(r, FileOf(t))
    BY <2>1, <2>2 DEF Recording, Progress, Kept
  <2>6. ASSUME NEW f \in Files, Saved(f), Kept(r, f) PROVE Saved(f)' /\ Kept(r, f)'
    BY <2>2, <2>6 DEF Saved, Kept, EndsThere
  <2> QED
    BY <2>3, <2>4, <2>5, <2>6
<1> QED
  BY <1>1, <1>2

LEMMA KeepingStep ==
  ASSUME Replaceable = {}, Discipline, Discipline', Recording, WritersUnlatched, Keeping,
         [Next]_vars
  PROVE  Keeping'
<1>1. Contained =>
        \A r \in Calls : reply'[r] = "durable" => \E f \in Files : Saved(f)' /\ Kept(r, f)'
  BY AnswersKept
<1>2. CASE Crash
  BY <1>1, <1>2 DEF Crash, Keeping, Saving
<1>3. CASE ~Crash
  BY <1>1, <1>3, InstancesKept, LatchesKept DEF Keeping, Saving
<1> QED
  BY <1>2, <1>3

LEMMA SpecWritersUnlatched == Spec => []WritersUnlatched
<1>1. Init => WritersUnlatched
  BY DEF Init, WritersUnlatched, Writing
<1>2. Discipline /\ WritersUnlatched /\ [Next]_vars => WritersUnlatched'
  BY WritersUnlatchedStep
<1> QED
  BY <1>1, <1>2, SpecDiscipline, PTL DEF Spec

LEMMA SpecKeeping == Replaceable = {} => (Spec => []Keeping)
<1> SUFFICES ASSUME Replaceable = {} PROVE Spec => []Keeping
  OBVIOUS
<1>1. /\ Discipline /\ Discipline' /\ Recording /\ WritersUnlatched /\ Keeping /\ [Next]_vars
      => Keeping'
  BY KeepingStep
<1> QED
  BY <1>1, KeepingInit, SpecDiscipline, SpecRecording, SpecWritersUnlatched, PTL DEF Spec

\* Where no operator removes files, a latched file ends in a torn record for as long as the
\* latch stands, and an fsync that failed or a write that left nothing sets no latch.
THEOREM LatchIsEarned == Replaceable = {} => (Spec => []LatchedMeansTorn)
<1> SUFFICES ASSUME Replaceable = {} PROVE Spec => []LatchedMeansTorn
  OBVIOUS
<1>1. Keeping => LatchedMeansTorn
  BY DEF Keeping, LatchedMeansTorn
<1> QED
  BY <1>1, SpecKeeping, PTL

\* Where no operator removes files and no path leaves its directory by a link, what an
\* audit append that returned has written is on disk, whole, under a saved name, then and
\* after any number of crashes.
THEOREM AcknowledgedSurvives == Replaceable = {} /\ Contained => (Spec => []AckedAuditDurable)
<1> SUFFICES ASSUME Replaceable = {}, Contained PROVE Spec => []AckedAuditDurable
  OBVIOUS
<1>1. Discipline /\ Recording /\ Keeping => AckedAuditDurable
  <2> SUFFICES ASSUME Discipline, Recording, Keeping, NEW r \in Calls, reply[r] = "durable"
               PROVE  \E e \in Entries :
                         dir[e] \in Files /\ savedDir[e] = dir[e] /\ DurableIn(r, dir[e])
    BY DEF AckedAuditDurable
  <2>1. PICK f \in Files : Saved(f) /\ Kept(r, f)
    BY DEF Keeping, Saving
  <2>2. PICK k \in 1..Len(content[f]) : EndsThere(r, f, k) /\ k <= synced[f]
    BY <2>1 DEF Kept
  <2>3. /\ content[f][k].rec = r /\ content[f][k].at = RecordLen /\ RecordLen <= k
        /\ \A i \in 0..(RecordLen - 1) :
              content[f][k - i].rec = r /\ content[f][k - i].at = RecordLen - i
    BY <2>2 DEF EndsThere, Recording, OnePiece
  <2>4. Len(content[f]) \in Nat /\ synced[f] \in Nat
    BY DEF Discipline, TypeOK
  <2>5. k - RecordLen \in 0..(Len(content[f]) - RecordLen) /\ (k - RecordLen) + RecordLen = k
    BY <2>3, <2>4, RecordLenAssumption
  <2>6. ASSUME NEW j \in 1..RecordLen
        PROVE  content[f][(k - RecordLen) + j].rec = r /\ content[f][(k - RecordLen) + j].at = j
    <3>1. /\ RecordLen - j \in 0..(RecordLen - 1) /\ k - (RecordLen - j) = (k - RecordLen) + j
          /\ RecordLen - (RecordLen - j) = j
      BY RecordLenAssumption
    <3> QED
      BY <2>3, <3>1
  <2>7. DurableIn(r, f)
    BY <2>2, <2>5, <2>6 DEF DurableIn
  <2> QED
    BY <2>1, <2>7 DEF Saved
<1> QED
  BY <1>1, SpecDiscipline, SpecRecording, SpecKeeping, PTL

\* No byte is there twice, so a file is no longer than all records together.
LEMMA NoLonger ==
  ASSUME Discipline, Recording, NEW f \in Files
  PROVE  Len(content[f]) \in Nat /\ Len(content[f]) <= RecordLen * MaxCalls
<1> DEFINE places == (1..RecordLen) \X Calls
           tag == [k \in 1..Len(content[f]) |-> <<content[f][k].at, content[f][k].rec>>]
<1>1. content[f] \in Seq(Byte) /\ Len(content[f]) \in Nat
  BY DEF Discipline, TypeOK
<1>2. /\ IsFiniteSet(1..RecordLen) /\ Cardinality(1..RecordLen) = RecordLen
      /\ IsFiniteSet(Calls) /\ Cardinality(Calls) = MaxCalls
  BY FS_Interval, RecordLenAssumption, EnvironmentAssumption DEF Calls
<1>3. IsFiniteSet(places) /\ Cardinality(places) = RecordLen * MaxCalls
  BY <1>2, FS_Product
<1>4. IsFiniteSet(1..Len(content[f])) /\ Cardinality(1..Len(content[f])) = Len(content[f])
  BY <1>1, FS_Interval
<1>5. tag \in [1..Len(content[f]) -> places]
  <2>1. \A k \in 1..Len(content[f]) : content[f][k] \in Byte
    BY <1>1
  <2> QED
    BY <2>1 DEF Byte
<1>6. ASSUME Cardinality(places) < Cardinality(1..Len(content[f])) PROVE FALSE
  <2> HIDE DEF tag, places
  <2>1. \E j, k \in 1..Len(content[f]) : j # k /\ tag[j] = tag[k]
    BY <1>3, <1>4, <1>5, <1>6, FS_PigeonHole
  <2>2. PICK j, k \in 1..Len(content[f]) : j # k /\ tag[j] = tag[k]
    BY <2>1
  <2>3. content[f][j].at = content[f][k].at /\ content[f][j].rec = content[f][k].rec
    BY <2>2 DEF tag
  <2> QED
    BY <2>2, <2>3 DEF Recording, NoDuplicates
<1>7. RecordLen * MaxCalls \in Int
  BY RecordLenAssumption, EnvironmentAssumption
<1> QED
  BY <1>1, <1>3, <1>4, <1>6, <1>7

\* No file is longer than all the records there can be.
Bounded == \A f \in Files : Len(content[f]) <= RecordLen * MaxCalls

LEMMA SpecBounded == Spec => []Bounded
<1>1. Discipline /\ Recording => Bounded
  BY NoLonger DEF Bounded
<1> QED
  BY <1>1, SpecDiscipline, SpecRecording, PTL

--------------------------------------------------------------------------------
(* The log that the sinks implement.                                            *)

StatusOf == [r \in Calls |-> Says(reply[r])]
EntriesOf == [f \in Files |-> {[rec |-> content[f][k].rec, at |-> k] : k \in Whole(f)}]

LEMMA StoredMeans ==
  ASSUME NEW r \in Calls, NEW f \in Files
  PROVE  /\ Log!StoredIn(r, f) <=> \E k \in 1..Len(content[f]) : EndsThere(r, f, k)
         /\ Log!SecureIn(r, f) <=> Kept(r, f)
<1> DEFINE found == {[rec |-> content[f][k].rec, at |-> k] : k \in Whole(f)}
<1>1. ASSUME NEW e \in found
      PROVE  \E k \in 1..Len(content[f]) : EndsThere(e.rec, f, k) /\ e.at = k
  <2>1. PICK k \in Whole(f) : e = [rec |-> content[f][k].rec, at |-> k]
    OBVIOUS
  <2>2. e.rec = content[f][k].rec /\ e.at = k
    BY <2>1
  <2>3. k \in 1..Len(content[f]) /\ content[f][k].at = RecordLen
    BY DEF Whole
  <2> QED
    BY <2>2, <2>3 DEF EndsThere
<1>2. ASSUME NEW k \in 1..Len(content[f]), EndsThere(r, f, k)
      PROVE  \E e \in found : e.rec = r /\ e.at = k
  <2>1. k \in Whole(f) /\ content[f][k].rec = r
    BY <1>2 DEF Whole, EndsThere
  <2>2. [rec |-> content[f][k].rec, at |-> k] \in found
    BY <2>1
  <2> HIDE DEF found
  <2> QED
    BY <2>1, <2>2
<1>3. /\ Log!StoredIn(r, f) <=> \E e \in found : e.rec = r
      /\ Log!SecureIn(r, f) <=> \E e \in found : e.rec = r /\ e.at <= synced[f]
  BY DEF Log!StoredIn, Log!SecureIn
<1> HIDE DEF found
<1> QED
  BY <1>1, <1>2, <1>3 DEF Kept

\* An answer to one call changes the status of that record alone.
LEMMA Told ==
  ASSUME Discipline, NEW r \in Calls, NEW a \in Replies, reply' = [reply EXCEPT ![r] = a]
  PROVE  StatusOf' = [StatusOf EXCEPT ![r] = Says(a)]
BY DEF Discipline, TypeOK, StatusOf

LEMMA SameStatus == ASSUME reply' = reply PROVE StatusOf' = StatusOf
BY DEF StatusOf

LEMMA SameEntries == ASSUME content' = content PROVE EntriesOf' = EntriesOf
BY DEF EntriesOf, Whole

\* The log is left alone.
LEMMA LogUnchanged ==
  ASSUME UNCHANGED <<StatusOf, EntriesOf, synced>>
  PROVE  UNCHANGED Log!log
BY DEF Log!log, StatusOf, EntriesOf

LEMMA LogInit == Init => Log!Init
<1> SUFFICES ASSUME Init PROVE Log!Init
  OBVIOUS
<1>1. StatusOf = [r \in Calls |-> "unused"]
  BY DEF Init, StatusOf, Says
<1>2. EntriesOf = [f \in Files |-> {}]
  BY DEF Init, EntriesOf, Whole
<1>3. synced = [f \in Files |-> 0]
  BY DEF Init
<1> QED
  BY <1>1, <1>2, <1>3 DEF Log!Init, StatusOf, EntriesOf

\* A call is submitted, or refused where its record cannot be encoded.
LEMMA CallImplements ==
  ASSUME Discipline, Recording, NEW t \in Threads, NEW s \in Sinks, NEW encodable \in BOOLEAN,
         Call(t, s, encodable)
  PROVE  Log!Next
<1>1. /\ issued + 1 \in Calls /\ issued \in Nat /\ content' = content /\ synced' = synced
      /\ \/ reply' = [reply EXCEPT ![issued + 1] = "pending"]
         \/ reply' = [reply EXCEPT ![issued + 1] = "schema_error"]
  BY EnvironmentAssumption DEF Call, disk, Discipline, TypeOK, Calls
<1>2. reply[issued + 1] = "unused"
  BY <1>1 DEF Recording, Numbered
<1>3. StatusOf[issued + 1] = "unused"
  BY <1>1, <1>2 DEF StatusOf, Says
<1>4. EntriesOf' = EntriesOf
  BY <1>1, SameEntries
<1>5. CASE reply' = [reply EXCEPT ![issued + 1] = "pending"]
  <2>1. StatusOf' = [StatusOf EXCEPT ![issued + 1] = "pending"]
    BY <1>1, <1>5, Told DEF Replies, Says
  <2>2. Log!Submit(issued + 1)
    BY <1>1, <1>3, <1>4, <2>1 DEF Log!Submit, Log!Tell, StatusOf, EntriesOf
  <2> QED
    BY <1>1, <2>2 DEF Log!Next
<1>6. CASE reply' = [reply EXCEPT ![issued + 1] = "schema_error"]
  <2>1. StatusOf' = [StatusOf EXCEPT ![issued + 1] = "refused"]
    BY <1>1, <1>6, Told DEF Replies, Says
  <2>2. \A f \in Files : ~Log!StoredIn(issued + 1, f)
    <3>1. \A f \in Files : \A k \in 1..Len(content[f]) : content[f][k].rec # issued + 1
      BY <1>1 DEF Recording, Numbered
    <3> QED
      BY <1>1, <3>1, StoredMeans DEF EndsThere
  <2>3. Log!Refuse(issued + 1)
    BY <1>1, <1>3, <1>4, <2>1, <2>2 DEF Log!Refuse, Log!Tell, StatusOf, EntriesOf
  <2> QED
    BY <1>1, <2>3 DEF Log!Next
<1> QED
  BY <1>1, <1>5, <1>6

\* What ends a call tells its caller one thing and touches no file.
LEMMA AnswerTells ==
  ASSUME Discipline, Recording, NEW t \in Threads, Calling(t), NEW a \in Replies,
         Answer(t, a), UNCHANGED disk
  PROVE  /\ job[t].rec \in Calls
         /\ StatusOf[job[t].rec] = "pending"
         /\ StatusOf' = [StatusOf EXCEPT ![job[t].rec] = Says(a)]
         /\ EntriesOf' = EntriesOf
         /\ synced' = synced
<1>1. job[t].rec \in Calls /\ reply[job[t].rec] = "pending"
  BY DEF Discipline, Usage, Recording, Numbered
<1>2. reply' = [reply EXCEPT ![job[t].rec] = a] /\ content' = content /\ synced' = synced
  BY DEF Answer, disk
<1> QED
  BY <1>1, <1>2, Told, SameEntries DEF StatusOf, Says

\* A refusal comes before the first byte; a confirmation or an acceptance after the last.
LEMMA RefuseImplements ==
  ASSUME Discipline, Recording, NEW t \in Threads, Refuse(t)
  PROVE  Log!Next
<1>1. /\ Calling(t) /\ Answer(t, "refused") /\ UNCHANGED disk /\ "refused" \in Replies
      /\ pc[t] = "check"
  BY DEF Refuse, Calling, Replies
<1>2. /\ job[t].rec \in Calls
      /\ StatusOf[job[t].rec] = "pending"
      /\ StatusOf' = [StatusOf EXCEPT ![job[t].rec] = "refused"]
      /\ EntriesOf' = EntriesOf
      /\ synced' = synced
  BY <1>1, AnswerTells DEF Says
<1>3. \A f \in Files : ~Log!StoredIn(job[t].rec, f)
  <2>1. \A f \in Files : \A k \in 1..Len(content[f]) :
           content[f][k].rec = job[t].rec => content[f][k].at <= 0
    BY <1>1 DEF Recording, Progress, NoneBeyond
  <2> QED
    BY <1>2, <2>1, RecordLenAssumption, StoredMeans DEF EndsThere
<1>4. Log!Refuse(job[t].rec)
  BY <1>2, <1>3 DEF Log!Refuse, Log!Tell, StatusOf, EntriesOf
<1> QED
  BY <1>2, <1>4 DEF Log!Next

LEMMA FailImplements ==
  ASSUME Discipline, Recording, NEW t \in Threads, Calling(t), NEW a \in {"failed", "interrupted"},
         Answer(t, a), UNCHANGED disk
  PROVE  Log!Next
<1>1. /\ job[t].rec \in Calls
      /\ StatusOf[job[t].rec] = "pending"
      /\ StatusOf' = [StatusOf EXCEPT ![job[t].rec] = "failed"]
      /\ EntriesOf' = EntriesOf
      /\ synced' = synced
  BY AnswerTells DEF Says, Replies
<1>2. Log!Fail(job[t].rec)
  BY <1>1 DEF Log!Fail, Log!Tell, StatusOf, EntriesOf
<1> QED
  BY <1>1, <1>2 DEF Log!Next

LEMMA SettleImplements ==
  ASSUME Discipline, Recording, NEW t \in Threads, Settle(t)
  PROVE  Log!Next
<1>1. /\ Calling(t) /\ Answer(t, Verdict(t)) /\ UNCHANGED disk /\ Verdict(t) \in Replies
      /\ InCritical(t) /\ pc[t] = "settle"
  BY DEF Settle, Calling, InCritical, Replies, Verdict
<1>2. FileOf(t) \in Files
  BY <1>1, CriticalFacts
<1>3. /\ job[t].rec \in Calls
      /\ StatusOf[job[t].rec] = "pending"
      /\ StatusOf' = [StatusOf EXCEPT ![job[t].rec] = Says(Verdict(t))]
      /\ EntriesOf' = EntriesOf
      /\ synced' = synced
  BY <1>1, AnswerTells
<1>4. CASE Verdict(t) = "failed"
  BY <1>1, <1>4, FailImplements
<1>5. CASE Verdict(t) = "durable"
  <2>1. Log!SecureIn(job[t].rec, FileOf(t))
    <3>1. job[t].result = "complete" /\ KindOf[job[t].sink] = "audit"
      BY <1>5 DEF Verdict
    <3>2. Kept(job[t].rec, FileOf(t))
      BY <1>1, <3>1 DEF Recording, Progress, Kept
    <3> QED
      BY <1>2, <1>3, <3>2, StoredMeans
  <2>2. Says(Verdict(t)) = "durable"
    BY <1>5 DEF Says
  <2>3. Log!Confirm(job[t].rec)
    BY <1>2, <1>3, <2>1, <2>2 DEF Log!Confirm, Log!Tell, StatusOf, EntriesOf
  <2> QED
    BY <1>3, <2>3 DEF Log!Next
<1>6. CASE Verdict(t) = "written"
  <2>1. Log!StoredIn(job[t].rec, FileOf(t))
    <3>1. job[t].result = "complete"
      BY <1>6 DEF Verdict
    <3>2. \E k \in 1..Len(content[FileOf(t)]) : EndsThere(job[t].rec, FileOf(t), k)
      BY <1>1, <3>1 DEF Recording, Progress
    <3> QED
      BY <1>2, <1>3, <3>2, StoredMeans
  <2>2. Says(Verdict(t)) = "written"
    BY <1>6 DEF Says
  <2>3. Log!Accept(job[t].rec)
    BY <1>2, <1>3, <2>1, <2>2 DEF Log!Accept, Log!Tell, StatusOf, EntriesOf
  <2> QED
    BY <1>3, <2>3 DEF Log!Next
<1> QED
  BY <1>4, <1>5, <1>6 DEF Verdict

LEMMA EntriesOfKept ==
  ASSUME NEW f \in Files, content'[f] = content[f]
  PROVE  EntriesOf'[f] = EntriesOf[f]
BY DEF EntriesOf, Whole

\* The record enters the log with its last byte.
LEMMA WriteImplements ==
  ASSUME Discipline, Recording, Bounded', NEW t \in Threads, WriteSome(t)
  PROVE  Log!Next \/ UNCHANGED Log!log
<1>1. /\ FileOf(t) \in Files /\ job[t] \in Job /\ job[t].rec \in Calls
      /\ reply[job[t].rec] = "pending" /\ Progress(t) /\ Calling(t)
      /\ pc[t] = "write" /\ UNCHANGED <<synced, reply>>
  BY CriticalFacts DEF WriteSome, InCritical, Recording, Numbered, history
<1>2. PICK f \in Files : f = FileOf(t)
  BY <1>1
<1>3. PICK L \in Nat : L = Len(content[f])
  BY DEF Discipline, TypeOK
<1>4. PICK w \in Nat : w = job[t].written /\ w < RecordLen
  BY <1>1 DEF Job, Progress
<1>5. PICK n \in 1..(RecordLen - w) :
         content' = [content EXCEPT ![FileOf(t)] = @ \o NextBytes(t, n)]
  BY <1>4 DEF WriteSome
<1>6. n \in Nat /\ n >= 1 /\ w + n <= RecordLen /\ RecordLen \in Nat /\ RecordLen >= 1
  BY <1>4, RecordLenAssumption
<1>7. /\ \A g \in Files \ {f} : content'[g] = content[g]
      /\ Len(content'[f]) = L + n
      /\ \A k \in 1..L : content'[f][k] = content[f][k]
      /\ \A m \in 1..n : content'[f][L + m].rec = job[t].rec /\ content'[f][L + m].at = w + m
  <2>1. n \in 1..(RecordLen - job[t].written)
    BY <1>4
  <2>2. /\ \A g \in Files \ {FileOf(t)} : content'[g] = content[g]
        /\ Len(content'[FileOf(t)]) = Len(content[FileOf(t)]) + n
        /\ \A k \in 1..Len(content[FileOf(t)]) : content'[FileOf(t)][k] = content[FileOf(t)][k]
        /\ \A m \in 1..n :
              /\ content'[FileOf(t)][Len(content[FileOf(t)]) + m].rec = job[t].rec
              /\ content'[FileOf(t)][Len(content[FileOf(t)]) + m].at = job[t].written + m
    BY <1>1, <1>5, <1>6, <2>1, Appended
  <2> QED
    BY <1>2, <1>3, <1>4, <2>2
<1>8. StatusOf' = StatusOf /\ synced' = synced
  BY <1>1, SameStatus
<1>9. \A g \in Files \ {f} : EntriesOf'[g] = EntriesOf[g]
  BY <1>7, EntriesOfKept
\* The newlines before the step and after it.
<1>10. \A k : k \in Whole(f) <=> k \in 1..L /\ content[f][k].at = RecordLen
  BY <1>3 DEF Whole
<1>11. \A k : k \in Whole(f)' <=> k \in 1..(L + n) /\ content'[f][k].at = RecordLen
  BY <1>7 DEF Whole
<1>12. ASSUME NEW k \in 1..(L + n), k \notin 1..L
       PROVE  content'[f][k].at = RecordLen <=> k = L + (RecordLen - w)
  <2>1. k - L \in 1..n /\ k = L + (k - L)
    BY <1>6, <1>12
  <2>2. content'[f][k].at = w + (k - L)
    BY <1>7, <2>1
  <2> QED
    BY <1>6, <2>1, <2>2
<1>13. ASSUME NEW k \in 1..L PROVE k \in Whole(f)' <=> k \in Whole(f)
  <2>1. k \in 1..(L + n) /\ content'[f][k] = content[f][k]
    BY <1>6, <1>7
  <2> QED
    BY <1>10, <1>11, <2>1
<1>14. \A k \in Whole(f) : content'[f][k] = content[f][k]
  BY <1>7, <1>10
<1>15. CASE w + n < RecordLen
  <2>1. ASSUME NEW k \in Whole(f)' PROVE k \in 1..L
    <3>1. k \in 1..(L + n) /\ content'[f][k].at = RecordLen
      BY <1>11
    <3> QED
      BY <1>6, <1>12, <1>15, <3>1
  <2>2. Whole(f)' = Whole(f)
    BY <1>10, <1>13, <2>1
  <2>3. EntriesOf'[f] = EntriesOf[f]
    BY <1>14, <2>2 DEF EntriesOf
  <2>4. EntriesOf' = EntriesOf
    BY <1>9, <2>3 DEF EntriesOf
  <2> QED
    BY <1>8, <2>4, LogUnchanged
<1>16. CASE w + n = RecordLen
  <2>1. PICK place \in Nat : place = L + n /\ place = L + (RecordLen - w)
    BY <1>6, <1>16
  <2>2. /\ place \in Whole(f)' /\ content'[f][place].rec = job[t].rec
    <3>1. place \in 1..(L + n) /\ n \in 1..n
      BY <1>6, <2>1
    <3>2. content'[f][place].rec = job[t].rec /\ content'[f][place].at = RecordLen
      BY <1>7, <1>16, <2>1, <3>1
    <3> QED
      BY <1>11, <3>1, <3>2
  <2>3. ASSUME NEW k \in Whole(f)' PROVE k \in 1..L \/ k = place
    <3>1. k \in 1..(L + n) /\ content'[f][k].at = RecordLen
      BY <1>11
    <3> QED
      BY <1>12, <2>1, <3>1
  <2>4. Whole(f)' = Whole(f) \cup {place}
    BY <1>10, <1>13, <2>2, <2>3
  <2>5. PICK entry : entry = [rec |-> job[t].rec, at |-> place]
    OBVIOUS
  <2>6. EntriesOf'[f] = EntriesOf[f] \cup {entry}
    <3>1. EntriesOf'[f] = {[rec |-> content'[f][k].rec, at |-> k] : k \in Whole(f)'}
      BY DEF EntriesOf
    <3>2. EntriesOf[f] = {[rec |-> content'[f][k].rec, at |-> k] : k \in Whole(f)}
      BY <1>14 DEF EntriesOf
    <3>3. entry = [rec |-> content'[f][place].rec, at |-> place]
      BY <2>2, <2>5
    <3> QED
      BY <2>4, <3>1, <3>2, <3>3
  <2>7. EntriesOf' = [EntriesOf EXCEPT ![f] = @ \cup {entry}]
    <3>1. EntriesOf' = [g \in Files |-> EntriesOf'[g]]
      BY DEF EntriesOf
    <3>2. EntriesOf = [g \in Files |-> EntriesOf[g]]
      BY DEF EntriesOf
    <3> QED
      BY <1>9, <2>6, <3>1, <3>2
  <2>8. place \in 0..(RecordLen * MaxCalls)
    <3>1. Len(content'[f]) <= RecordLen * MaxCalls
      BY DEF Bounded
    <3>2. RecordLen * MaxCalls \in Nat
      BY RecordLenAssumption, EnvironmentAssumption
    <3> QED
      BY <1>7, <2>1, <3>1, <3>2
  <2>9. \A e \in EntriesOf[f] : e.at < place
    <3>1. \A k \in Whole(f) : k < place
      BY <1>6, <1>10, <2>1
    <3> QED
      BY <3>1 DEF EntriesOf
  <2>10. \A g \in Files : ~Log!StoredIn(job[t].rec, g)
    <3>1. \A g \in Files : \A k \in 1..Len(content[g]) :
             content[g][k].rec = job[t].rec => content[g][k].at <= w
      BY <1>1, <1>4 DEF Progress, NoneBeyond
    <3>2. ASSUME NEW g \in Files, NEW k \in 1..Len(content[g]), EndsThere(job[t].rec, g, k)
          PROVE  FALSE
      <4>1. content[g][k].rec = job[t].rec /\ content[g][k].at = RecordLen
        BY <3>2 DEF EndsThere
      <4>2. RecordLen <= w
        BY <3>1, <3>2, <4>1
      <4>3. w < RecordLen /\ w \in Nat /\ RecordLen \in Nat
        BY <1>4, <1>6
      <4> QED
        BY <4>2, <4>3
    <3> QED
      BY <1>1, <3>2, StoredMeans
  <2>11. StatusOf[job[t].rec] = "pending"
    BY <1>1 DEF StatusOf, Says
  <2>12. PICK r \in Calls : r = job[t].rec
    BY <1>1
  <2>13. Log!Store(r, f)
    <3>1. \E p \in 0..(RecordLen * MaxCalls) :
             /\ \A e \in EntriesOf[f] : e.at < p
             /\ EntriesOf' = [EntriesOf EXCEPT ![f] = @ \cup {[rec |-> r, at |-> p]}]
      BY <2>5, <2>7, <2>8, <2>9, <2>12
    <3>2. StatusOf[r] = "pending" /\ \A g \in Files : ~Log!StoredIn(r, g)
      BY <2>10, <2>11, <2>12
    <3> QED
      BY <1>8, <3>1, <3>2 DEF Log!Store, StatusOf, EntriesOf
  <2> QED
    BY <2>13 DEF Log!Next
<1> QED
  BY <1>6, <1>15, <1>16

\* An fsync that returns secures all that is in the file.
LEMMA FsyncImplements ==
  ASSUME Discipline, Recording, NEW t \in Threads, Fsync(t)
  PROVE  Log!Next \/ UNCHANGED Log!log
<1> DEFINE f == FileOf(t)
           L == Len(content[f])
<1>1. /\ UNCHANGED <<content, reply>>
      /\ synced' = synced \/ synced' = [synced EXCEPT ![f] = L]
  BY DEF Fsync, history
<1>2. f \in Files
  BY CriticalFacts DEF Fsync, InCritical
<1>3. StatusOf' = StatusOf /\ EntriesOf' = EntriesOf
  BY <1>1, SameStatus, SameEntries
<1>4. CASE synced' = synced
  BY <1>3, <1>4, LogUnchanged
<1>5. CASE synced' = [synced EXCEPT ![f] = L]
  <2>1. L \in 0..(RecordLen * MaxCalls)
    BY <1>2, NoLonger, RecordLenAssumption, EnvironmentAssumption
  <2>2. synced[f] <= L
    BY <1>2 DEF Recording, SyncedIsThere
  <2>3. \A e \in EntriesOf[f] : e.at <= L
    <3>1. \A k \in Whole(f) : k <= L
      BY <2>1, RecordLenAssumption, EnvironmentAssumption DEF Whole
    <3> QED
      BY <1>2, <3>1 DEF EntriesOf
  <2>4. Log!Secure(f)
    <3> HIDE DEF f, L
    <3> QED
      BY <1>3, <1>5, <2>1, <2>2, <2>3 DEF Log!Secure, StatusOf, EntriesOf
  <2> QED
    BY <1>2, <2>4 DEF Log!Next
<1> QED
  BY <1>1, <1>4, <1>5

\* The identity of a file without a name is given away: nothing kept is in it.
LEMMA OpenImplements ==
  ASSUME Contained, Discipline, Recording, Keeping, NEW t \in Threads, NEW s \in Sinks,
         NEW p \in Paths, Open(t, s, p)
  PROVE  Log!Next \/ UNCHANGED Log!log
<1>1. reply' = reply /\ StatusOf' = StatusOf
  BY SameStatus DEF Open, history
<1>2. CASE UNCHANGED <<content, synced>>
  BY <1>1, <1>2, SameEntries, LogUnchanged
<1>3. ASSUME NEW f \in Files, Unused(f), content' = [content EXCEPT ![f] = <<>>],
             synced' = [synced EXCEPT ![f] = 0]
      PROVE  Log!Next
  <2>1. \A g \in Files \ {f} : EntriesOf'[g] = EntriesOf[g]
    BY <1>3, EntriesOfKept DEF Discipline, TypeOK
  <2>2. EntriesOf'[f] = {}
    <3>1. content'[f] = <<>>
      BY <1>3 DEF Discipline, TypeOK
    <3> QED
      BY <3>1 DEF EntriesOf, Whole
  <2>3. EntriesOf' = [EntriesOf EXCEPT ![f] = {}]
    <3>1. EntriesOf' = [g \in Files |-> EntriesOf'[g]]
      BY DEF EntriesOf
    <3>2. EntriesOf = [g \in Files |-> EntriesOf[g]]
      BY DEF EntriesOf
    <3> QED
      BY <2>1, <2>2, <3>1, <3>2
  <2>4. ASSUME NEW e \in EntriesOf[f] PROVE StatusOf[e.rec] # "durable"
    <3>1. PICK k \in Whole(f) : e = [rec |-> content[f][k].rec, at |-> k]
      BY DEF EntriesOf
    <3>2. k \in 1..Len(content[f]) /\ content[f][k].at = RecordLen /\ e.rec = content[f][k].rec
      BY <3>1 DEF Whole
    <3>3. content[f][k].rec \in Calls
      <4>1. content[f] \in Seq(Byte)
        BY DEF Discipline, TypeOK
      <4>2. content[f][k] \in Byte
        BY <3>2, <4>1
      <4> QED
        BY <4>2 DEF Byte
    <3>4. ASSUME reply[e.rec] = "durable" PROVE FALSE
      <4>1. PICK g \in Files : Saved(g) /\ Kept(e.rec, g)
        BY <3>2, <3>3, <3>4 DEF Keeping, Saving
      <4>2. PICK j \in 1..Len(content[g]) : EndsThere(e.rec, g, j)
        BY <4>1 DEF Kept
      <4>3. g = f
        BY <3>2, <4>2 DEF Recording, NoDuplicates, EndsThere
      <4> QED
        BY <1>3, <4>1, <4>3 DEF Unused, Saved
    <3> QED
      BY <3>2, <3>3, <3>4 DEF StatusOf, Says
  <2>5. Log!Recycle(f)
    BY <1>1, <1>3, <2>3, <2>4 DEF Log!Recycle, StatusOf, EntriesOf
  <2> QED
    BY <2>5 DEF Log!Next
<1> QED
  BY <1>2, <1>3 DEF Open

LEMMA CrashImplements ==
  ASSUME Discipline, Recording, Crash
  PROVE  Log!Next
<1>1. PICK kept \in [Files -> UNION {synced[f]..Len(content[f]) : f \in Files}] :
         /\ \A f \in Files : kept[f] \in synced[f]..Len(content[f])
         /\ content' = [f \in Files |-> SubSeq(content[f], 1, kept[f])]
  BY DEF Crash
<1>2. ASSUME NEW f \in Files
      PROVE  /\ kept[f] \in Nat /\ synced[f] <= kept[f] /\ kept[f] <= Len(content[f])
             /\ Len(content[f]) \in Nat /\ Len(content'[f]) = kept[f]
             /\ \A k \in 1..kept[f] : content'[f][k] = content[f][k]
  <2>1. content[f] \in Seq(Byte) /\ synced[f] \in Nat /\ kept[f] \in synced[f]..Len(content[f])
    BY <1>1 DEF Discipline, TypeOK
  <2>2. kept[f] \in Nat /\ synced[f] <= kept[f] /\ kept[f] <= Len(content[f])
    BY <2>1
  <2>3. content'[f] = SubSeq(content[f], 1, kept[f])
    BY <1>1
  <2> QED
    BY <2>1, <2>2, <2>3
<1>3. kept \in [Files -> 0..(RecordLen * MaxCalls)]
  <2>1. ASSUME NEW f \in Files PROVE kept[f] \in 0..(RecordLen * MaxCalls)
    BY <1>2, NoLonger, RecordLenAssumption, EnvironmentAssumption
  <2> QED
    BY <2>1
<1>4. ASSUME NEW f \in Files
      PROVE  EntriesOf'[f] = {e \in EntriesOf[f] : e.at <= kept[f]}
  <2>1. Whole(f)' = {k \in Whole(f) : k <= kept[f]}
    <3>1. ASSUME NEW k \in Whole(f)' PROVE k \in Whole(f) /\ k <= kept[f]
      BY <1>2 DEF Whole
    <3>2. ASSUME NEW k \in Whole(f), k <= kept[f] PROVE k \in Whole(f)'
      BY <1>2, <3>2 DEF Whole
    <3> QED
      BY <3>1, <3>2
  <2>2. \A k \in Whole(f)' : content'[f][k] = content[f][k]
    BY <1>2 DEF Whole
  <2>3. EntriesOf'[f] = {[rec |-> content[f][k].rec, at |-> k] : k \in Whole(f)'}
    BY <2>2 DEF EntriesOf
  <2>4. EntriesOf[f] = {[rec |-> content[f][k].rec, at |-> k] : k \in Whole(f)}
    BY DEF EntriesOf
  <2> QED
    BY <2>1, <2>3, <2>4
<1>5. EntriesOf' = [f \in Files |-> {e \in EntriesOf[f] : e.at <= kept[f]}]
  <2>1. EntriesOf' = [f \in Files |-> EntriesOf'[f]]
    BY DEF EntriesOf
  <2> QED
    BY <1>4, <2>1
<1>6. StatusOf' = [r \in Calls |-> IF StatusOf[r] = "pending" THEN "lost" ELSE StatusOf[r]]
  BY DEF Crash, StatusOf, Says
<1>7. synced' = synced
  BY DEF Crash
<1>8. Log!Crash
  <2>1. \E cut \in [Files -> 0..(RecordLen * MaxCalls)] :
           /\ \A f \in Files : synced[f] <= cut[f]
           /\ EntriesOf' = [f \in Files |-> {e \in EntriesOf[f] : e.at <= cut[f]}]
    BY <1>2, <1>3, <1>5
  <2> QED
    BY <1>6, <1>7, <2>1 DEF Log!Crash, StatusOf, EntriesOf
<1> QED
  BY <1>8 DEF Log!Next

LEMMA StepImplements ==
  ASSUME Replaceable = {}, Contained, Discipline, Recording, Bounded', Keeping, [Next]_vars
  PROVE  [Log!Next]_(Log!log)
<1>1. ASSUME NEW t \in Threads, Interrupt(t) PROVE Log!Next
  <2>1. Calling(t) /\ Answer(t, "interrupted") /\ UNCHANGED disk
    BY <1>1 DEF Interrupt, Calling
  <2> QED
    BY <2>1, FailImplements
<1>2. ASSUME NEW t \in Threads,
             \/ SyncDirectory(t) \/ FailConstruction(t) \/ Register(t)
             \/ Acquire(t) \/ StartWriting(t) \/ StopWriting(t)
             \/ \E s \in Sinks : Close(t, s)
      PROVE  UNCHANGED Log!log
  <2>1. UNCHANGED <<content, synced, reply>>
    BY <1>2 DEF SyncDirectory, FailConstruction, Register, Acquire, StartWriting, StopWriting,
       Close, disk, history
  <2> QED
    BY <2>1, SameStatus, SameEntries, LogUnchanged
<1>3. ASSUME UNCHANGED vars PROVE UNCHANGED Log!log
  <2>1. UNCHANGED <<content, synced, reply>>
    BY <1>3 DEF vars, disk, history
  <2> QED
    BY <2>1, SameStatus, SameEntries, LogUnchanged
<1>4. ~\E e \in Entries : Remove(e)
  BY DEF Remove
<1>5. ASSUME NEW t \in Threads, Step(t) PROVE Log!Next \/ UNCHANGED Log!log
  BY <1>2, <1>5, RefuseImplements, WriteImplements, FsyncImplements, SettleImplements DEF Step
<1> QED
  BY <1>1, <1>2, <1>3, <1>4, <1>5, OpenImplements, CallImplements, CrashImplements DEF Next, Work

\* Where no operator removes files and no path leaves its directory by a link, the sinks
\* with their threads, short writes, failures, signals and crashes implement the log of
\* interfaces.py: every step of theirs is one of its steps or leaves it as it is.
THEOREM SinksImplementLog == Replaceable = {} /\ Contained => (Spec => ImplementsDurableLog)
<1> SUFFICES ASSUME Replaceable = {}, Contained PROVE Spec => Log!Spec
  BY DEF ImplementsDurableLog
<1>1. Discipline /\ Recording /\ Bounded' /\ Keeping /\ [Next]_vars
      => [Log!Next]_(Log!log)
  BY StepImplements
<1> QED
  BY <1>1, LogInit, SpecDiscipline, SpecRecording, SpecBounded, SpecKeeping, PTL DEF Spec, Log!Spec

================================================================================
