---------------------------- MODULE JsonlReaderProofs ----------------------------
(***************************************************************************)
(* Theorems about JsonlReader, for every choice of the constants, where no *)
(* operator replaces files (Replaceable = {}).                             *)
(*                                                                         *)
(* A step of the reader leaves the writers' state alone, and a step of the *)
(* writers is one of StreamSinks: what StreamSinksProofs and               *)
(* StreamSinksRefinementProofs show of the files holds while they are      *)
(* read.  The file behind the handle has a name, so it only grows, and     *)
(* what has been read of it stays (Following).  As long as the life is     *)
(* unbroken the files are framed, so the line the reader takes is a record *)
(* (Sound).                                                                *)
(***************************************************************************)
EXTENDS JsonlReader, StreamSinksRefinementProofs

--------------------------------------------------------------------------------
(* The writers' side. *)

LEMMA ReaderStepIsNext == [ReaderNext]_readerVars => [Next]_vars
  BY DEF ReaderNext, ReaderStep, WriterStep, Restart, Iterate, Fetch, TakeLine, Finish,
     readerVars, Next

LEMMA ReaderSpecIsSpec == ReaderSpec => Spec
<1>1. InitReader => Init
  BY DEF InitReader
<1> QED
  BY <1>1, ReaderStepIsNext, PTL DEF ReaderSpec, Spec

--------------------------------------------------------------------------------
(* What has been read of the file, and what is still to be read. *)

\* Every newline up to the offset belongs to a record that has been yielded.
LinesYielded ==
    \A k \in 1..taken : content[handle][k].at = RecordLen =>
        \E j \in 1..Len(yielded) : yielded[j] = content[handle][k].rec

\* The records that were acknowledged are still in the file.
DueIsThere ==
    \A r \in due : \E k \in 1..Len(content[handle]) : EndsThere(r, handle, k)

Types ==
    /\ handle \in Files \cup {NoFile}
    /\ taken \in Nat
    /\ fetched \in Nat
    /\ yielded \in Seq(Calls)
    /\ verdict \in {"none", "reading", "clean", "truncated", "error"}
    /\ due \subseteq Calls

OnFile ==
    /\ Named(handle)
    /\ taken <= fetched
    /\ fetched <= Len(content[handle])
    /\ NothingSkipped
    /\ LinesYielded
    /\ DueIsThere

OnNothing ==
    /\ verdict \in {"none", "clean"}
    /\ taken = 0 /\ fetched = 0 /\ yielded = <<>> /\ due = {}

Following ==
    /\ Types
    /\ IF handle \in Files THEN OnFile ELSE OnNothing
    /\ AcknowledgedIsRead

LEMMA FollowingInit == InitReader => Following
  BY SentinelAssumption DEF InitReader, Following, Types, OnNothing, AcknowledgedIsRead

\* The lines yielded lie before the offset.
LEMMA LinesBefore ==
  ASSUME NEW m \in Nat, NEW k \in 1..m, NEW i \in 1..RecordLen
  PROVE  RecordLen * (k - 1) + i \in 1..(RecordLen * m)
<1>1. PICK a \in Nat, b \in Nat : k = a + 1 /\ m = a + 1 + b
  <2>1. k - 1 \in Nat /\ m - k \in Nat
    OBVIOUS
  <2> QED
    BY <2>1
<1>2. RecordLen * m = RecordLen * a + RecordLen + RecordLen * b
  BY <1>1, RecordLenAssumption
<1>3. RecordLen * a \in Nat /\ RecordLen * b \in Nat
  BY RecordLenAssumption
<1>4. k - 1 = a
  BY <1>1
<1> QED
  BY <1>2, <1>3, <1>4, RecordLenAssumption

\* A line is what lies between two places of the file.
LEMMA LineShape ==
  ASSUME NEW S, NEW s \in Seq(S), NEW a \in Nat, NEW b \in Nat, a < b, b <= Len(s)
  PROVE  /\ Len(SubSeq(s, a + 1, b)) = b - a
         /\ \A i \in 1..(b - a) : SubSeq(s, a + 1, b)[i] = s[a + i]
<1>1. b - a = b - (a + 1) + 1 /\ a + 1 <= b /\ Len(s) \in Nat
  OBVIOUS
<1>2. Len(SubSeq(s, a + 1, b)) = b - a
  BY <1>1
<1>3. ASSUME NEW i \in 1..(b - a) PROVE SubSeq(s, a + 1, b)[i] = s[a + i]
  <2>1. a + 1 + i - 1 = a + i /\ i \in Nat /\ 1 <= i /\ i <= b - a
    OBVIOUS
  <2>2. SubSeq(s, a + 1, b)[i] = s[a + 1 + i - 1]
    BY <2>1
  <2> QED
    BY <2>1, <2>2
<1> QED
  BY <1>2, <1>3

\* What has been read stays as it was read while the file grows.
LEMMA WritersKeepFollowing ==
  ASSUME Replaceable = {}, Discipline, Recording, Following, [Next]_vars, ~Crash,
         UNCHANGED reader
  PROVE  Following'
<1>1. UNCHANGED <<handle, fetched, taken, yielded, verdict, due>>
  BY DEF reader
<1>2. Types' /\ AcknowledgedIsRead'
  BY <1>1 DEF Following, Types, AcknowledgedIsRead
<1>3. CASE handle \in Files
  <2>1. OnFile /\ handle \in Files
    BY <1>3 DEF Following
  <2>2. /\ Len(content[handle]) \in Nat /\ Len(content'[handle]) \in Nat
        /\ Len(content[handle]) <= Len(content'[handle])
        /\ \A k \in 1..Len(content[handle]) : content'[handle][k] = content[handle][k]
    BY <2>1, NamedGrows DEF OnFile
  <2>3. Named(handle)'
    <3>1. \A f \in Files : Named(f) => Named(f)'
      BY NamesStay
    <3> QED
      BY <1>1, <2>1, <3>1 DEF OnFile, Named
  <2>4. taken \in Nat /\ fetched \in Nat /\ Len(yielded) \in Nat
    BY DEF Following, Types
  <2>5. taken' <= fetched' /\ fetched' <= Len(content'[handle'])
    BY <1>1, <2>1, <2>2, <2>4 DEF OnFile
  <2>6. \A k \in 1..taken : k \in 1..Len(content[handle]) /\ content'[handle][k] = content[handle][k]
    BY <2>1, <2>2, <2>4 DEF OnFile
  <2>7. NothingSkipped'
    <3>1. handle # NoFile /\ taken = RecordLen * Len(yielded)
      BY <2>1, SentinelAssumption DEF OnFile, NothingSkipped
    <3>2. ASSUME NEW k \in 1..Len(yielded), NEW i \in 1..RecordLen
          PROVE  /\ content'[handle][RecordLen * (k - 1) + i].rec = yielded[k]
                 /\ content'[handle][RecordLen * (k - 1) + i].at = i
      <4>1. RecordLen * (k - 1) + i \in 1..taken
        BY <2>4, <3>1, LinesBefore
      <4>2. content'[handle][RecordLen * (k - 1) + i] = content[handle][RecordLen * (k - 1) + i]
        BY <2>6, <4>1
      <4> QED
        BY <2>1, <3>1, <4>2 DEF OnFile, NothingSkipped
    <3> QED
      BY <1>1, <3>1, <3>2 DEF NothingSkipped
  <2>8. LinesYielded'
    BY <1>1, <2>1, <2>6 DEF OnFile, LinesYielded
  <2>9. DueIsThere'
    <3>1. ASSUME NEW r \in due
          PROVE  \E k \in 1..Len(content'[handle]) :
                    content'[handle][k].rec = r /\ content'[handle][k].at = RecordLen
      <4>1. PICK k \in 1..Len(content[handle]) :
               content[handle][k].rec = r /\ content[handle][k].at = RecordLen
        BY <2>1 DEF OnFile, DueIsThere, EndsThere
      <4>2. k \in 1..Len(content'[handle]) /\ content'[handle][k] = content[handle][k]
        BY <2>2
      <4> QED
        BY <4>1, <4>2
    <3> QED
      BY <1>1, <3>1 DEF DueIsThere, EndsThere
  <2> QED
    BY <1>1, <1>2, <2>1, <2>3, <2>5, <2>7, <2>8, <2>9 DEF Following, OnFile
<1>4. CASE handle \notin Files
  BY <1>1, <1>2, <1>4 DEF Following, OnNothing
<1> QED
  BY <1>3, <1>4

\* An iteration starts at the first byte of the file the name stands for.
LEMMA IterateKeepsFollowing ==
  ASSUME Discipline, Following, NEW p \in Paths, Iterate(p)
  PROVE  Following'
<1>0. Entry[p] \in Entries
  BY DirectoryAssumption
<1>1. /\ handle' = dir[Entry[p]] /\ dir[Entry[p]] \in Files \cup {NoFile}
      /\ UNCHANGED <<dir, content, reply>>
      /\ fetched' = 0 /\ taken' = 0 /\ yielded' = <<>>
      /\ IF dir[Entry[p]] = NoFile
         THEN verdict' = "clean" /\ due' = {}
         ELSE verdict' = "reading" /\ due' = Acknowledged(dir[Entry[p]])
  BY <1>0 DEF Iterate, ResetReader, vars, disk, history, Discipline, TypeOK
<1>2. Types'
  BY <1>1 DEF Types, Acknowledged
<1>3. CASE dir[Entry[p]] = NoFile
  BY <1>1, <1>2, <1>3, SentinelAssumption DEF Following, OnNothing, AcknowledgedIsRead
<1>4. CASE dir[Entry[p]] \in Files
  <2>1. dir[Entry[p]] # NoFile /\ verdict' = "reading" /\ due' = Acknowledged(dir[Entry[p]])
    BY <1>1, <1>4, SentinelAssumption
  <2>2. Named(handle)'
    BY <1>0, <1>1 DEF Named
  <2>3. fetched' <= Len(content'[handle'])
    BY <1>1, <1>4 DEF Discipline, TypeOK
  <2>4. NothingSkipped'
    BY <1>1, RecordLenAssumption DEF NothingSkipped
  <2>5. LinesYielded'
    BY <1>1 DEF LinesYielded
  <2>6. DueIsThere'
    BY <1>1, <2>1 DEF DueIsThere, EndsThere, Acknowledged
  <2>7. AcknowledgedIsRead'
    BY <2>1 DEF AcknowledgedIsRead
  <2> QED
    BY <1>1, <1>2, <1>4, <2>2, <2>3, <2>4, <2>5, <2>6, <2>7 DEF Following, OnFile
<1> QED
  BY <1>1, <1>3, <1>4

\* While it reads, the reader has a handle.
LEMMA ReadingFacts ==
  ASSUME Discipline, Following, Reading
  PROVE  /\ handle \in Files /\ handle # NoFile /\ OnFile
         /\ taken \in Nat /\ fetched \in Nat /\ yielded \in Seq(Calls) /\ Len(yielded) \in Nat
         /\ content[handle] \in Seq(Byte) /\ Len(content[handle]) \in Nat
         /\ taken = RecordLen * Len(yielded)
<1>1. handle \in Files /\ handle # NoFile /\ OnFile
  BY SentinelAssumption DEF Following, Reading, OnNothing
<1> QED
  BY <1>1 DEF Following, Types, Discipline, TypeOK, OnFile, NothingSkipped

\* A line that is a record is the next one, whole.
LEMMA TakeKeepsFollowing ==
  ASSUME Discipline, Following, TakeLine
  PROVE  Following'
<1>1. Reading /\ UNCHANGED <<dir, content, handle, fetched, due>>
  BY DEF TakeLine, vars, disk
<1>2. /\ handle \in Files /\ handle # NoFile /\ OnFile
      /\ taken \in Nat /\ fetched \in Nat /\ yielded \in Seq(Calls) /\ Len(yielded) \in Nat
      /\ content[handle] \in Seq(Byte) /\ Len(content[handle]) \in Nat
      /\ taken = RecordLen * Len(yielded)
  BY <1>1, ReadingFacts
<1>3. PICK k \in LineEnds :
         IF IsRecord(SubSeq(content[handle], taken + 1, k))
         THEN /\ yielded' = Append(yielded, SubSeq(content[handle], taken + 1, k)[1].rec)
              /\ taken' = k
              /\ UNCHANGED verdict
         ELSE verdict' = "error" /\ UNCHANGED <<yielded, taken>>
  BY DEF TakeLine
<1>4. k \in (taken + 1)..fetched /\ k \in Nat /\ k <= Len(content[handle])
  BY <1>2 DEF LineEnds, OnFile
<1>5. CASE ~IsRecord(SubSeq(content[handle], taken + 1, k))
  <2>1. verdict' = "error" /\ UNCHANGED <<yielded, taken>>
    BY <1>3, <1>5
  <2>2. Types' /\ AcknowledgedIsRead'
    BY <1>1, <2>1 DEF Following, Types, AcknowledgedIsRead
  <2>3. OnFile'
    <3>1. handle' = handle /\ fetched' = fetched /\ content' = content /\ due' = due
      BY <1>1
    <3>2. Named(handle)'
      BY <1>1, <1>2 DEF OnFile, Named
    <3>3. NothingSkipped'
      BY <1>2, <2>1, <3>1 DEF OnFile, NothingSkipped
    <3>4. LinesYielded'
      BY <1>2, <2>1, <3>1 DEF OnFile, LinesYielded
    <3>5. DueIsThere'
      BY <1>2, <3>1 DEF OnFile, DueIsThere, EndsThere
    <3>6. taken' <= fetched' /\ fetched' <= Len(content'[handle'])
      BY <1>2, <2>1, <3>1 DEF OnFile
    <3> QED
      BY <3>2, <3>3, <3>4, <3>5, <3>6 DEF OnFile
  <2> QED
    BY <1>1, <1>2, <2>2, <2>3 DEF Following
<1>6. CASE IsRecord(SubSeq(content[handle], taken + 1, k))
  <2>1. PICK line : line = SubSeq(content[handle], taken + 1, k)
    OBVIOUS
  <2>2. Len(line) = k - taken /\ \A i \in 1..(k - taken) : line[i] = content[handle][taken + i]
    <3>1. taken \in Nat /\ k \in Nat /\ taken < k /\ k <= Len(content[handle])
      BY <1>2, <1>4
    <3>2. content[handle] \in Seq(Byte)
      BY <1>2
    <3>3. /\ Len(SubSeq(content[handle], taken + 1, k)) = k - taken
          /\ \A i \in 1..(k - taken) :
                SubSeq(content[handle], taken + 1, k)[i] = content[handle][taken + i]
      BY <3>1, <3>2, LineShape
    <3> QED
      BY <2>1, <3>3
  <2>3. /\ Len(line) = RecordLen
        /\ \A i \in 1..RecordLen : line[i].rec = line[1].rec /\ line[i].at = i
    BY <1>6, <2>1 DEF IsRecord
  <2>4. PICK r \in Calls : r = line[1].rec
    <3>1. line[1] \in Byte
      <4>1. line[1] = content[handle][taken + 1] /\ taken + 1 \in 1..Len(content[handle])
        BY <1>2, <1>4, <2>2
      <4> QED
        BY <1>2, <4>1
    <3> QED
      BY <3>1 DEF Byte
  <2>5. k = taken + RecordLen /\ k - taken = RecordLen
    <3>1. k - taken = RecordLen
      BY <2>2, <2>3
    <3>2. k \in Nat /\ taken \in Nat /\ RecordLen \in Nat
      BY <1>2, <1>4, RecordLenAssumption
    <3> QED
      BY <3>1, <3>2
  <2>6. \A i \in 1..RecordLen :
           content[handle][taken + i].rec = r /\ content[handle][taken + i].at = i
    BY <2>2, <2>3, <2>4, <2>5
  <2>7. yielded' = Append(yielded, r) /\ taken' = k /\ verdict' = verdict
    BY <1>3, <1>6, <2>1, <2>4
  <2>8. /\ yielded' \in Seq(Calls) /\ Len(yielded') = Len(yielded) + 1
        /\ \A j \in 1..Len(yielded) : yielded'[j] = yielded[j]
        /\ yielded'[Len(yielded) + 1] = r
    BY <1>2, <2>4, <2>7
  <2>9. Types' /\ AcknowledgedIsRead'
    BY <1>1, <1>4, <2>7, <2>8 DEF Following, Types, AcknowledgedIsRead, Reading
  <2>10. NothingSkipped'
    <3>1. taken' = RecordLen * Len(yielded')
      BY <1>2, <2>5, <2>7, <2>8, RecordLenAssumption
    <3>2. ASSUME NEW j \in 1..Len(yielded'), NEW i \in 1..RecordLen
          PROVE  /\ content[handle][RecordLen * (j - 1) + i].rec = yielded'[j]
                 /\ content[handle][RecordLen * (j - 1) + i].at = i
      <4>1. CASE j = Len(yielded) + 1
        <5>1. RecordLen * (j - 1) = taken
          BY <1>2, <4>1
        <5> QED
          BY <2>6, <2>8, <4>1, <5>1
      <4>2. CASE j # Len(yielded) + 1
        <5>1. j \in 1..Len(yielded)
          BY <1>2, <2>8, <4>2
        <5> QED
          BY <1>2, <2>8, <5>1 DEF OnFile, NothingSkipped
      <4> QED
        BY <4>1, <4>2
    <3> QED
      BY <1>1, <3>1, <3>2 DEF NothingSkipped
  <2>11. LinesYielded'
    <3> SUFFICES ASSUME NEW m \in 1..k, content[handle][m].at = RecordLen
                 PROVE  \E j \in 1..Len(yielded') : yielded'[j] = content[handle][m].rec
      BY <1>1, <2>7 DEF LinesYielded
    <3>1. CASE m \in 1..taken
      <4>1. PICK j \in 1..Len(yielded) : yielded[j] = content[handle][m].rec
        BY <1>2, <3>1 DEF OnFile, LinesYielded
      <4> QED
        BY <1>2, <2>8, <4>1
    <3>2. CASE m \notin 1..taken
      <4>1. m - taken \in 1..RecordLen /\ m = taken + (m - taken)
        <5>1. m \in Nat /\ 1 <= m /\ m <= taken + RecordLen /\ ~(m <= taken)
          BY <1>2, <1>4, <2>5, <3>2, RecordLenAssumption
        <5> QED
          BY <1>2, <5>1, RecordLenAssumption
      <4>2. content[handle][m].rec = r
        BY <2>6, <4>1
      <4> QED
        BY <1>2, <2>8, <4>2
    <3> QED
      BY <3>1, <3>2
  <2>12. Named(handle)' /\ DueIsThere'
    BY <1>1, <1>2 DEF OnFile, Named, DueIsThere, EndsThere
  <2>13. taken' <= fetched' /\ fetched' <= Len(content'[handle'])
    BY <1>1, <1>2, <1>4, <2>7 DEF OnFile
  <2> QED
    BY <1>1, <1>2, <2>9, <2>10, <2>11, <2>12, <2>13 DEF Following, OnFile
<1> QED
  BY <1>5, <1>6

\* At the end nothing acknowledged is left unread.
LEMMA FinishKeepsFollowing ==
  ASSUME Discipline, Following, Finish
  PROVE  Following'
<1>1. /\ Reading /\ LineEnds = {} /\ fetched = Len(content[handle])
      /\ UNCHANGED <<dir, content, handle, fetched, taken, yielded, due>>
      /\ verdict' \in {"truncated", "clean"}
  BY DEF Finish, AtEnd, vars, disk
<1>2. /\ handle \in Files /\ handle # NoFile /\ OnFile
      /\ taken \in Nat /\ fetched \in Nat
  BY <1>1, ReadingFacts
<1>3. ASSUME NEW r \in due PROVE \E j \in 1..Len(yielded) : yielded[j] = r
  <2>1. PICK k \in 1..Len(content[handle]) :
           content[handle][k].rec = r /\ content[handle][k].at = RecordLen
    BY <1>2 DEF OnFile, DueIsThere, EndsThere
  <2>2. k \in 1..taken
    <3>1. k \notin (taken + 1)..fetched
      BY <1>1, <2>1 DEF LineEnds
    <3> QED
      BY <1>1, <1>2, <3>1
  <2> QED
    BY <1>2, <2>1, <2>2 DEF OnFile, LinesYielded
<1>4. AcknowledgedIsRead'
  BY <1>1, <1>3 DEF AcknowledgedIsRead
<1>5. Types'
  BY <1>1 DEF Following, Types
<1>6. OnFile'
  BY <1>1, <1>2 DEF OnFile, Named, NothingSkipped, LinesYielded, DueIsThere, EndsThere
<1> QED
  BY <1>1, <1>2, <1>4, <1>5, <1>6 DEF Following

LEMMA FetchKeepsFollowing ==
  ASSUME Discipline, Following, Fetch
  PROVE  Following'
<1>1. /\ Reading /\ fetched' \in (fetched + 1)..Len(content[handle])
      /\ UNCHANGED <<dir, content, handle, taken, yielded, verdict, due>>
  BY DEF Fetch, vars, disk
<1>2. /\ handle \in Files /\ handle # NoFile /\ OnFile
      /\ taken \in Nat /\ fetched \in Nat /\ Len(content[handle]) \in Nat
  BY <1>1, ReadingFacts
<1>3. fetched' \in Nat /\ taken <= fetched' /\ fetched' <= Len(content[handle])
  BY <1>1, <1>2 DEF OnFile
<1>4. Types' /\ AcknowledgedIsRead'
  BY <1>1, <1>3 DEF Following, Types, AcknowledgedIsRead
<1>5. OnFile'
  BY <1>1, <1>2, <1>3 DEF OnFile, Named, NothingSkipped, LinesYielded, DueIsThere, EndsThere
<1> QED
  BY <1>1, <1>2, <1>4, <1>5 DEF Following

LEMMA FollowingStep ==
  ASSUME Replaceable = {}, Discipline, Recording, Following, [ReaderNext]_readerVars
  PROVE  Following'
<1>1. CASE ReaderStep
  BY <1>1, IterateKeepsFollowing, FetchKeepsFollowing, TakeKeepsFollowing, FinishKeepsFollowing
     DEF ReaderStep
<1>2. CASE Restart
  <2>1. /\ handle' = NoFile /\ fetched' = 0 /\ taken' = 0 /\ yielded' = <<>>
        /\ verdict' = "none" /\ due' = {}
    BY <1>2 DEF Restart, ResetReader
  <2> QED
    BY <2>1, SentinelAssumption DEF Following, Types, OnNothing, AcknowledgedIsRead
<1>3. CASE ~Restart /\ ~ReaderStep
  <2>1. UNCHANGED reader /\ [Next]_vars
    BY <1>3, ReaderStepIsNext DEF ReaderNext, WriterStep, readerVars
  <2>2. CASE ~Crash
    BY <2>1, <2>2, WritersKeepFollowing
  <2>3. CASE Crash
    <3>1. crashes' = crashes + 1 /\ crashes \in Nat
      BY <2>3, EnvironmentAssumption DEF Crash, Discipline, TypeOK
    <3>2. crashes' = crashes
      <4>1. ASSUME Work PROVE crashes' = crashes
        BY <4>1 DEF Work, Step, SyncDirectory, FailConstruction, Register, Acquire, Refuse,
           StartWriting, WriteSome, StopWriting, Fsync, Settle, Open, Call, Close, Remove
      <4>2. ASSUME NEW t \in Threads, Interrupt(t) PROVE crashes' = crashes
        BY <4>2 DEF Interrupt
      <4> QED
        BY <1>3, <4>1, <4>2 DEF ReaderNext, WriterStep, readerVars, vars
    <3> QED
      BY <3>1, <3>2
  <2> QED
    BY <2>2, <2>3
<1> QED
  BY <1>1, <1>2, <1>3

LEMMA ReaderInvariants ==
  Replaceable = {} =>
    (ReaderSpec => [](Discipline /\ Recording /\ Keeping /\ Bounded /\ Following))
<1> SUFFICES ASSUME Replaceable = {}
             PROVE  ReaderSpec => [](Discipline /\ Recording /\ Keeping /\ Bounded /\ Following)
  OBVIOUS
<1>1. Discipline /\ Recording /\ Following /\ [ReaderNext]_readerVars => Following'
  BY FollowingStep
<1> QED
  BY <1>1, FollowingInit, ReaderSpecIsSpec, SpecDiscipline, SpecRecording, SpecKeeping,
     SpecBounded, PTL DEF ReaderSpec

\* The types of the reader's state: the offsets stay within the longest possible file.
THEOREM ReaderTypeCorrect == Replaceable = {} => (ReaderSpec => []ReaderTypeOK)
<1> SUFFICES ASSUME Replaceable = {} PROVE ReaderSpec => []ReaderTypeOK
  OBVIOUS
<1>1. Discipline /\ Bounded /\ Following => ReaderTypeOK
  <2> SUFFICES ASSUME Discipline, Bounded, Following PROVE ReaderTypeOK
    OBVIOUS
  <2>1. RecordLen * MaxCalls \in Nat
    BY RecordLenAssumption, EnvironmentAssumption
  <2>2. taken \in 0..fetched /\ fetched \in 0..(RecordLen * MaxCalls)
    <3>1. CASE handle \in Files
      <4>1. /\ taken <= fetched /\ fetched <= Len(content[handle]) /\ Len(content[handle]) \in Nat
            /\ taken \in Nat /\ fetched \in Nat /\ Len(content[handle]) <= RecordLen * MaxCalls
        BY <3>1 DEF Following, OnFile, Types, Bounded, Discipline, TypeOK
      <4> QED
        BY <2>1, <4>1
    <3>2. CASE handle \notin Files
      BY <2>1, <3>2 DEF Following, OnNothing
    <3> QED
      BY <3>1, <3>2
  <2> QED
    BY <2>2 DEF Following, Types, ReaderTypeOK
<1> QED
  BY <1>1, ReaderInvariants, PTL

\* Whatever is appended, lost to a signal or cut short while it runs, an iteration yields
\* the lines of the file from its first byte on, each one a whole record, none left out.
THEOREM NoLineIsSkipped == Replaceable = {} => (ReaderSpec => []NothingSkipped)
<1> SUFFICES ASSUME Replaceable = {} PROVE ReaderSpec => []NothingSkipped
  OBVIOUS
<1>1. Following => NothingSkipped
  BY DEF Following, Types, OnFile, NothingSkipped
<1> QED
  BY <1>1, ReaderInvariants, PTL

\* An iteration that ends without an error has yielded every record that was acknowledged
\* and in the file when it began.
THEOREM HistoryIsRead == Replaceable = {} => (ReaderSpec => []AcknowledgedIsRead)
<1> SUFFICES ASSUME Replaceable = {} PROVE ReaderSpec => []AcknowledgedIsRead
  OBVIOUS
<1>1. Following => AcknowledgedIsRead
  BY DEF Following
<1> QED
  BY <1>1, ReaderInvariants, PTL

--------------------------------------------------------------------------------
(* The verdict, while the life is unbroken. *)

\* An answer is given once.
LEMMA AnswersAreFinal ==
  ASSUME Discipline, Recording, [Next]_vars, NEW r \in Calls, reply[r] \notin {"unused", "pending"}
  PROVE  reply'[r] = reply[r]
<1>1. ASSUME NEW t \in Threads, Calling(t), NEW a \in Replies, Answer(t, a)
      PROVE  reply'[r] = reply[r]
  BY <1>1 DEF Answer, Recording, Numbered, Discipline, TypeOK
<1>2. ASSUME NEW t \in Threads, Refuse(t) \/ Settle(t) \/ Interrupt(t)
      PROVE  reply'[r] = reply[r]
  <2>1. Calling(t) /\ \E a \in Replies : Answer(t, a)
    BY <1>2 DEF Refuse, Settle, Interrupt, Calling, Verdict, Replies
  <2> QED
    BY <1>1, <2>1
<1>3. ASSUME NEW t \in Threads, Step(t), ~Refuse(t), ~Settle(t) PROVE reply'[r] = reply[r]
  BY <1>3 DEF Step, SyncDirectory, FailConstruction, Register, Acquire, StartWriting, WriteSome,
     StopWriting, Fsync, history
<1>4. ASSUME NEW t \in Threads, NEW s \in Sinks, NEW encodable \in BOOLEAN, Call(t, s, encodable)
      PROVE  reply'[r] = reply[r]
  <2>1. r # issued + 1
    BY <1>4, EnvironmentAssumption DEF Call, Recording, Numbered, Discipline, TypeOK, Calls
  <2> QED
    BY <1>4, <2>1 DEF Call, Discipline, TypeOK
<1>5. \/ \E t \in Threads, s \in Sinks, p \in Paths : Open(t, s, p)
      \/ \E t \in Threads, s \in Sinks : Close(t, s)
      \/ \E e \in Entries : Remove(e)
      \/ UNCHANGED vars
      => reply' = reply
  BY DEF Open, Close, Remove, vars, history
<1>6. Crash => reply'[r] = reply[r]
  BY DEF Crash
<1> QED
  BY <1>2, <1>3, <1>4, <1>5, <1>6 DEF Next, Work

\* Up to a moment that is unbroken the life was too, and its steps were its own.
LEMMA UnbrokenStep ==
  ASSUME Discipline, Recording, [Next]_vars, Unbroken'
  PROVE  Unbroken /\ [Work]_vars
<1>1. ~Crash
  BY EnvironmentAssumption DEF Crash, Unbroken, Discipline, TypeOK
<1>2. ASSUME NEW t \in Threads, Interrupt(t) PROVE FALSE
  <2>1. job[t].rec \in Calls
    BY <1>2 DEF Interrupt, Discipline, Usage, Calling
  <2>2. reply'[job[t].rec] = "interrupted"
    BY <1>2, <2>1 DEF Interrupt, Answer, Discipline, TypeOK
  <2> QED
    BY <2>1, <2>2 DEF Unbroken
<1>3. [Work]_vars
  BY <1>1, <1>2 DEF Next
<1>4. crashes' = crashes
  BY <1>3 DEF Work, Step, SyncDirectory, FailConstruction, Register, Acquire, Refuse, StartWriting,
     WriteSome, StopWriting, Fsync, Settle, Open, Call, Close, Remove, vars
<1>5. ASSUME NEW r \in Calls PROVE reply[r] # "interrupted"
  BY AnswersAreFinal DEF Unbroken
<1> QED
  BY <1>3, <1>4, <1>5 DEF Unbroken

Sound == Unbroken => Framing /\ verdict # "error"

\* In a framed file the line up to the next newline is one record.
LEMMA LinesAreRecords ==
  ASSUME Discipline, Recording, Following, Framing, Reading,
         NEW k \in LineEnds, \A j \in LineEnds : k <= j
  PROVE  IsRecord(SubSeq(content[handle], taken + 1, k))
<1>1. /\ handle \in Files /\ handle # NoFile /\ OnFile
      /\ taken \in Nat /\ fetched \in Nat /\ yielded \in Seq(Calls) /\ Len(yielded) \in Nat
      /\ content[handle] \in Seq(Byte) /\ Len(content[handle]) \in Nat
      /\ taken = RecordLen * Len(yielded)
  BY ReadingFacts
<1>2. /\ k \in Nat /\ taken < k /\ k <= fetched /\ k <= Len(content[handle])
      /\ content[handle][k].at = RecordLen
  BY <1>1 DEF LineEnds, OnFile
<1>3. /\ RecordLen <= k
      /\ \A i \in 0..(RecordLen - 1) :
            /\ content[handle][k - i].rec = content[handle][k].rec
            /\ content[handle][k - i].at = RecordLen - i
  BY <1>1, <1>2 DEF Recording, OnePiece
<1>4. taken <= k - RecordLen
  <2>1. CASE taken = 0
    BY <1>2, <1>3, <2>1, RecordLenAssumption
  <2>2. CASE taken # 0
    <3>n. PICK n \in Nat : n = Len(yielded)
      BY <1>1
    <3>m. RecordLen \in Nat /\ taken = RecordLen * n
      BY <1>1, <3>n, RecordLenAssumption
    <3>1. n \in 1..Len(yielded) /\ RecordLen \in 1..RecordLen
      BY <1>1, <2>2, <3>n, <3>m, RecordLenAssumption
    <3>2. RecordLen * (n - 1) + RecordLen = taken
      BY <3>m
    <3>3. content[handle][taken].at = RecordLen
      <4>1. content[handle][RecordLen * (n - 1) + RecordLen].at = RecordLen
        <5>1. \A j \in 1..Len(yielded), i \in 1..RecordLen :
                 content[handle][RecordLen * (j - 1) + i].at = i
          BY <1>1 DEF OnFile, NothingSkipped
        <5> QED
          BY <3>1, <5>1, Zenon
      <4> QED
        BY <3>2, <4>1, Zenon
    <3>4. ASSUME k - RecordLen < taken PROVE FALSE
      <4>1. k - taken \in 0..(RecordLen - 1) /\ k - (k - taken) = taken /\ k - taken > 0
        BY <1>1, <1>2, <3>4, RecordLenAssumption
      <4>2. content[handle][taken].at = RecordLen - (k - taken)
        BY <1>3, <4>1
      <4> QED
        BY <3>3, <4>1, <4>2, RecordLenAssumption
    <3> QED
      BY <1>1, <1>2, <3>4, RecordLenAssumption
  <2> QED
    BY <2>1, <2>2
<1>5. k - RecordLen <= taken
  <2> SUFFICES ASSUME taken < k - RecordLen PROVE FALSE
    BY <1>1, <1>2, RecordLenAssumption
  <2>1. PICK start \in Nat : start = k - RecordLen
    BY <1>2, <1>3, RecordLenAssumption
  <2>2. /\ start \in (taken + 1)..fetched /\ start < k /\ start + 1 \in 2..Len(content[handle])
        /\ start + 1 - 1 = start /\ start \in 1..Len(content[handle])
    <3>1. taken < start /\ start < k
      BY <1>2, <2>1, RecordLenAssumption
    <3>2. k <= fetched /\ k <= Len(content[handle]) /\ k \in Nat /\ fetched \in Nat
          /\ taken \in Nat /\ Len(content[handle]) \in Nat
      BY <1>1, <1>2
    <3> QED
      BY <3>1, <3>2
  <2>3. content[handle][start + 1].at = 1
    <3>1. RecordLen - 1 \in 0..(RecordLen - 1) /\ k - (RecordLen - 1) = start + 1
          /\ RecordLen - (RecordLen - 1) = 1
      BY <1>2, <2>1, RecordLenAssumption
    <3> QED
      BY <1>3, <3>1
  <2>4. Follows(content[handle][start], content[handle][start + 1])
    BY <1>1, <2>2 DEF Framing, Framed
  <2>5. content[handle][start].at \in 1..RecordLen
    <3>1. content[handle][start] \in Byte
      BY <1>1, <2>2
    <3> QED
      BY <3>1 DEF Byte
  <2>6. content[handle][start].at = RecordLen
    BY <2>3, <2>4, <2>5, RecordLenAssumption DEF Follows
  <2>7. start \in LineEnds
    BY <2>2, <2>6 DEF LineEnds
  <2> QED
    BY <1>2, <2>2, <2>7
<1>6. k - taken = RecordLen
  BY <1>1, <1>2, <1>4, <1>5, RecordLenAssumption
<1>7. PICK line : line = SubSeq(content[handle], taken + 1, k)
  OBVIOUS
<1>8. Len(line) = RecordLen /\ \A i \in 1..RecordLen : line[i] = content[handle][taken + i]
  <2>1. taken \in Nat /\ k \in Nat /\ taken < k /\ k <= Len(content[handle])
        /\ content[handle] \in Seq(Byte)
    BY <1>1, <1>2
  <2>2. /\ Len(SubSeq(content[handle], taken + 1, k)) = k - taken
        /\ \A i \in 1..(k - taken) :
              SubSeq(content[handle], taken + 1, k)[i] = content[handle][taken + i]
    BY <2>1, LineShape
  <2> QED
    BY <1>6, <1>7, <2>2
<1>9. ASSUME NEW i \in 1..RecordLen
      PROVE  line[i].rec = content[handle][k].rec /\ line[i].at = i
  <2>1. RecordLen - i \in 0..(RecordLen - 1) /\ k - (RecordLen - i) = taken + i
        /\ RecordLen - (RecordLen - i) = i
    BY <1>1, <1>2, <1>6, RecordLenAssumption
  <2> QED
    BY <1>3, <1>8, <2>1
<1>10. 1 \in 1..RecordLen
  BY RecordLenAssumption
<1> QED
  BY <1>7, <1>8, <1>9, <1>10 DEF IsRecord

\* A tail without a newline is the work of a writer, or latched.
LEMMA TornTailsAreMarked ==
  ASSUME Discipline, Following, Framing, Reading, LineEnds = {}, AtEnd, fetched > taken
  PROVE  latched[handle] \/ \E t \in Threads : InCritical(t) /\ FileOf(t) = handle
<1>1. /\ handle \in Files /\ taken \in Nat /\ fetched \in Nat
      /\ content[handle] \in Seq(Byte) /\ Len(content[handle]) \in Nat
  BY ReadingFacts
<1>2. fetched \in (taken + 1)..fetched /\ fetched = Len(content[handle]) /\ fetched >= 1
  BY <1>1 DEF AtEnd
<1>3. content[handle][fetched].at # RecordLen
  BY <1>2 DEF LineEnds
<1>4. Torn(handle)
  BY <1>1, <1>2, <1>3 DEF Torn
<1>5. CASE lock[handle] = NoThread
  BY <1>1, <1>4, <1>5 DEF Framing, TornImpliesLatched
<1>6. CASE lock[handle] # NoThread
  BY <1>1, <1>6 DEF Discipline, Locking, TypeOK
<1> QED
  BY <1>5, <1>6

LEMMA SoundStep ==
  ASSUME Discipline, Discipline', Recording, Following, Sound, [ReaderNext]_readerVars
  PROVE  Sound'
<1> SUFFICES ASSUME Unbroken' PROVE Framing' /\ verdict' # "error"
  BY DEF Sound
<1>1. Unbroken /\ [Work]_vars
  BY UnbrokenStep, ReaderStepIsNext
<1>2. Framing /\ verdict # "error"
  BY <1>1 DEF Sound
<1>3. Framing'
  BY <1>1, <1>2, FramingStep
<1>4. TakeLine => verdict' # "error"
  BY <1>2, LinesAreRecords DEF TakeLine
<1>5. ~TakeLine => verdict' # "error"
  BY <1>2 DEF ReaderNext, ReaderStep, Iterate, ResetReader, Fetch, Finish, WriterStep, Restart,
     readerVars, reader
<1> QED
  BY <1>3, <1>4, <1>5

\* Until a restart or a signal comes between a write and its latch, the reader meets no
\* corruption, and calls a file truncated only when it is being appended to or latched.
THEOREM VerdictsAreTrue == Replaceable = {} => (ReaderSpec => VerdictIsTrue)
<1> SUFFICES ASSUME Replaceable = {} PROVE ReaderSpec => VerdictIsTrue
  OBVIOUS
<1>1. InitReader => Sound
  BY FramingInit DEF InitReader, Sound
<1>2. /\ Discipline /\ Discipline' /\ Recording /\ Following /\ Sound /\ [ReaderNext]_readerVars
      => Sound'
  BY SoundStep
<1>3. Discipline /\ Recording /\ Following /\ Sound /\ [ReaderNext]_readerVars =>
         [Unbroken =>
            /\ verdict' # "error"
            /\ verdict = "reading" /\ verdict' = "truncated" =>
                  latched[handle] \/ \E t \in Threads : InCritical(t) /\ FileOf(t) = handle
         ]_readerVars
  <2> SUFFICES ASSUME Discipline, Recording, Following, Sound, ReaderNext, Unbroken
               PROVE  /\ verdict' # "error"
                      /\ verdict = "reading" /\ verdict' = "truncated" =>
                            \/ latched[handle]
                            \/ \E t \in Threads : InCritical(t) /\ FileOf(t) = handle
    OBVIOUS
  <2>1. Framing /\ verdict # "error"
    BY DEF Sound
  <2>2. CASE TakeLine
    BY <2>1, <2>2, LinesAreRecords DEF TakeLine, Reading
  <2>3. CASE Finish
    BY <2>1, <2>3, TornTailsAreMarked DEF Finish
  <2>4. CASE ~TakeLine /\ ~Finish
    BY <2>1, <2>4 DEF ReaderNext, ReaderStep, Iterate, ResetReader, Fetch, WriterStep, Restart,
       reader
  <2> QED
    BY <2>2, <2>3, <2>4
<1> QED
  BY <1>1, <1>2, <1>3, ReaderInvariants, PTL DEF ReaderSpec, VerdictIsTrue

================================================================================
