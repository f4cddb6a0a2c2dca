------------------------------ MODULE JsonlReader ------------------------------
(***************************************************************************)
(* JsonlReader (reader/jsonl.py) over the files that StreamSinks writes:   *)
(* an iteration that runs while threads append, and after a crash.         *)
(*                                                                         *)
(* The reader takes no lock.  It reads ahead in pieces of any length, and  *)
(* the only byte it looks for is the newline, the last byte of a record.   *)
(* A line parses if and only if it is one record from its first byte to    *)
(* its last: what is left of a torn record, an object without its closing  *)
(* brace or its newline, makes no JSON object with what follows it.        *)
(*                                                                         *)
(* Abstracted: the text of the records, and with it the three reasons for  *)
(* a ReaderError.  The caller may start over at any time; an iteration it  *)
(* drops has no further effect.  A crash takes the reader with it.         *)
(***************************************************************************)
EXTENDS StreamSinks

VARIABLES
    handle,  \* the file behind the open handle
    fetched, \* bytes of it read so far
    taken,   \* bytes of it handed out as lines
    yielded, \* the records yielded, in order
    verdict, \* how the iteration stands: "clean" and "truncated" are its two ends
    due      \* the acknowledged records the file held when the iteration began

reader == <<handle, fetched, taken, yielded, verdict, due>>
readerVars == <<vars, reader>>

\* Mutated form of ResetReader: the offset is kept on the instance.
ResetReaderKeepingOffset(v) ==
    /\ fetched' = 0
    /\ taken' = taken
    /\ yielded' = <<>>
    /\ verdict' = v

\* The locals of __iter__, and _truncated, are set anew.
ResetReader(v) ==
    /\ fetched' = 0
    /\ taken' = 0
    /\ yielded' = <<>>
    /\ verdict' = v

InitReader ==
    /\ Init
    /\ handle = NoFile
    /\ fetched = 0
    /\ taken = 0
    /\ yielded = <<>>
    /\ verdict = "none"
    /\ due = {}

--------------------------------------------------------------------------------
(* __iter__ *)

Acknowledged(f) ==
    {r \in Calls : /\ reply[r] \in {"durable", "written"}
                   /\ \E k \in 1..Len(content[f]) :
                         content[f][k].rec = r /\ content[f][k].at = RecordLen}

\* open(path, "rb"): a missing file reads as empty.
Iterate(p) ==
    /\ handle' = dir[Entry[p]]
    /\ IF dir[Entry[p]] = NoFile
       THEN ResetReader("clean") /\ due' = {}
       ELSE ResetReader("reading") /\ due' = Acknowledged(dir[Entry[p]])
    /\ UNCHANGED vars

Reading == verdict = "reading"

\* Mutated form of LineEnds: what has been fetched is a line when a record could end.
LineEndsAtFetch == {k \in (taken + 1)..fetched : content[handle][k].at = RecordLen \/ k = fetched}

\* The newlines among the bytes fetched and not yet handed out.
LineEnds == {k \in (taken + 1)..fetched : content[handle][k].at = RecordLen}

\* The buffer holds no whole line: read ahead.
Fetch ==
    /\ Reading
    /\ LineEnds = {}
    /\ fetched' \in (fetched + 1)..Len(content[handle])
    /\ UNCHANGED <<vars, handle, taken, yielded, verdict, due>>

\* The line decodes, parses and is an object: it is a record, whole.
IsRecord(line) ==
    /\ Len(line) = RecordLen
    /\ \A k \in 1..RecordLen : line[k].rec = line[1].rec /\ line[k].at = k

\* Mutated form of TakeLine: a line that does not parse is skipped.
TakeLineLeniently ==
    /\ Reading
    /\ \E k \in LineEnds :
          /\ \A j \in LineEnds : k <= j
          /\ LET line == SubSeq(content[handle], taken + 1, k)
             IN  yielded' = IF IsRecord(line) THEN Append(yielded, line[1].rec) ELSE yielded
          /\ taken' = k
    /\ UNCHANGED <<vars, handle, fetched, verdict, due>>

\* One turn of the loop with a terminated line: a record is yielded, anything else is
\* corruption and raises ReaderError.
TakeLine ==
    /\ Reading
    /\ \E k \in LineEnds :
          /\ \A j \in LineEnds : k <= j
          /\ LET line == SubSeq(content[handle], taken + 1, k)
             IN  IF IsRecord(line)
                 THEN /\ yielded' = Append(yielded, line[1].rec)
                      /\ taken' = k
                      /\ UNCHANGED verdict
                 ELSE /\ verdict' = "error"
                      /\ UNCHANGED <<yielded, taken>>
    /\ UNCHANGED <<vars, handle, fetched, due>>

\* Mutated form of AtEnd: a short read passes for the end of the file.
AtEndOfFetch == fetched > 0

AtEnd == fetched = Len(content[handle])

\* A read returns nothing: what is left without a newline is a torn tail.
Finish ==
    /\ Reading
    /\ LineEnds = {}
    /\ AtEnd
    /\ verdict' = IF fetched > taken THEN "truncated" ELSE "clean"
    /\ UNCHANGED <<vars, handle, fetched, taken, yielded, due>>

ReaderStep ==
    \/ \E p \in Paths : Iterate(p)
    \/ Fetch \/ TakeLine \/ Finish

WriterStep ==
    /\ Work \/ \E t \in Threads : Interrupt(t)
    /\ UNCHANGED reader

Restart ==
    /\ Crash
    /\ handle' = NoFile
    /\ ResetReader("none")
    /\ due' = {}

ReaderNext == ReaderStep \/ WriterStep \/ Restart

ReaderSpec == InitReader /\ [][ReaderNext]_readerVars

--------------------------------------------------------------------------------
(* What an iteration promises, where no operator replaces files. *)

\* The type invariant of an iteration.
ReaderTypeOK ==
    /\ handle \in Files \cup {NoFile}
    /\ taken \in 0..fetched
    /\ fetched \in 0..(RecordLen * MaxCalls)
    /\ yielded \in Seq(Calls)
    /\ verdict \in {"none", "reading", "clean", "truncated", "error"}
    /\ due \subseteq Calls

\* The records yielded are the lines of the file from its first byte on, each of them
\* whole, in file order, and none is passed over: "a silently skipped framed line in
\* audit history would be the worst case" (reader/jsonl.py:14-15).
NothingSkipped ==
    handle # NoFile =>
        /\ taken = RecordLen * Len(yielded)
        /\ \A k \in 1..Len(yielded), i \in 1..RecordLen :
              LET byte == content[handle][RecordLen * (k - 1) + i]
              IN  byte.rec = yielded[k] /\ byte.at = i

\* An iteration that ends without an error, truncated or not, has yielded every record
\* of the file that was acknowledged before it began: a torn tail costs no history
\* (reader/jsonl.py:7-11).
AcknowledgedIsRead ==
    verdict \in {"clean", "truncated"} =>
        \A r \in due : \E k \in 1..Len(yielded) : yielded[k] = r

\* Nothing has come between a write and its latch: no restart, no signal.
Unbroken == crashes = 0 /\ \A r \in Calls : reply[r] # "interrupted"

\* Until then no interleaving with the writers makes the reader raise: what it meets in
\* the middle of an append passes for a torn tail, never for corruption.
\* And it reports a torn tail only of a file that is being appended to or is latched
\* (reader/jsonl.py:8-14, _streams.py:11-16).
VerdictIsTrue ==
    [][Unbroken =>
         /\ verdict' # "error"
         /\ verdict = "reading" /\ verdict' = "truncated" =>
               latched[handle] \/ \E t \in Threads : InCritical(t) /\ FileOf(t) = handle
      ]_readerVars

================================================================================
