-------------------------- MODULE AuditEvidenceProofs --------------------------
(***************************************************************************)
(* Proofs about AuditEvidence and the walk of ExceptionEvidence that it    *)
(* extends.                                                                *)
(*                                                                         *)
(* Three arguments meet here.  One is about links: who may be linked to    *)
(* the sink's own exception, and how the exception that left a block hangs *)
(* behind the AuditFinalisationError.  One is about what the walk covers:  *)
(* what is recorded or queued is reachable, and until the cap is met       *)
(* everything linked from what is recorded is recorded or queued.  The     *)
(* last is about its order: the queue holds the rest of one layer, then    *)
(* the next, and all that is nearer is recorded.                           *)
(***************************************************************************)
EXTENDS AuditEvidence, SequenceTheorems, FiniteSetTheorems, TLAPS

--------------------------------------------------------------------------------
(* The invariants. *)

\* The exceptions in the entries of a sequence, and those that are waiting to be recorded.
InEntries(s) == {s[k].exc : k \in 1..Len(s)}
Pending == InEntries(queue)

\* Evidence is built when the operation is over, for what left it.
ReportsComeLast ==
    /\ raised # NoException => state = "over" /\ flight = raised
    /\ raised = NoException => queue = <<>> /\ visited = {} /\ chain = <<>> /\ ~truncated

\* Which exceptions are in whose hands, stage by stage.
InHand ==
    /\ Original \notin {around, handler, flight, stored, raised}
    /\ state = "none" => flight = NoException
    /\ state # "over" => Finalisation \notin {handler, flight}
    /\ state \in {"none", "open", "finalised"} =>
          Normalized \notin {handler, flight} /\ stored = NoException
    /\ state = "failed" => stored # NoException

\* No exception but the sink's own is linked to it.
Unlinked(l) ==
    \A y \in Exceptions \ {Original} : l.cause[y] # Original /\ l.context[y] # Original

\* One sink failure is all there can be in an operation; before and after it nothing is
\* linked to the sink's exception, unless the sink let it out itself.
OffChain ==
    /\ state \in {"none", "open"} => sinkFailure = NoException
    /\ state \in {"none", "open"} \/ sinkFailure # NoException => Unlinked(link)

\* Behind the context links of x, two at most, there is y.
Behind(l, x, y) ==
    LET z == l.context[x]
    IN  \/ z = y
        \/ z \in Exceptions /\ l.context[z] = y
        \/ z \in Exceptions /\ l.context[z] \in Exceptions /\ l.context[l.context[z]] = y

\* Of a failure of the sink's that was normalized, one of the first two links leads to
\* the normalized exception, and the other, or the next, to what left the block.
NextToNormalized ==
    /\ body # Normalized
    /\ link.cause[Finalisation] = Normalized
    /\ \/ link.context[Finalisation] = body
       \/ /\ link.context[Finalisation] = Normalized
          /\ link.cause[Normalized] = NoException
          /\ link.context[Normalized] = body

BodyBehind ==
    flight = Finalisation =>
        /\ body \in Exceptions \ {Finalisation}
        /\ Behind(link, Finalisation, body)
        /\ stored = Normalized => NextToNormalized

\* What has been recorded, once each, and what may be.
WalkIsSound ==
    /\ visited = Recorded
    /\ \A j, k \in 1..Len(chain) : chain[j].exc = chain[k].exc => j = k
    /\ raised # NoException => visited \cup Pending \subseteq Reachable

\* Nothing is lost on the way, until the cap is met; and then something is.
WalkIsComplete ==
    raised # NoException =>
        IF truncated
        THEN queue = <<>> /\ Reachable \ visited # {}
        ELSE raised \in visited \cup Pending /\ Linked(visited) \subseteq visited \cup Pending

\* The turn that comes upon the normalized exception again, and skips it.
FoundAgain ==
    /\ Len(chain) = 2 /\ visited = {Finalisation, Normalized} /\ ~truncated
    /\ Len(queue) = 2 /\ queue[1].exc = Normalized /\ queue[2].exc = body

\* The turn that comes upon what left the block.
FoundBehind ==
    /\ Len(chain) = 2 /\ visited = {Finalisation, Normalized} /\ ~truncated
    /\ Len(queue) >= 1 /\ queue[1].exc = body

\* The first turns of the walk from an AuditFinalisationError, one per disjunct.
FirstTurns ==
    raised = Finalisation /\ stored = Normalized =>
        \/ chain = <<>> /\ visited = {} /\ ~truncated
           /\ Len(queue) = 1 /\ queue[1].exc = Finalisation
        \/ /\ Len(chain) = 1 /\ visited = {Finalisation} /\ ~truncated
           /\ Len(queue) = 2 /\ queue[1].exc = Normalized
           /\ queue[2].exc = link.context[Finalisation]
        \/ FoundAgain
        \/ FoundBehind
        \/ Len(chain) >= 3 /\ chain[3].exc = body

--------------------------------------------------------------------------------
(* Objects and links. *)

LinkRecords == [cause : Links, context : Links]

\* No three objects are four.
LEMMA AtMostThree ==
    ASSUME NEW a, NEW b, NEW c
    PROVE  Cardinality({a, b, c}) <= 3
<1>1. IsFiniteSet({}) /\ Cardinality({}) = 0
  BY FS_EmptySet
<1>2. IsFiniteSet({a}) /\ Cardinality({a}) <= 1
  BY <1>1, FS_AddElement, {a} = {} \cup {a}
<1>3. IsFiniteSet({a, b}) /\ Cardinality({a, b}) <= 2
  <2>1. {a, b} = {a} \cup {b}
    OBVIOUS
  <2>2. Cardinality({a}) \in Nat
    BY <1>2, FS_CardinalityType
  <2> QED BY <1>2, <2>1, <2>2, FS_AddElement
<1>4. Cardinality({a, b, c}) <= 3
  <2>1. {a, b, c} = {a, b} \cup {c}
    OBVIOUS
  <2>2. Cardinality({a, b}) \in Nat
    BY <1>3, FS_CardinalityType
  <2> QED BY <1>3, <2>1, <2>2, FS_AddElement
<1> QED BY <1>4

\* The four objects of the package are different ones, and none of the application's.
LEMMA Objects ==
    /\ Exceptions = Others \cup PackageErrors
    /\ NoException \notin Exceptions
    /\ Original \notin Others /\ Normalized \notin Others
    /\ Finalisation \notin Others /\ Usage \notin Others
    /\ Original # Normalized /\ Original # Finalisation /\ Original # Usage
    /\ Normalized # Finalisation /\ Normalized # Usage /\ Finalisation # Usage
<1>1. Cardinality(PackageErrors) = 4
  BY ObjectAssumption
<1>2. \A a, b, c : PackageErrors # {a, b, c}
  <2> SUFFICES ASSUME NEW a, NEW b, NEW c, PackageErrors = {a, b, c}
               PROVE  FALSE
    OBVIOUS
  <2>1. Cardinality({a, b, c}) <= 3
    BY AtMostThree
  <2>2. Cardinality({a, b, c}) = 4
    BY <1>1
  <2> QED BY <2>1, <2>2
<1>3. Original # Normalized
  BY <1>2, PackageErrors = {Original, Finalisation, Usage} \/ Original # Normalized DEF PackageErrors
<1>4. Original # Finalisation
  BY <1>2, PackageErrors = {Original, Normalized, Usage} \/ Original # Finalisation DEF PackageErrors
<1>5. Original # Usage
  BY <1>2, PackageErrors = {Original, Normalized, Finalisation} \/ Original # Usage DEF PackageErrors
<1>6. Normalized # Finalisation
  BY <1>2, PackageErrors = {Original, Normalized, Usage} \/ Normalized # Finalisation DEF PackageErrors
<1>7. Normalized # Usage
  BY <1>2, PackageErrors = {Original, Normalized, Finalisation} \/ Normalized # Usage DEF PackageErrors
<1>8. Finalisation # Usage
  BY <1>2, PackageErrors = {Original, Normalized, Finalisation} \/ Finalisation # Usage DEF PackageErrors
<1> QED BY <1>3, <1>4, <1>5, <1>6, <1>7, <1>8, ObjectAssumption, WalkAssumption DEF PackageErrors

\* "raise x" while h is handled sets the context of x and may cut links to x; it changes
\* nothing else.
RaiseMakes(m, l, x, h) ==
    /\ m \in LinkRecords
    /\ m.cause = l.cause
    /\ h \notin {NoException, x} => m.context[x] = h
    /\ h \in {NoException, x} => m = l
    /\ \A y \in Exceptions \ {x} :
          /\ m.context[y] \in {l.context[y], NoException}
          /\ l.context[y] # x => m.context[y] = l.context[y]

LEMMA RaisedMakes ==
    ASSUME NEW l \in LinkRecords, NEW x \in Exceptions, NEW h \in Exceptions \cup {NoException}
    PROVE  RaiseMakes(Raised(l, x, h), l, x, h)
<1>1. CASE h \in {NoException, x}
  BY <1>1 DEF Raised, RaiseMakes, LinkRecords, Links
<1>2. CASE h \notin {NoException, x}
  <2> DEFINE context ==
        [y \in Exceptions |->
            IF y = x THEN h
            ELSE IF y \in ContextChain(l, h, x) /\ l.context[y] = x THEN NoException
            ELSE l.context[y]]
  <2>1. Raised(l, x, h) = [l EXCEPT !.context = context]
    BY <1>2 DEF Raised
  <2>2. context \in Links
    BY DEF Links, LinkRecords
  <2>3. /\ context[x] = h
        /\ \A y \in Exceptions \ {x} :
              /\ context[y] \in {l.context[y], NoException}
              /\ l.context[y] # x => context[y] = l.context[y]
    OBVIOUS
  <2> HIDE DEF context
  <2>4. /\ Raised(l, x, h) \in LinkRecords
        /\ Raised(l, x, h).cause = l.cause
        /\ Raised(l, x, h).context = context
    BY <2>1, <2>2 DEF LinkRecords
  <2> QED BY <1>2, <2>3, <2>4 DEF RaiseMakes
<1> QED BY <1>1, <1>2

LEMMA RaisedLinks ==
    ASSUME NEW l \in LinkRecords, NEW x \in Exceptions, NEW h \in Exceptions \cup {NoException}
    PROVE  /\ Raised(l, x, h) \in LinkRecords
           /\ Raised(l, x, h).cause = l.cause
           /\ h \notin {NoException, x} => Raised(l, x, h).context[x] = h
           /\ h \in {NoException, x} => Raised(l, x, h) = l
           /\ \A y \in Exceptions \ {x} :
                 /\ Raised(l, x, h).context[y] \in {l.context[y], NoException}
                 /\ l.context[y] # x => Raised(l, x, h).context[y] = l.context[y]
BY RaisedMakes DEF RaiseMakes

\* "raise x from c" makes links m of links l: it sets the cause of x besides.
RaiseFromMakes(m, l, x, c, h) ==
    /\ m \in LinkRecords
    /\ m.cause[x] = c
    /\ \A y \in Exceptions \ {x} : m.cause[y] = l.cause[y]
    /\ h \notin {NoException, x} => m.context[x] = h
    /\ h \in {NoException, x} => m.context = l.context
    /\ \A y \in Exceptions \ {x} :
          /\ m.context[y] \in {l.context[y], NoException}
          /\ l.context[y] # x => m.context[y] = l.context[y]

LEMMA RaisedFromLinks ==
    ASSUME NEW l \in LinkRecords, NEW x \in Exceptions,
           NEW c \in Exceptions \cup {NoException}, NEW h \in Exceptions \cup {NoException}
    PROVE  RaiseFromMakes(RaisedFrom(l, x, c, h), l, x, c, h)
<1> DEFINE m == [l EXCEPT !.cause[x] = c]
<1>1. /\ m \in LinkRecords
      /\ m.cause[x] = c
      /\ \A y \in Exceptions \ {x} : m.cause[y] = l.cause[y]
      /\ m.context = l.context
  BY DEF LinkRecords, Links
<1>2. RaisedFrom(l, x, c, h) = Raised(m, x, h)
  BY DEF RaisedFrom
<1> HIDE DEF m
<1>3. PICK n : n = RaisedFrom(l, x, c, h)
  OBVIOUS
<1>4. RaiseMakes(n, m, x, h)
  BY <1>1, <1>2, <1>3, RaisedMakes
<1>5. RaiseFromMakes(n, l, x, c, h)
  BY <1>1, <1>4 DEF RaiseMakes, RaiseFromMakes
<1> QED BY <1>3, <1>5

\* Raising anything but on the sink's exception leaves nothing new linked to it.
LEMMA RaisedUnlinked ==
    ASSUME NEW l \in LinkRecords, NEW x \in Exceptions,
           NEW h \in Exceptions \cup {NoException},
           Unlinked(l), h # Original \/ x = Original
    PROVE  Unlinked(Raised(l, x, h))
<1>1. PICK m : m = Raised(l, x, h)
  OBVIOUS
<1>2. /\ m.cause = l.cause
      /\ h \notin {NoException, x} => m.context[x] = h
      /\ h \in {NoException, x} => m = l
      /\ \A y \in Exceptions \ {x} : m.context[y] \in {l.context[y], NoException}
  <2>1. RaiseMakes(m, l, x, h)
    BY <1>1, RaisedMakes
  <2> QED BY <2>1 DEF RaiseMakes
<1>3. Original # NoException
  BY Objects, ObjectAssumption DEF PackageErrors
<1>4. Unlinked(m)
  BY <1>2, <1>3 DEF Unlinked
<1> QED BY <1>1, <1>4

LEMMA RaisedFromUnlinked ==
    ASSUME NEW l \in LinkRecords, NEW x \in Exceptions,
           NEW c \in Exceptions \cup {NoException}, NEW h \in Exceptions \cup {NoException},
           Unlinked(l), c # Original, h # Original
    PROVE  Unlinked(RaisedFrom(l, x, c, h))
<1>1. PICK m : m = RaisedFrom(l, x, c, h)
  OBVIOUS
<1>2. /\ m.cause[x] = c
      /\ \A y \in Exceptions \ {x} : m.cause[y] = l.cause[y]
      /\ h \notin {NoException, x} => m.context[x] = h
      /\ h \in {NoException, x} => m.context = l.context
      /\ \A y \in Exceptions \ {x} : m.context[y] \in {l.context[y], NoException}
  <2>1. RaiseFromMakes(RaisedFrom(l, x, c, h), l, x, c, h)
    BY RaisedFromLinks
  <2> QED BY <1>1, <2>1 DEF RaiseFromMakes
<1>3. Original # NoException
  BY Objects, ObjectAssumption DEF PackageErrors
<1>4. Unlinked(m)
  BY <1>2, <1>3 DEF Unlinked
<1> QED BY <1>1, <1>4

\* A failing append hangs its exception, at most two links away, before the one that was
\* handled.
LEMMA SinkRaisedLinks ==
    ASSUME NEW l \in LinkRecords, NEW o \in Others \cup {Original},
           NEW i \in Others \cup {Original, NoException}, o # i,
           NEW h \in Exceptions \cup {NoException}, h # Original
    PROVE  /\ SinkRaised(l, o, i, h) \in LinkRecords
           /\ o = Original /\ Unlinked(l) => Unlinked(SinkRaised(l, o, i, h))
           /\ h # NoException =>
                 \/ o = h
                 \/ SinkRaised(l, o, i, h).context[o] = h
                 \/ /\ i # NoException
                    /\ SinkRaised(l, o, i, h).context[o] = i
                    /\ SinkRaised(l, o, i, h).context[i] = h
                 \/ i = h /\ SinkRaised(l, o, i, h).context[o] = i
<1>1. /\ o \in Exceptions
      /\ i \in Exceptions \cup {NoException}
      /\ NoException \notin Exceptions
  BY Objects DEF PackageErrors
<1>2. CASE i = NoException
  <2>1. PICK m : m = Raised(l, o, h)
    OBVIOUS
  <2>2. SinkRaised(l, o, i, h) = m
    BY <1>2, <2>1 DEF SinkRaised
  <2>3. m \in LinkRecords
    BY <1>1, <2>1, RaisedLinks
  <2>4. o = Original /\ Unlinked(l) => Unlinked(m)
    BY <1>1, <2>1, RaisedUnlinked
  <2>5. h \notin {NoException, o} => m.context[o] = h
    BY <1>1, <2>1, RaisedLinks
  <2> QED BY <2>2, <2>3, <2>4, <2>5
<1>3. CASE i # NoException
  <2>1. PICK k : k = Raised(l, i, h)
    OBVIOUS
  <2>2. PICK m : m = Raised(k, o, i)
    OBVIOUS
  <2>3. SinkRaised(l, o, i, h) = m
    BY <1>3, <2>1, <2>2 DEF SinkRaised
  <2>4. i \in Exceptions
    BY <1>1, <1>3
  <2>5. /\ k \in LinkRecords
        /\ h \notin {NoException, i} => k.context[i] = h
    BY <2>1, <2>4, RaisedLinks
  <2>6. /\ m \in LinkRecords
        /\ m.context[o] = i
        /\ k.context[i] # o => m.context[i] = k.context[i]
    BY <1>1, <1>3, <2>2, <2>4, <2>5, RaisedLinks
  <2>7. ASSUME o = Original, Unlinked(l)
        PROVE  Unlinked(m)
    <3>1. Unlinked(k)
      BY <2>1, <2>4, <2>7, RaisedUnlinked
    <3> QED BY <1>1, <2>2, <2>4, <2>5, <2>7, <3>1, RaisedUnlinked
  <2> QED BY <1>1, <1>3, <2>3, <2>5, <2>6, <2>7
<1> QED BY <1>2, <1>3

\* What the facade lets out of a failed append, and what it hangs behind.
LEMMA FailedLinks ==
    ASSUME link \in LinkRecords, NEW f \in Failures,
           NEW h \in Exceptions \cup {NoException}, h # Original
    PROVE  LET failed == Failed(f.original, f.inner, h)
           IN  /\ failed.link \in LinkRecords
               /\ failed.exc \in Others \cup {Normalized}
               /\ failed.exc = Normalized <=> f.original = Original
               /\ f.original = Original /\ Unlinked(link) => Unlinked(failed.link)
               /\ h \notin {NoException, Normalized} /\ failed.exc = Normalized =>
                     /\ failed.link.cause[Normalized] = NoException
                     /\ failed.link.context[Normalized] = h
               /\ h # NoException /\ failed.exc # Normalized =>
                     \/ failed.exc = h
                     \/ failed.link.context[failed.exc] = h
                     \/ \E i \in Others \cup {Original} :
                           /\ failed.link.context[failed.exc] = i
                           /\ i = h \/ failed.link.context[i] = h
<1> DEFINE failed == Failed(f.original, f.inner, h)
<1>1. PICK o \in Others \cup {Original} : o = f.original
  BY DEF Failures
<1>2. PICK i \in Others \cup {Original, NoException} : i = f.inner
  BY DEF Failures
<1>3. o # i
  BY <1>1, <1>2 DEF Failures
<1>4. PICK l : l = SinkRaised(link, o, i, h)
  OBVIOUS
<1>5. /\ l \in LinkRecords
      /\ o = Original /\ Unlinked(link) => Unlinked(l)
      /\ h # NoException =>
            \/ o = h
            \/ l.context[o] = h
            \/ i # NoException /\ l.context[o] = i /\ l.context[i] = h
            \/ i = h /\ l.context[o] = i
  BY <1>3, <1>4, SinkRaisedLinks
<1>6. CASE o = Original
  <2>1. PICK m : m = NormalizedRaised(l, o, h)
    OBVIOUS
  <2>2. failed = [link |-> m, exc |-> Normalized]
    BY <1>1, <1>2, <1>4, <1>6, <2>1 DEF Failed
  <2>3. Normalized \in Exceptions /\ NoException \notin Exceptions
    BY Objects DEF PackageErrors
  <2>4. m = RaisedFrom(l, Normalized, NoException, h)
    BY <2>1 DEF NormalizedRaised
  <2>5. /\ m \in LinkRecords
        /\ m.cause[Normalized] = NoException
        /\ h \notin {NoException, Normalized} => m.context[Normalized] = h
    <3>1. RaiseFromMakes(RaisedFrom(l, Normalized, NoException, h), l, Normalized, NoException, h)
      BY <1>5, <2>3, RaisedFromLinks
    <3> QED BY <2>4, <3>1 DEF RaiseFromMakes
  <2>6. Unlinked(l) => Unlinked(m)
    <3>1. NoException # Original
      BY Objects DEF PackageErrors
    <3> QED BY <1>5, <2>3, <2>4, <3>1, RaisedFromUnlinked
  <2>7. failed.link = m /\ failed.exc = Normalized
    BY <2>2
  <2> HIDE DEF failed
  <2> QED BY <1>1, <1>5, <1>6, <2>5, <2>6, <2>7 DEF failed
<1>7. CASE o # Original
  <2>1. failed = [link |-> l, exc |-> o]
    BY <1>1, <1>2, <1>4, <1>7 DEF Failed
  <2>2. o \in Others /\ o # Normalized
    BY <1>1, <1>7, Objects
  <2>3. failed.link = l /\ failed.exc = o
    BY <2>1
  <2>4. h # NoException =>
            \/ o = h
            \/ l.context[o] = h
            \/ \E j \in Others \cup {Original} :
                  l.context[o] = j /\ (j = h \/ l.context[j] = h)
    BY <1>2, <1>5
  <2> QED BY <1>1, <1>5, <1>7, <2>2, <2>3, <2>4
<1> QED BY <1>6, <1>7

\* The finalisation error hangs before what was handled, and before a normalized failure.
LEMMA FinalisationRaisedLinks ==
    ASSUME NEW l \in LinkRecords, NEW failure \in Exceptions,
           NEW h \in Exceptions, h # Finalisation
    PROVE  LET m == FinalisationRaised(l, failure, h)
           IN  /\ m \in LinkRecords
               /\ failure = Normalized => m.cause[Finalisation] = Normalized
               /\ m.context[Finalisation] = h
               /\ \A y \in Exceptions \ {Finalisation} :
                     /\ m.cause[y] = l.cause[y]
                     /\ l.context[y] # Finalisation => m.context[y] = l.context[y]
               /\ Unlinked(l) /\ h # Original => Unlinked(m)
<1>1. PICK m : m = FinalisationRaised(l, failure, h)
  OBVIOUS
<1>2. PICK c \in {Normalized, NoException} :
        c = IF failure = Normalized THEN Normalized ELSE NoException
  OBVIOUS
<1>3. m = RaisedFrom(l, Finalisation, c, h)
  BY <1>1, <1>2 DEF FinalisationRaised
<1>4. /\ Finalisation \in Exceptions
      /\ NoException \notin Exceptions
      /\ c \in Exceptions \cup {NoException}
      /\ c # Original
  BY Objects DEF PackageErrors
<1>5. /\ m \in LinkRecords
      /\ m.cause[Finalisation] = c
      /\ \A y \in Exceptions \ {Finalisation} : m.cause[y] = l.cause[y]
      /\ m.context[Finalisation] = h
      /\ \A y \in Exceptions \ {Finalisation} :
            l.context[y] # Finalisation => m.context[y] = l.context[y]
  <2>1. RaiseFromMakes(RaisedFrom(l, Finalisation, c, h), l, Finalisation, c, h)
    BY <1>4, RaisedFromLinks
  <2> QED BY <1>3, <1>4, <2>1 DEF RaiseFromMakes
<1>6. Unlinked(l) /\ h # Original => Unlinked(m)
  BY <1>3, <1>4, RaisedFromUnlinked
<1> QED BY <1>1, <1>2, <1>5, <1>6

--------------------------------------------------------------------------------
(* The operation. *)

\* The invariant of what is in whose hands; it carries the types.
Hands == TypeOK /\ ReportsComeLast /\ InHand

\* Objects in the form the proofs below use.
LEMMA Whereabouts ==
    /\ Others \subseteq Exceptions
    /\ Original \in Exceptions /\ Normalized \in Exceptions
    /\ Finalisation \in Exceptions /\ Usage \in Exceptions
BY Objects DEF PackageErrors

LEMMA InitHands == Init => Hands
<1> SUFFICES ASSUME Init PROVE Hands
  OBVIOUS
<1> USE DEF Init, InitWalk
<1>1. link \in [cause : Links, context : Links]
  <2>1. PICK cause \in [Others -> Others \cup {NoException}],
             context \in [Others -> Others \cup {NoException}] :
          link = [cause |-> [x \in Exceptions |-> IF x \in Others THEN cause[x] ELSE NoException],
                  context |-> [x \in Exceptions |-> IF x \in Others THEN context[x] ELSE NoException]]
    OBVIOUS
  <2>2. [x \in Exceptions |-> IF x \in Others THEN cause[x] ELSE NoException] \in Links
    BY <2>1, Whereabouts DEF Links
  <2>3. [x \in Exceptions |-> IF x \in Others THEN context[x] ELSE NoException] \in Links
    BY <2>1, Whereabouts DEF Links
  <2> QED BY <2>1, <2>2, <2>3
<1>2. WalkTypeOK
  <2>1. queue \in Seq(Link) /\ chain \in Seq(Entry) /\ Len(chain) = 0
    OBVIOUS
  <2>2. raised = NoException /\ visited = {} /\ truncated = FALSE
    OBVIOUS
  <2> HIDE DEF Init, InitWalk
  <2>3. Len(chain) <= MAX_CHAIN_DEPTH
    BY <2>1, WalkAssumption
  <2>4. visited \subseteq Exceptions /\ truncated \in BOOLEAN
    BY <2>2
  <2>5. raised \in Exceptions \cup {NoException}
    BY <2>2
  <2> QED BY <1>1, <2>1, <2>3, <2>4, <2>5 DEF WalkTypeOK
<1>3. TypeOK
  BY <1>2, Objects, ObjectAssumption DEF TypeOK
<1>4. ReportsComeLast
  BY DEF ReportsComeLast
<1>5. InHand
  BY Objects, Whereabouts DEF InHand
<1> QED BY <1>3, <1>4, <1>5 DEF Hands

LEMMA OpenLinkType ==
    ASSUME NEW x, NEW y \in Exceptions \cup {NoException}, NEW relation \in Relations
    PROVE  OpenLink(x, y, relation) \in Seq(Link)
<1>1. CASE y \in visited \cup {x, NoException}
  BY <1>1 DEF OpenLink
<1>2. CASE y \notin visited \cup {x, NoException}
  <2>1. PICK e : e = [exc |-> y, relation |-> relation]
    OBVIOUS
  <2>2. e \in Link
    BY <1>2, <2>1 DEF Link
  <2>3. <<e>> \in Seq(Link)
    BY <2>2
  <2> QED BY <1>2, <2>1, <2>3 DEF OpenLink
<1> QED BY <1>1, <1>2

\* A turn of the walk keeps the types of what it keeps.
LEMMA WalkHands == Hands /\ Walk /\ UNCHANGED operation => Hands'
<1> SUFFICES ASSUME Hands, Walk, UNCHANGED operation PROVE Hands'
  OBVIOUS
<1> USE DEF operation
<1>1. WalkTypeOK'
  <2> USE DEF Hands, TypeOK, WalkTypeOK, Building
  <2>1. Head(queue) \in Link /\ Tail(queue) \in Seq(Link)
    BY HeadTailProperties DEF Walk, Skip, StopAtCap, Record
  <2>2. CASE Skip
    BY <2>1, <2>2 DEF Skip
  <2>3. CASE StopAtCap
    BY <2>3 DEF StopAtCap
  <2>4. CASE Record
    <3>1. Head(queue).exc \in Exceptions /\ Head(queue).relation \in Relations
      BY <2>1 DEF Link
    <3>2. PICK x \in Exceptions : x = Head(queue).exc
      BY <3>1
    <3>3. /\ link.cause[x] \in Exceptions \cup {NoException}
          /\ link.context[x] \in Exceptions \cup {NoException}
      BY DEF Links
    <3>4. OpenLink(x, link.cause[x], "cause") \in Seq(Link)
      BY <3>3, OpenLinkType DEF Relations
    <3>5. OpenLink(x, link.context[x], "context") \in Seq(Link)
      BY <3>3, OpenLinkType DEF Relations
    <3>6. OpenLinks(x) \in Seq(Link)
      BY <3>4, <3>5 DEF OpenLinks
    <3>7. queue' \in Seq(Link)
      BY <2>1, <2>4, <3>2, <3>6 DEF Record, QueueAfter
    <3>8. visited' \subseteq Exceptions
      BY <2>4, <3>1 DEF Record
    <3>9. chain' \in Seq(Entry) /\ Len(chain') <= MAX_CHAIN_DEPTH
      <4>1. PICK e : e = [exc |-> Head(queue).exc, relation |-> Head(queue).relation,
                           message |-> SafeMessage(Head(queue).exc)]
        OBVIOUS
      <4>2. e \in Entry
        BY <3>1, <4>1 DEF Entry, SafeMessage
      <4>3. chain' = Append(chain, e)
        BY <2>4, <4>1 DEF Record
      <4>4. Len(chain) < MAX_CHAIN_DEPTH
        BY <2>4, WalkAssumption DEF Record, AtCap
      <4> QED BY <4>2, <4>3, <4>4, WalkAssumption
    <3> QED BY <2>4, <3>7, <3>8, <3>9 DEF Record
  <2> QED BY <2>2, <2>3, <2>4 DEF Walk
<1>2. UNCHANGED <<link, raised>> /\ raised # NoException
  BY DEF Walk, Skip, StopAtCap, Record, Building
<1>3. TypeOK'
  BY <1>1 DEF Hands, TypeOK
<1>4. ReportsComeLast' /\ InHand'
  BY <1>2 DEF Hands, ReportsComeLast, InHand
<1> QED BY <1>3, <1>4 DEF Hands

\* What a failing append leaves in the operation's hands.
LEMMA FailureInHand ==
    ASSUME Hands, NEW f \in Failures, NEW h \in Exceptions \cup {NoException}, h # Original
    PROVE  /\ Failed(f.original, f.inner, h).link \in LinkRecords
           /\ Failed(f.original, f.inner, h).exc \in Others \cup {Normalized}
           /\ Failed(f.original, f.inner, h).exc # Original
           /\ Failed(f.original, f.inner, h).exc # Finalisation
           /\ Failed(f.original, f.inner, h).exc # NoException
<1>1. link \in LinkRecords
  BY DEF Hands, TypeOK, WalkTypeOK, LinkRecords
<1>2. PICK failed : failed = Failed(f.original, f.inner, h)
  OBVIOUS
<1>3. failed.link \in LinkRecords /\ failed.exc \in Others \cup {Normalized}
  BY <1>1, <1>2, FailedLinks
<1> QED BY <1>2, <1>3, Objects, Whereabouts

\* Before the end of an operation no evidence is built, so only the operation's own
\* variables are left to look at.
LEMMA OperationHands ==
    ASSUME Hands, state # "over", UNCHANGED <<evidence, around>>,
           link' \in LinkRecords,
           handler' \in Exceptions \cup {NoException},
           flight' \in Exceptions \cup {NoException},
           state' \in {"none", "open", "failed", "finalised", "over"},
           stored' \in Others \cup {Normalized, NoException},
           sinkFailure' \in {Original, NoException},
           body' \in Exceptions \cup {NoException},
           raises' \in 0..MaxRaises,
           InHand'
    PROVE  Hands'
<1>1. TypeOK'
  BY DEF Hands, TypeOK, WalkTypeOK, LinkRecords, evidence
<1>2. ReportsComeLast'
  BY DEF Hands, ReportsComeLast, evidence
<1> QED BY <1>1, <1>2 DEF Hands

\* The same of a step that changes neither a link nor what the operation has failed with.
LEMMA QuietHands ==
    ASSUME Hands, state # "over",
           UNCHANGED <<link, evidence, around, stored, sinkFailure, body, raises>>,
           handler' \in {handler, flight, NoException},
           flight' \in {handler, flight, NoException},
           <<state, state'>> \in {<<"none", "open">>, <<"open", "open">>, <<"failed", "failed">>,
               <<"finalised", "finalised">>, <<"open", "finalised">>, <<"open", "over">>,
               <<"failed", "over">>, <<"finalised", "over">>}
    PROVE  Hands'
<1>1. /\ link' \in LinkRecords
      /\ handler' \in Exceptions \cup {NoException}
      /\ flight' \in Exceptions \cup {NoException}
      /\ state' \in {"none", "open", "failed", "finalised", "over"}
      /\ stored' \in Others \cup {Normalized, NoException}
      /\ sinkFailure' \in {Original, NoException}
      /\ body' \in Exceptions \cup {NoException}
      /\ raises' \in 0..MaxRaises
  BY DEF Hands, TypeOK, WalkTypeOK, LinkRecords
<1>2. NoException \notin {Original, Normalized, Finalisation}
  BY Objects, Whereabouts
<1>3. InHand /\ raised' = raised
  BY DEF Hands, evidence
<1>4. Original \notin {around, handler, flight, stored, raised}'
  BY <1>2, <1>3 DEF InHand
<1>5. (state = "open" /\ state' # "failed") \/ (state = "none" /\ state' = "open")
      \/ (state = "failed" /\ state' \in {"failed", "over"})
      \/ (state = "finalised" /\ state' \in {"finalised", "over"})
  OBVIOUS
<1>6. (state = "none" => flight = NoException)'
  BY <1>5
<1>7. (state # "over" => Finalisation \notin {handler, flight})'
  BY <1>2, <1>3 DEF InHand
<1>8. (state \in {"none", "open", "finalised"} =>
          Normalized \notin {handler, flight} /\ stored = NoException)'
  BY <1>2, <1>3, <1>5 DEF InHand
<1>9. (state = "failed" => stored # NoException)'
  BY <1>3, <1>5 DEF InHand
<1>10. InHand'
  BY <1>4, <1>6, <1>7, <1>8, <1>9 DEF InHand
<1> QED BY <1>1, <1>10, OperationHands

LEMMA StepHands == Hands /\ [Next]_vars => Hands'
<1> SUFFICES ASSUME Hands, [Next]_vars PROVE Hands'
  OBVIOUS
<1>0. /\ link \in LinkRecords
      /\ around \in Exceptions \cup {NoException} /\ around # Original
      /\ handler \in Exceptions \cup {NoException} /\ handler # Original
      /\ flight \in Exceptions \cup {NoException} /\ flight # Original
      /\ state \in {"none", "open", "failed", "finalised", "over"}
      /\ stored \in Others \cup {Normalized, NoException}
      /\ sinkFailure \in {Original, NoException}
      /\ body \in Exceptions \cup {NoException}
      /\ raises \in 0..MaxRaises
      /\ InHand /\ raised # Original
      /\ (state # "over" => raised = NoException)
  BY Whereabouts DEF Hands, TypeOK, WalkTypeOK, LinkRecords, InHand, ReportsComeLast
<1>w. /\ Others \subseteq Exceptions
      /\ Original \in Exceptions /\ Normalized \in Exceptions
      /\ Finalisation \in Exceptions /\ Usage \in Exceptions
      /\ NoException \notin Exceptions
      /\ Original \notin Others /\ Normalized \notin Others
      /\ Finalisation \notin Others /\ Usage \notin Others
      /\ Original # Normalized /\ Original # Finalisation /\ Original # Usage
      /\ Normalized # Finalisation /\ Normalized # Usage /\ Finalisation # Usage
  BY Objects, Whereabouts
<1>1. CASE IntentReturns
  BY <1>1, <1>0, QuietHands DEF IntentReturns
<1>2. CASE RaiseAgain
  BY <1>2, <1>0, QuietHands DEF RaiseAgain, InBlock
<1>3. CASE Catch
  BY <1>3, <1>0, QuietHands DEF Catch, InBlock
<1>4. CASE LeaveHandler
  BY <1>4, <1>0, QuietHands DEF LeaveHandler, InBlock
<1>5. CASE FinaliseReturns
  BY <1>5, <1>0, QuietHands DEF FinaliseReturns
<1>6. CASE ExitUnchanged
  BY <1>6, <1>0, QuietHands DEF ExitUnchanged, Leave, InBlock
<1>7. CASE IntentFails
  <2>1. PICK f \in Failures :
          /\ link' = Failed(f.original, f.inner, around).link
          /\ flight' = Failed(f.original, f.inner, around).exc
          /\ KeepOriginal(f.original)
    BY <1>7 DEF IntentFails
  <2>2. /\ link' \in LinkRecords
        /\ flight' \in Others \cup {Normalized} /\ flight' \notin {Original, Finalisation}
    BY <1>0, <2>1, FailureInHand
  <2>3. sinkFailure' \in {Original, NoException}
    BY <1>0, <2>1 DEF KeepOriginal
  <2>4. /\ state = "none" /\ state' = "over"
        /\ UNCHANGED <<evidence, around, handler, stored, body, raises>>
    BY <1>7 DEF IntentFails
  <2>5. InHand'
    BY <1>0, <2>2, <2>4 DEF InHand, evidence
  <2> QED BY <1>0, <1>w, <2>2, <2>3, <2>4, <2>5, OperationHands
<1>8. CASE ApplicationRaises
  <2>1. PICK x \in Others :
          /\ flight' = x
          /\ \/ link' = Raised(link, x, Handled)
             \/ handler # NoException /\ link' = RaisedFrom(link, x, handler, Handled)
    BY <1>8 DEF ApplicationRaises
  <2>2. Handled \in Exceptions \cup {NoException}
    BY <1>0 DEF Handled
  <2>3. Raised(link, x, Handled) \in LinkRecords
    BY <1>0, <1>w, <2>2, RaisedLinks
  <2>4. RaisedFrom(link, x, handler, Handled) \in LinkRecords
    <3>1. RaiseFromMakes(RaisedFrom(link, x, handler, Handled), link, x, handler, Handled)
      BY <1>0, <1>w, <2>2, RaisedFromLinks
    <3> QED BY <3>1 DEF RaiseFromMakes
  <2>5. /\ state \in {"open", "failed", "finalised"} /\ state' = state
        /\ handler' = NoException
        /\ raises < MaxRaises /\ raises' = raises + 1
        /\ UNCHANGED <<evidence, around, stored, sinkFailure, body>>
    BY <1>8 DEF ApplicationRaises, InBlock
  <2>6. raises' \in 0..MaxRaises
    BY <1>0, <2>5, ObjectAssumption
  <2>7. InHand'
    BY <1>0, <1>w, <2>1, <2>5 DEF InHand, evidence
  <2>8. link' \in LinkRecords /\ flight' \in Exceptions \cup {NoException}
    BY <1>w, <2>1, <2>3, <2>4
  <2> QED BY <1>0, <2>5, <2>6, <2>7, <2>8, OperationHands
<1>9. CASE FinaliseFails
  <2>1. PICK f \in Failures :
          /\ link' = Failed(f.original, f.inner, Handled).link
          /\ flight' = Failed(f.original, f.inner, Handled).exc
          /\ stored' = Failed(f.original, f.inner, Handled).exc
          /\ KeepOriginal(f.original)
    BY <1>9 DEF FinaliseFails
  <2>2. Handled \in Exceptions \cup {NoException} /\ Handled # Original
    BY <1>0 DEF Handled
  <2>3. /\ link' \in LinkRecords
        /\ flight' \in Others \cup {Normalized} /\ flight' \notin {Original, Finalisation}
        /\ stored' = flight' /\ stored' # NoException
    BY <2>1, <2>2, FailureInHand
  <2>4. sinkFailure' \in {Original, NoException}
    BY <1>0, <2>1 DEF KeepOriginal
  <2>5. /\ state = "open" /\ state' = "failed" /\ handler' = NoException
        /\ UNCHANGED <<evidence, around, body, raises>>
    BY <1>9 DEF FinaliseFails
  <2>6. InHand'
    BY <1>0, <1>w, <2>3, <2>5 DEF InHand, evidence
  <2> QED BY <1>0, <1>w, <2>3, <2>4, <2>5, <2>6, OperationHands
<1>10. CASE ExitSwallowed
  <2>1. /\ state = "failed" /\ state' = "over" /\ handler = NoException
        /\ flight' = stored /\ link' = Raised(link, stored, around)
        /\ UNCHANGED <<evidence, around, handler, stored, sinkFailure, body, raises>>
    BY <1>10 DEF ExitSwallowed, Leave
  <2>2. stored \in Exceptions
    BY <1>0, <1>w, <2>1 DEF InHand
  <2>3. link' \in LinkRecords
    BY <1>0, <2>1, <2>2, RaisedLinks
  <2>4. InHand'
    BY <1>0, <2>1 DEF InHand, evidence
  <2> QED BY <1>0, <2>1, <2>2, <2>3, <2>4, OperationHands
<1>11. CASE ExitDual
  <2>1. /\ state = "failed" /\ state' = "over"
        /\ flight # NoException /\ flight' = Finalisation /\ body' = flight
        /\ link' = FinalisationRaised(link, stored, flight)
        /\ UNCHANGED <<evidence, around, handler, stored, sinkFailure, raises>>
    BY <1>11 DEF ExitDual, Leave
  <2>2. stored \in Exceptions /\ flight \in Exceptions /\ flight # Finalisation
    BY <1>0, <1>w, <2>1 DEF InHand
  <2>3. link' \in LinkRecords
    BY <1>0, <2>1, <2>2, FinalisationRaisedLinks
  <2>4. InHand'
    BY <1>0, <1>w, <2>1 DEF InHand, evidence
  <2> QED BY <1>0, <1>w, <2>1, <2>2, <2>3, <2>4, OperationHands
<1>12. CASE ExitForgotten
  <2>1. /\ state = "open" /\ state' = "over"
        /\ flight' = Usage /\ link' = RaisedFrom(link, Usage, NoException, around)
        /\ UNCHANGED <<evidence, around, handler, stored, sinkFailure, body, raises>>
    BY <1>12 DEF ExitForgotten, Leave
  <2>2. RaiseFromMakes(RaisedFrom(link, Usage, NoException, around), link, Usage, NoException,
                       around)
    BY <1>0, <1>w, RaisedFromLinks
  <2>3. link' \in LinkRecords
    BY <2>1, <2>2 DEF RaiseFromMakes
  <2>4. InHand'
    BY <1>0, <1>w, <2>1 DEF InHand, evidence
  <2> QED BY <1>0, <1>w, <2>1, <2>3, <2>4, OperationHands
<1>13. CASE ExitAutomatic
  <2>1. /\ state = "open" /\ state' = "over" /\ flight # NoException
        /\ UNCHANGED <<evidence, around, handler, raises>>
    BY <1>13 DEF ExitAutomatic, Leave
  <2>2. CASE UNCHANGED <<link, flight, stored, sinkFailure, body>>
    BY <1>0, <2>1, <2>2, QuietHands
  <2>3. CASE ~UNCHANGED <<link, flight, stored, sinkFailure, body>>
    <3>1. PICK f \in Failures :
            LET failed == Failed(f.original, f.inner, flight)
            IN  /\ stored' = failed.exc
                /\ KeepOriginal(f.original)
                /\ \/ /\ link' = FinalisationRaised(failed.link, failed.exc, failed.exc)
                      /\ flight' = Finalisation
                      /\ body' = flight
                   \/ /\ f.original # Original
                      /\ link' = failed.link
                      /\ flight' = failed.exc
                      /\ UNCHANGED body
      BY <1>13, <2>3 DEF ExitAutomatic
    <3>2. PICK failed : failed = Failed(f.original, f.inner, flight)
      OBVIOUS
    <3>3. /\ failed.link \in LinkRecords
          /\ failed.exc \in Others \cup {Normalized}
          /\ failed.exc \notin {Original, Finalisation, NoException}
      BY <1>0, <3>2, FailureInHand
    <3>4. FinalisationRaised(failed.link, failed.exc, failed.exc) \in LinkRecords
      <4>1. PICK l \in LinkRecords : l = failed.link
        BY <3>3
      <4>2. PICK e \in Exceptions : e = failed.exc /\ e # Finalisation
        BY <1>w, <3>3
      <4>3. FinalisationRaised(l, e, e) \in LinkRecords
        BY <4>2, FinalisationRaisedLinks
      <4> QED BY <4>1, <4>2, <4>3
    <3>5. /\ link' \in LinkRecords
          /\ flight' \in Others \cup {Normalized, Finalisation}
          /\ stored' \in Others \cup {Normalized}
          /\ body' \in {flight, body}
      BY <3>1, <3>2, <3>3, <3>4
    <3>6. sinkFailure' \in {Original, NoException}
      BY <1>0, <3>1 DEF KeepOriginal
    <3>7. InHand'
      BY <1>0, <1>w, <2>1, <3>5 DEF InHand, evidence
    <3> QED BY <1>0, <1>w, <2>1, <3>5, <3>6, <3>7, OperationHands
  <2> QED BY <2>2, <2>3
<1>14. CASE Report
  <2>1. /\ state = "over" /\ flight # NoException /\ raised = NoException
        /\ raised' = flight
        /\ queue' = <<[exc |-> flight, relation |-> "none"]>>
        /\ UNCHANGED <<visited, chain, truncated, link, operation>>
    BY <1>14 DEF Report, StartWalk, NotBuilding
  <2>2. queue' \in Seq(Link)
    <3>1. PICK e : e = [exc |-> flight, relation |-> "none"]
      OBVIOUS
    <3>2. e \in Link
      BY <1>0, <2>1, <3>1 DEF Link, Relations
    <3>3. <<e>> \in Seq(Link)
      BY <3>2
    <3> QED BY <2>1, <3>1, <3>3
  <2>3. TypeOK'
    BY <1>0, <2>1, <2>2 DEF Hands, TypeOK, WalkTypeOK, operation
  <2>4. ReportsComeLast' /\ InHand'
    BY <1>0, <1>w, <2>1 DEF ReportsComeLast, InHand, operation
  <2> QED BY <2>3, <2>4 DEF Hands
<1>15. CASE Walk /\ UNCHANGED operation
  BY <1>15, WalkHands
<1>16. CASE UNCHANGED vars
  <2>1. UNCHANGED <<link, raised, queue, visited, chain, truncated, around, handler, flight,
                    state, stored, sinkFailure, body, raises>>
    BY <1>16 DEF vars, evidence, operation
  <2>2. TypeOK'
    BY <2>1 DEF Hands, TypeOK, WalkTypeOK
  <2> QED BY <2>1, <2>2 DEF Hands, ReportsComeLast, InHand
<1> QED BY <1>1, <1>2, <1>3, <1>4, <1>5, <1>6, <1>7, <1>8, <1>9, <1>10, <1>11, <1>12, <1>13,
           <1>14, <1>15, <1>16 DEF Next

LEMMA SpecHands == Spec => []Hands
BY InitHands, StepHands, PTL DEF Spec

\* Every variable of the links, the walk and the operation keeps its type, and no evidence
\* has more exceptions than the cap allows, for any exceptions and any number of raises.
THEOREM TypeCorrect == Spec => []TypeOK
<1>1. Hands => TypeOK
  BY DEF Hands
<1> QED BY <1>1, SpecHands, PTL

--------------------------------------------------------------------------------
(* Links to the sink's exception. *)

LEMMA InitOffChain == Init => OffChain
<1> SUFFICES ASSUME Init PROVE OffChain
  OBVIOUS
<1>1. PICK cause \in [Others -> Others \cup {NoException}],
           context \in [Others -> Others \cup {NoException}] :
        link = [cause |-> [x \in Exceptions |-> IF x \in Others THEN cause[x] ELSE NoException],
                context |-> [x \in Exceptions |-> IF x \in Others THEN context[x] ELSE NoException]]
  BY DEF Init
<1>2. \A y \in Exceptions :
        link.cause[y] \in Others \cup {NoException} /\ link.context[y] \in Others \cup {NoException}
  BY <1>1
<1>3. Original \notin Others \cup {NoException}
  BY Objects, Whereabouts
<1> QED BY <1>2, <1>3 DEF Init, OffChain, Unlinked

LEMMA StepOffChain == Hands /\ OffChain /\ [Next]_vars => OffChain'
<1> SUFFICES ASSUME Hands, OffChain, [Next]_vars PROVE OffChain'
  OBVIOUS
<1>0. /\ link \in LinkRecords
      /\ around \in Exceptions \cup {NoException} /\ around # Original
      /\ handler \in Exceptions \cup {NoException} /\ handler # Original
      /\ flight \in Exceptions \cup {NoException} /\ flight # Original
      /\ stored \in Exceptions \cup {NoException} /\ stored # Original
      /\ (state = "failed" => stored # NoException)
      /\ (state # "over" => flight # Finalisation)
      /\ (state # "over" => raised = NoException)
  BY Whereabouts DEF Hands, TypeOK, WalkTypeOK, LinkRecords, InHand, ReportsComeLast
<1>w. /\ Others \subseteq Exceptions
      /\ Original \in Exceptions /\ Normalized \in Exceptions
      /\ Finalisation \in Exceptions /\ Usage \in Exceptions
      /\ NoException \notin Exceptions
      /\ Original \notin Others
      /\ Original # Normalized /\ Original # Finalisation /\ Original # Usage
  BY Objects, Whereabouts
<1>1. ASSUME UNCHANGED <<link, sinkFailure>>, state' = state \/ state' \notin {"none", "open"}
             \/ state = "none"
      PROVE  OffChain'
  BY <1>1 DEF OffChain
<1>2. CASE IntentReturns \/ RaiseAgain \/ Catch \/ LeaveHandler
           \/ FinaliseReturns \/ ExitUnchanged
  BY <1>1, <1>2 DEF IntentReturns, RaiseAgain, Catch, LeaveHandler, FinaliseReturns,
                    ExitUnchanged, Leave
<1>3. CASE Report \/ (Walk /\ UNCHANGED operation) \/ UNCHANGED vars
  BY <1>1, <1>3 DEF Report, Walk, Skip, StopAtCap, Record, operation, vars
<1>4. ASSUME NEW f \in Failures, NEW h \in Exceptions \cup {NoException}, h # Original,
             state \in {"none", "open"}, KeepOriginal(f.original)
      PROVE  sinkFailure' # NoException => Unlinked(Failed(f.original, f.inner, h).link)
  <2>1. sinkFailure = NoException /\ Unlinked(link)
    BY <1>4 DEF OffChain
  <2>2. f.original = Original => Unlinked(Failed(f.original, f.inner, h).link)
    BY <1>0, <1>4, <2>1, FailedLinks
  <2> QED BY <1>4, <2>1, <2>2 DEF KeepOriginal
<1>5. CASE IntentFails
  <2>1. PICK f \in Failures :
          link' = Failed(f.original, f.inner, around).link /\ KeepOriginal(f.original)
    BY <1>5 DEF IntentFails
  <2>2. state = "none" /\ state' = "over"
    BY <1>5 DEF IntentFails
  <2>3. sinkFailure' # NoException => Unlinked(Failed(f.original, f.inner, around).link)
    BY <1>0, <1>4, <2>1, <2>2
  <2> QED BY <2>1, <2>2, <2>3 DEF OffChain
<1>6. CASE FinaliseFails
  <2>1. PICK f \in Failures :
          link' = Failed(f.original, f.inner, Handled).link /\ KeepOriginal(f.original)
    BY <1>6 DEF FinaliseFails
  <2>2. state = "open" /\ state' = "failed"
    BY <1>6 DEF FinaliseFails
  <2>3. Handled \in Exceptions \cup {NoException} /\ Handled # Original
    BY <1>0 DEF Handled
  <2>4. sinkFailure' # NoException => Unlinked(Failed(f.original, f.inner, Handled).link)
    BY <1>4, <2>1, <2>2, <2>3
  <2> QED BY <2>1, <2>2, <2>4 DEF OffChain
<1>7. CASE ApplicationRaises
  <2>1. PICK x \in Others :
          \/ link' = Raised(link, x, Handled)
          \/ handler # NoException /\ link' = RaisedFrom(link, x, handler, Handled)
    BY <1>7 DEF ApplicationRaises
  <2>2. Handled \in Exceptions \cup {NoException} /\ Handled # Original
    BY <1>0 DEF Handled
  <2>3. UNCHANGED <<state, sinkFailure>>
    BY <1>7 DEF ApplicationRaises
  <2>4. Unlinked(link) => Unlinked(Raised(link, x, Handled))
    BY <1>0, <1>w, <2>2, RaisedUnlinked
  <2>5. Unlinked(link) => Unlinked(RaisedFrom(link, x, handler, Handled))
    BY <1>0, <1>w, <2>2, RaisedFromUnlinked
  <2>6. Unlinked(link) => Unlinked(link')
    BY <2>1, <2>4, <2>5
  <2> QED BY <2>3, <2>6 DEF OffChain
<1>8. CASE ExitSwallowed
  <2>1. state = "failed" /\ state' = "over" /\ UNCHANGED sinkFailure
        /\ link' = Raised(link, stored, around)
    BY <1>8 DEF ExitSwallowed, Leave
  <2>2. stored \in Exceptions
    BY <1>0, <2>1
  <2>3. Unlinked(link) => Unlinked(link')
    BY <1>0, <2>1, <2>2, RaisedUnlinked
  <2> QED BY <2>1, <2>3 DEF OffChain
<1>9. CASE ExitDual
  <2>1. state = "failed" /\ state' = "over" /\ UNCHANGED sinkFailure /\ flight # NoException
        /\ link' = FinalisationRaised(link, stored, flight)
    BY <1>9 DEF ExitDual, Leave
  <2>2. stored \in Exceptions /\ flight \in Exceptions /\ flight # Finalisation
    BY <1>0, <2>1
  <2>3. Unlinked(link) => Unlinked(link')
    BY <1>0, <2>1, <2>2, FinalisationRaisedLinks
  <2> QED BY <2>1, <2>3 DEF OffChain
<1>10. CASE ExitForgotten
  <2>1. state = "open" /\ state' = "over" /\ UNCHANGED sinkFailure
        /\ link' = RaisedFrom(link, Usage, NoException, around)
    BY <1>10 DEF ExitForgotten, Leave
  <2>2. Unlinked(link) => Unlinked(link')
    BY <1>0, <1>w, <2>1, RaisedFromUnlinked
  <2> QED BY <2>1, <2>2 DEF OffChain
<1>11. CASE ExitAutomatic
  <2>1. state = "open" /\ state' = "over" /\ flight # NoException
    BY <1>11 DEF ExitAutomatic, Leave
  <2>2. CASE UNCHANGED <<link, flight, stored, sinkFailure, body>>
    BY <1>1, <2>1, <2>2
  <2>3. CASE ~UNCHANGED <<link, flight, stored, sinkFailure, body>>
    <3>1. PICK f \in Failures :
            LET failed == Failed(f.original, f.inner, flight)
            IN  /\ KeepOriginal(f.original)
                /\ \/ link' = FinalisationRaised(failed.link, failed.exc, failed.exc)
                   \/ link' = failed.link
      BY <1>11, <2>3 DEF ExitAutomatic
    <3>2. PICK failed : failed = Failed(f.original, f.inner, flight)
      OBVIOUS
    <3>3. /\ failed.link \in LinkRecords
          /\ failed.exc \in Others \cup {Normalized}
          /\ failed.exc \notin {Original, Finalisation, NoException}
      BY <1>0, <3>2, FailureInHand
    <3>4. sinkFailure' # NoException => Unlinked(failed.link)
      BY <1>0, <1>4, <2>1, <3>1, <3>2
    <3>5. Unlinked(failed.link) =>
             Unlinked(FinalisationRaised(failed.link, failed.exc, failed.exc))
      BY <1>w, <3>3, FinalisationRaisedLinks
    <3>6. sinkFailure' # NoException => Unlinked(link')
      BY <3>1, <3>2, <3>4, <3>5
    <3> QED BY <2>1, <3>6 DEF OffChain
  <2> QED BY <2>2, <2>3
<1> QED BY <1>2, <1>3, <1>5, <1>6, <1>7, <1>8, <1>9, <1>10, <1>11 DEF Next

LEMMA SpecOffChain == Spec => []OffChain
<1>1. Init => OffChain
  BY InitOffChain
<1>2. Hands /\ OffChain /\ [Next]_vars => OffChain'
  BY StepOffChain
<1> QED BY <1>1, <1>2, SpecHands, PTL DEF Spec

--------------------------------------------------------------------------------
(* The walk. *)

\* Links lead nowhere out of what is reachable, and a set they do not lead out of that
\* has the raised exception in it has all that is reachable.
LEMMA Reaching ==
    ASSUME raised \in Exceptions
    PROVE  /\ raised \in Reachable
           /\ Reachable \subseteq Exceptions
           /\ Linked(Reachable) \subseteq Reachable
           /\ \A S \in SUBSET Exceptions :
                 raised \in S /\ Linked(S) \subseteq S => Reachable \subseteq S
<1>1. raised \in Reachable /\ Reachable \subseteq Exceptions
  BY DEF Reachable
<1>2. ASSUME NEW y \in Linked(Reachable)
      PROVE  y \in Reachable
  <2>1. y \in Exceptions
    BY DEF Linked
  <2>2. PICK x \in Reachable : link.cause[x] = y \/ link.context[x] = y
    BY DEF Linked
  <2>3. ASSUME NEW S \in SUBSET Exceptions, raised \in S, Linked(S) \subseteq S
        PROVE  y \in S
    <3>1. x \in S
      BY <2>3 DEF Reachable
    <3>2. y \in Linked(S)
      BY <2>1, <2>2, <3>1 DEF Linked
    <3> QED BY <2>3, <3>2
  <2> QED BY <2>1, <2>3 DEF Reachable
<1>3. ASSUME NEW S \in SUBSET Exceptions, raised \in S, Linked(S) \subseteq S
      PROVE  Reachable \subseteq S
  BY <1>3 DEF Reachable
<1> QED BY <1>1, <1>2, <1>3

LEMMA InParts ==
    ASSUME NEW S, NEW s \in Seq(S), NEW t \in Seq(S)
    PROVE  InEntries(s \o t) = InEntries(s) \cup InEntries(t)
<1>1. /\ Len(s) \in Nat /\ Len(t) \in Nat
      /\ Len(s \o t) = Len(s) + Len(t)
      /\ \A k \in 1..Len(s) + Len(t) :
            (s \o t)[k] = IF k <= Len(s) THEN s[k] ELSE t[k - Len(s)]
  BY ConcatProperties, LenProperties
<1>2. InEntries(s \o t) \subseteq InEntries(s) \cup InEntries(t)
  <2> SUFFICES ASSUME NEW k \in 1..Len(s) + Len(t)
               PROVE  (s \o t)[k].exc \in InEntries(s) \cup InEntries(t)
    BY <1>1 DEF InEntries
  <2>1. CASE k <= Len(s)
    <3>1. k \in 1..Len(s) /\ (s \o t)[k] = s[k]
      BY <1>1, <2>1
    <3> QED BY <3>1 DEF InEntries
  <2>2. CASE ~(k <= Len(s))
    <3>1. k - Len(s) \in 1..Len(t) /\ (s \o t)[k] = t[k - Len(s)]
      BY <1>1, <2>2
    <3> QED BY <3>1 DEF InEntries
  <2> QED BY <2>1, <2>2
<1>3. InEntries(s) \subseteq InEntries(s \o t)
  <2> SUFFICES ASSUME NEW k \in 1..Len(s)
               PROVE  s[k].exc \in InEntries(s \o t)
    BY DEF InEntries
  <2>1. k \in 1..Len(s \o t) /\ (s \o t)[k] = s[k]
    BY <1>1
  <2> QED BY <2>1 DEF InEntries
<1>4. InEntries(t) \subseteq InEntries(s \o t)
  <2> SUFFICES ASSUME NEW k \in 1..Len(t)
               PROVE  t[k].exc \in InEntries(s \o t)
    BY DEF InEntries
  <2>1. Len(s) + k \in 1..Len(s \o t)
    BY <1>1
  <2>2. (s \o t)[Len(s) + k] = t[k]
    BY <1>1
  <2> QED BY <2>1, <2>2 DEF InEntries
<1> QED BY <1>2, <1>3, <1>4

LEMMA InHeadAndTail ==
    ASSUME NEW S, NEW s \in Seq(S), s # <<>>
    PROVE  InEntries(s) = {Head(s).exc} \cup InEntries(Tail(s))
<1>1. /\ Len(s) \in Nat \ {0}
      /\ Len(Tail(s)) = Len(s) - 1
      /\ \A k \in 1..Len(Tail(s)) : Tail(s)[k] = s[k + 1]
      /\ Head(s) = s[1]
  BY HeadTailProperties, EmptySeq
<1>2. InEntries(s) \subseteq {Head(s).exc} \cup InEntries(Tail(s))
  <2> SUFFICES ASSUME NEW k \in 1..Len(s)
               PROVE  s[k].exc \in {Head(s).exc} \cup InEntries(Tail(s))
    BY DEF InEntries
  <2>1. CASE k = 1
    BY <1>1, <2>1
  <2>2. CASE k # 1
    <3>1. k - 1 \in 1..Len(Tail(s)) /\ Tail(s)[k - 1] = s[k]
      BY <1>1, <2>2
    <3> QED BY <3>1 DEF InEntries
  <2> QED BY <2>1, <2>2
<1>3. Head(s).exc \in InEntries(s)
  BY <1>1 DEF InEntries
<1>4. InEntries(Tail(s)) \subseteq InEntries(s)
  <2> SUFFICES ASSUME NEW k \in 1..Len(Tail(s))
               PROVE  Tail(s)[k].exc \in InEntries(s)
    BY DEF InEntries
  <2>1. k + 1 \in 1..Len(s) /\ Tail(s)[k] = s[k + 1]
    BY <1>1
  <2> QED BY <2>1 DEF InEntries
<1> QED BY <1>2, <1>3, <1>4

LEMMA InAppended ==
    ASSUME NEW S, NEW s \in Seq(S), NEW e \in S
    PROVE  InEntries(Append(s, e)) = InEntries(s) \cup {e.exc}
<1>1. /\ Len(s) \in Nat
      /\ Len(Append(s, e)) = Len(s) + 1
      /\ \A k \in 1..Len(s) : Append(s, e)[k] = s[k]
      /\ Append(s, e)[Len(s) + 1] = e
  OBVIOUS
<1>2. InEntries(Append(s, e)) \subseteq InEntries(s) \cup {e.exc}
  <2> SUFFICES ASSUME NEW k \in 1..Len(s) + 1
               PROVE  Append(s, e)[k].exc \in InEntries(s) \cup {e.exc}
    BY <1>1 DEF InEntries
  <2>1. CASE k \in 1..Len(s)
    BY <1>1, <2>1 DEF InEntries
  <2>2. CASE k = Len(s) + 1
    BY <1>1, <2>2
  <2> QED BY <1>1, <2>1, <2>2
<1>3. InEntries(s) \subseteq InEntries(Append(s, e))
  <2> SUFFICES ASSUME NEW k \in 1..Len(s)
               PROVE  s[k].exc \in InEntries(Append(s, e))
    BY DEF InEntries
  <2>1. k \in 1..Len(Append(s, e)) /\ Append(s, e)[k] = s[k]
    BY <1>1
  <2> QED BY <2>1 DEF InEntries
<1>4. e.exc \in InEntries(Append(s, e))
  <2>1. Len(s) + 1 \in 1..Len(Append(s, e))
    BY <1>1
  <2> QED BY <1>1, <2>1 DEF InEntries
<1> QED BY <1>2, <1>3, <1>4

\* A link is followed exactly if it leads somewhere new.
LEMMA InOpenLink ==
    ASSUME NEW x, NEW y, NEW relation
    PROVE  InEntries(OpenLink(x, y, relation)) = {y} \ (visited \cup {x, NoException})
<1>1. CASE y \in visited \cup {x, NoException}
  <2>1. OpenLink(x, y, relation) = <<>>
    BY <1>1 DEF OpenLink
  <2>2. InEntries(<<>>) = {}
    BY DEF InEntries
  <2> QED BY <1>1, <2>1, <2>2
<1>2. CASE y \notin visited \cup {x, NoException}
  <2>1. PICK e : e = [exc |-> y, relation |-> relation]
    OBVIOUS
  <2>2. OpenLink(x, y, relation) = <<e>>
    BY <1>2, <2>1 DEF OpenLink
  <2>3. InEntries(<<e>>) = {e.exc}
    BY DEF InEntries
  <2>4. e.exc = y
    BY <2>1
  <2> QED BY <1>2, <2>2, <2>3, <2>4
<1> QED BY <1>1, <1>2

\* What a turn that records x does to what is recorded and what is pending.
LEMMA RecordStep ==
    ASSUME Hands, Record, NEW x, x = Head(queue).exc
    PROVE  /\ x \in Exceptions /\ x \notin visited
           /\ Pending = {x} \cup InEntries(Tail(queue))
           /\ Pending' = InEntries(Tail(queue))
                 \cup ({link.cause[x], link.context[x]} \ (visited \cup {x, NoException}))
           /\ visited' = visited \cup {x}
           /\ Recorded' = Recorded \cup {x}
           /\ Len(chain') = Len(chain) + 1
           /\ \A k \in 1..Len(chain) : chain'[k] = chain[k]
           /\ chain'[Len(chain) + 1].exc = x
           /\ UNCHANGED <<link, raised, truncated>>
<1>1. /\ link \in LinkRecords /\ queue \in Seq(Link) /\ queue # <<>> /\ chain \in Seq(Entry)
  BY DEF Hands, TypeOK, WalkTypeOK, LinkRecords, Record, Building
<1>2. Head(queue) \in Link /\ Tail(queue) \in Seq(Link)
  BY <1>1, HeadTailProperties
<1>3. x \in Exceptions /\ Head(queue).relation \in Relations
  BY <1>2 DEF Link
<1>4. /\ link.cause[x] \in Exceptions \cup {NoException}
      /\ link.context[x] \in Exceptions \cup {NoException}
  BY <1>1, <1>3 DEF LinkRecords, Links
<1>5. Pending = {x} \cup InEntries(Tail(queue))
  BY <1>1, InHeadAndTail DEF Pending
<1>6. PICK s \in Seq(Link) : s = OpenLink(x, link.cause[x], "cause")
  BY <1>4, OpenLinkType DEF Relations
<1>7. PICK t \in Seq(Link) : t = OpenLink(x, link.context[x], "context")
  BY <1>4, OpenLinkType DEF Relations
<1>8. queue' = Tail(queue) \o (s \o t)
  BY <1>6, <1>7 DEF Record, QueueAfter, OpenLinks
<1>9. InEntries(s) \cup InEntries(t)
      = {link.cause[x], link.context[x]} \ (visited \cup {x, NoException})
  <2>1. InEntries(s) = {link.cause[x]} \ (visited \cup {x, NoException})
    BY <1>6, InOpenLink
  <2>2. InEntries(t) = {link.context[x]} \ (visited \cup {x, NoException})
    BY <1>7, InOpenLink
  <2> QED BY <2>1, <2>2
<1>10. InEntries(queue') = InEntries(Tail(queue)) \cup (InEntries(s) \cup InEntries(t))
  <2>1. PICK u \in Seq(Link) : u = s \o t
    BY ConcatProperties
  <2>2. InEntries(u) = InEntries(s) \cup InEntries(t)
    BY <2>1, InParts
  <2>3. PICK q \in Seq(Link) : q = Tail(queue)
    BY <1>2
  <2>4. InEntries(q \o u) = InEntries(q) \cup InEntries(u)
    BY InParts
  <2> QED BY <1>8, <2>1, <2>2, <2>3, <2>4
<1>11. PICK e : e = [exc |-> x, relation |-> Head(queue).relation, message |-> SafeMessage(x)]
  OBVIOUS
<1>12. e \in Entry /\ e.exc = x
  BY <1>3, <1>11 DEF Entry, SafeMessage
<1>13. chain' = Append(chain, e)
  BY <1>11 DEF Record
<1>14. InEntries(chain') = InEntries(chain) \cup {x}
  BY <1>1, <1>12, <1>13, InAppended
<1>15. /\ Len(chain') = Len(chain) + 1
       /\ \A k \in 1..Len(chain) : chain'[k] = chain[k]
       /\ chain'[Len(chain) + 1].exc = x
  BY <1>1, <1>12, <1>13
<1>16. Recorded' = Recorded \cup {x}
  BY <1>14 DEF Recorded, InEntries
<1>17. Pending' = InEntries(queue')
  BY DEF Pending
<1>18. /\ x \notin visited
       /\ visited' = visited \cup {x}
       /\ UNCHANGED <<link, raised, truncated>>
  BY DEF Record, AlreadyRecorded
<1> QED BY <1>3, <1>5, <1>9, <1>10, <1>15, <1>16, <1>17, <1>18

\* Steps by what they do to the walk.
LEMMA KindsOfStep ==
    ASSUME Hands, [Next]_vars
    PROVE  \/ Report
           \/ Walk /\ UNCHANGED operation
           \/ UNCHANGED evidence /\ (raised = NoException \/ UNCHANGED <<link, operation>>)
<1>1. state # "over" => raised = NoException
  BY DEF Hands, ReportsComeLast
<1> QED
  BY <1>1 DEF Next, vars, IntentReturns, IntentFails, ApplicationRaises, RaiseAgain, Catch,
              LeaveHandler, FinaliseReturns, FinaliseFails, ExitUnchanged, ExitSwallowed,
              ExitDual, ExitForgotten, ExitAutomatic, Leave, InBlock

\* What the other two turns do.
LEMMA SkipStep ==
    ASSUME Hands, Skip
    PROVE  /\ Head(queue).exc \in visited
           /\ Pending = {Head(queue).exc} \cup Pending'
           /\ UNCHANGED <<link, raised, visited, chain, truncated>>
<1>1. queue \in Seq(Link) /\ queue # <<>>
  BY DEF Hands, TypeOK, WalkTypeOK, Skip, Building
<1>2. InEntries(queue) = {Head(queue).exc} \cup InEntries(Tail(queue))
  BY <1>1, InHeadAndTail
<1> QED BY <1>2 DEF Pending, Skip, AlreadyRecorded

LEMMA StopStep ==
    ASSUME Hands, StopAtCap
    PROVE  /\ Head(queue).exc \in Pending \ visited
           /\ queue' = <<>> /\ Pending' = {} /\ truncated' = TRUE
           /\ UNCHANGED <<link, raised, visited, chain>>
<1>1. queue \in Seq(Link) /\ queue # <<>>
  BY DEF Hands, TypeOK, WalkTypeOK, StopAtCap, Building
<1>2. InEntries(queue) = {Head(queue).exc} \cup InEntries(Tail(queue))
  BY <1>1, InHeadAndTail
<1>3. InEntries(<<>>) = {}
  BY DEF InEntries
<1> QED BY <1>2, <1>3 DEF Pending, StopAtCap, AlreadyRecorded

\* What the report does.
LEMMA ReportStep ==
    ASSUME Hands, Report
    PROVE  /\ raised = NoException /\ raised' \in Exceptions /\ raised' = flight
           /\ visited' = {} /\ chain' = <<>> /\ truncated' = FALSE
           /\ queue' = <<[exc |-> raised', relation |-> "none"]>>
           /\ Pending' = {raised'}
           /\ UNCHANGED <<link, operation>>
<1>1. /\ raised = NoException /\ raised' = flight
      /\ queue' = <<[exc |-> flight, relation |-> "none"]>>
      /\ flight # NoException
      /\ UNCHANGED <<visited, chain, truncated, link, operation>>
  BY DEF Report, StartWalk, NotBuilding
<1>2. visited = {} /\ chain = <<>> /\ truncated = FALSE
  BY <1>1 DEF Hands, ReportsComeLast, TypeOK, WalkTypeOK
<1>3. flight \in Exceptions
  BY <1>1 DEF Hands, TypeOK
<1>4. PICK e : e = [exc |-> flight, relation |-> "none"]
  OBVIOUS
<1>5. InEntries(<<e>>) = {e.exc}
  BY DEF InEntries
<1>6. e.exc = flight
  BY <1>4
<1>7. Pending' = {flight}
  BY <1>1, <1>4, <1>5, <1>6 DEF Pending
<1> QED BY <1>1, <1>2, <1>3, <1>7

LEMMA SameReachable ==
    UNCHANGED <<link, raised>> => Reachable' = Reachable /\ \A S : Linked(S)' = Linked(S)
BY DEF Reachable, Linked

LEMMA InitWalkIsSound == Init => WalkIsSound /\ WalkIsComplete
<1> SUFFICES ASSUME Init PROVE WalkIsSound /\ WalkIsComplete
  OBVIOUS
<1>1. raised = NoException /\ visited = {} /\ chain = <<>>
  BY DEF Init, InitWalk
<1>2. Recorded = {} /\ Len(chain) = 0
  BY <1>1 DEF Recorded
<1> QED BY <1>1, <1>2 DEF WalkIsSound, WalkIsComplete

LEMMA StepWalkIsSound == Hands /\ WalkIsSound /\ [Next]_vars => WalkIsSound'
<1> SUFFICES ASSUME Hands, WalkIsSound, [Next]_vars PROVE WalkIsSound'
  OBVIOUS
<1>1. CASE Report
  <2>1. Recorded' = {} /\ Len(chain') = 0
    BY <1>1, ReportStep DEF Recorded
  <2>2. raised' \in Reachable'
    BY <1>1, ReportStep DEF Reachable
  <2>3. visited' \cup Pending' = {raised'}
    BY <1>1, ReportStep
  <2>4. visited' = Recorded'
    BY <1>1, <2>1, ReportStep
  <2> QED BY <2>1, <2>2, <2>3, <2>4 DEF WalkIsSound
<1>2. CASE Skip
  <2>1. /\ UNCHANGED <<link, raised, visited, chain>>
        /\ Pending' \subseteq Pending
    BY <1>2, SkipStep
  <2>2. Reachable' = Reachable
    BY <2>1, SameReachable
  <2> QED BY <2>1, <2>2 DEF WalkIsSound, Recorded
<1>3. CASE StopAtCap
  <2>1. /\ UNCHANGED <<link, raised, visited, chain>>
        /\ Pending' \subseteq Pending
    BY <1>3, StopStep
  <2>2. Reachable' = Reachable
    BY <2>1, SameReachable
  <2> QED BY <2>1, <2>2 DEF WalkIsSound, Recorded
<1>4. CASE Record
  <2>1. PICK x : x = Head(queue).exc
    OBVIOUS
  <2>2. /\ x \in Exceptions /\ x \notin visited
        /\ Pending = {x} \cup InEntries(Tail(queue))
        /\ Pending' = InEntries(Tail(queue))
              \cup ({link.cause[x], link.context[x]} \ (visited \cup {x, NoException}))
        /\ visited' = visited \cup {x}
        /\ Recorded' = Recorded \cup {x}
        /\ Len(chain') = Len(chain) + 1
        /\ \A k \in 1..Len(chain) : chain'[k] = chain[k]
        /\ chain'[Len(chain) + 1].exc = x
        /\ UNCHANGED <<link, raised, truncated>>
    BY <1>4, <2>1, RecordStep
  <2>3. raised # NoException /\ raised \in Exceptions
    BY <1>4 DEF Record, Building, Hands, TypeOK, WalkTypeOK
  <2>4. visited \cup Pending \subseteq Reachable
    BY <2>3 DEF WalkIsSound
  <2>5. Linked(Reachable) \subseteq Reachable /\ x \in Reachable
    BY <2>2, <2>3, <2>4, Reaching
  <2>6. {link.cause[x], link.context[x]} \ {NoException} \subseteq Linked(Reachable)
    <3>1. link.cause[x] \in Exceptions \cup {NoException}
          /\ link.context[x] \in Exceptions \cup {NoException}
      BY <2>2 DEF Hands, TypeOK, WalkTypeOK, Links
    <3> QED BY <2>5, <3>1 DEF Linked
  <2>7. visited' \cup Pending' \subseteq Reachable
    BY <2>2, <2>4, <2>5, <2>6
  <2>8. Reachable' = Reachable
    BY <2>2, SameReachable
  <2>9. visited' = Recorded'
    BY <2>2 DEF WalkIsSound
  <2>10. ASSUME NEW j \in 1..Len(chain'), NEW k \in 1..Len(chain'), chain'[j].exc = chain'[k].exc
         PROVE  j = k
    <3>1. Len(chain) \in Nat
      BY DEF Hands, TypeOK, WalkTypeOK
    <3>2. \A i \in 1..Len(chain) : chain'[i].exc \in visited
      BY <2>2 DEF WalkIsSound, Recorded
    <3>3. \A i \in 1..Len(chain') : i \in 1..Len(chain) \/ i = Len(chain) + 1
      BY <2>2, <3>1
    <3>4. CASE j \in 1..Len(chain) /\ k \in 1..Len(chain)
      BY <2>2, <2>10, <3>4 DEF WalkIsSound
    <3>5. CASE ~(j \in 1..Len(chain) /\ k \in 1..Len(chain))
      BY <2>2, <2>10, <3>2, <3>3, <3>5
    <3> QED BY <3>4, <3>5
  <2> QED BY <2>7, <2>8, <2>9, <2>10 DEF WalkIsSound
<1>5. CASE UNCHANGED evidence /\ (raised = NoException \/ UNCHANGED <<link, operation>>)
  <2>1. UNCHANGED <<raised, queue, visited, chain, truncated>>
    BY <1>5 DEF evidence
  <2>2. raised # NoException => Reachable' = Reachable
    BY <1>5, <2>1, SameReachable
  <2> QED BY <2>1, <2>2 DEF WalkIsSound, Recorded, Pending
<1> QED BY <1>1, <1>2, <1>3, <1>4, <1>5, KindsOfStep DEF Walk

LEMMA StepWalkIsComplete ==
    Hands /\ WalkIsSound /\ WalkIsComplete /\ [Next]_vars => WalkIsComplete'
<1> SUFFICES ASSUME Hands, WalkIsSound, WalkIsComplete, [Next]_vars PROVE WalkIsComplete'
  OBVIOUS
<1>1. CASE Report
  <2>1. visited' = {} /\ Pending' = {raised'} /\ truncated' = FALSE
    BY <1>1, ReportStep
  <2>2. Linked(visited)' = {}
    BY <2>1 DEF Linked
  <2> QED BY <2>1, <2>2 DEF WalkIsComplete
<1>2. ASSUME Building
      PROVE  /\ raised # NoException /\ raised \in Exceptions /\ ~truncated
             /\ raised \in visited \cup Pending
             /\ Linked(visited) \subseteq visited \cup Pending
  BY <1>2 DEF Building, WalkIsComplete, Hands, TypeOK, WalkTypeOK
<1>3. CASE Skip
  <2>1. /\ UNCHANGED <<link, raised, visited, truncated>>
        /\ visited \cup Pending = visited \cup Pending'
    BY <1>3, SkipStep
  <2>2. Linked(visited)' = Linked(visited)
    BY <2>1 DEF Linked
  <2>3. Building
    BY <1>3 DEF Skip
  <2> QED BY <1>2, <2>1, <2>2, <2>3 DEF WalkIsComplete
<1>4. CASE StopAtCap
  <2>1. /\ UNCHANGED <<link, raised, visited>>
        /\ queue' = <<>> /\ truncated' = TRUE
        /\ Head(queue).exc \in Pending \ visited
    BY <1>4, StopStep
  <2>2. Building
    BY <1>4 DEF StopAtCap
  <2>3. Head(queue).exc \in Reachable \ visited
    BY <1>2, <2>1, <2>2 DEF WalkIsSound
  <2>4. Reachable' = Reachable
    BY <2>1, SameReachable
  <2>5. Reachable' \ visited' # {}
    BY <2>1, <2>3, <2>4
  <2> QED BY <2>1, <2>5 DEF WalkIsComplete
<1>5. CASE Record
  <2>1. PICK x : x = Head(queue).exc
    OBVIOUS
  <2>2. /\ x \in Exceptions /\ x \notin visited
        /\ Pending = {x} \cup InEntries(Tail(queue))
        /\ Pending' = InEntries(Tail(queue))
              \cup ({link.cause[x], link.context[x]} \ (visited \cup {x, NoException}))
        /\ visited' = visited \cup {x}
        /\ UNCHANGED <<link, raised, truncated>>
    BY <1>5, <2>1, RecordStep
  <2>3. Building
    BY <1>5 DEF Record
  <2>4. Linked(visited \cup {x})
        \subseteq Linked(visited) \cup ({link.cause[x], link.context[x]} \ {NoException})
    BY WalkAssumption DEF Linked
  <2>5. Linked(visited)' = Linked(visited \cup {x})
    BY <2>2 DEF Linked
  <2>6. Linked(visited)' \subseteq visited' \cup Pending'
    BY <1>2, <2>2, <2>3, <2>4, <2>5
  <2>7. raised' \in visited' \cup Pending'
    BY <1>2, <2>2, <2>3
  <2> QED BY <1>2, <2>2, <2>3, <2>6, <2>7 DEF WalkIsComplete
<1>6. CASE UNCHANGED evidence /\ (raised = NoException \/ UNCHANGED <<link, operation>>)
  <2>1. UNCHANGED <<raised, queue, visited, chain, truncated>>
    BY <1>6 DEF evidence
  <2>2. raised # NoException => UNCHANGED link
    BY <1>6
  <2>3. raised # NoException => Reachable' = Reachable /\ Linked(visited)' = Linked(visited)
    BY <2>1, <2>2 DEF Reachable, Linked
  <2> QED BY <2>1, <2>3 DEF WalkIsComplete, Pending
<1> QED BY <1>1, <1>3, <1>4, <1>5, <1>6, KindsOfStep DEF Walk

LEMMA SpecWalk == Spec => [](Hands /\ WalkIsSound /\ WalkIsComplete)
<1>1. Init => Hands /\ WalkIsSound /\ WalkIsComplete
  BY InitHands, InitWalkIsSound
<1>2. Hands /\ WalkIsSound /\ WalkIsComplete /\ [Next]_vars
      => (Hands /\ WalkIsSound /\ WalkIsComplete)'
  BY StepHands, StepWalkIsSound, StepWalkIsComplete
<1> QED BY <1>1, <1>2, PTL DEF Spec

\* The sink's own exception, once normalized, is in no evidence, wherever the failure
\* happened and whatever was caught and raised around it: for any exceptions, linked in any
\* way before, and any number of raises.
THEOREM OriginalNeverRecorded == Spec => []OriginalStaysOffChain
<1>1. Hands /\ WalkIsSound /\ OffChain => OriginalStaysOffChain
  <2> SUFFICES ASSUME Hands, WalkIsSound, OffChain, sinkFailure # NoException
               PROVE  sinkFailure \notin Recorded
    BY DEF OriginalStaysOffChain
  <2>1. sinkFailure = Original
    BY DEF Hands, TypeOK
  <2>2. CASE raised = NoException
    BY <2>2 DEF Hands, ReportsComeLast, Recorded
  <2>3. CASE raised # NoException
    <3>1. raised \in Exceptions \ {Original}
      BY <2>3 DEF Hands, TypeOK, WalkTypeOK, InHand
    <3>2. Linked(Exceptions \ {Original}) \subseteq Exceptions \ {Original}
      BY DEF OffChain, Unlinked, Linked
    <3>3. Reachable \subseteq Exceptions \ {Original}
      <4>1. PICK S \in SUBSET Exceptions : S = Exceptions \ {Original}
        OBVIOUS
      <4>2. raised \in S /\ Linked(S) \subseteq S
        BY <3>1, <3>2, <4>1
      <4> QED BY <3>1, <4>1, <4>2, Reaching
    <3>4. Recorded \subseteq Reachable
      BY <2>3 DEF WalkIsSound
    <3> QED BY <2>1, <3>3, <3>4
  <2> QED BY <2>2, <2>3
<1> QED BY <1>1, SpecWalk, SpecOffChain, PTL

\* What the walk tells when it is over.
LEMMA BuiltEvidence ==
    ASSUME Hands, WalkIsSound, WalkIsComplete, Built
    PROVE  /\ raised \in Exceptions
           /\ visited = Recorded
           /\ Recorded \subseteq Reachable
           /\ truncated => Reachable \ Recorded # {}
           /\ ~truncated => raised \in Recorded /\ Linked(Recorded) \subseteq Recorded
<1>1. raised \in Exceptions /\ raised # NoException /\ queue = <<>>
  BY DEF Built, Hands, TypeOK, WalkTypeOK
<1>2. Pending = {}
  BY <1>1 DEF Pending, InEntries
<1>3. visited = Recorded /\ visited \subseteq Reachable
  BY <1>1 DEF WalkIsSound
<1> QED BY <1>1, <1>2, <1>3 DEF WalkIsComplete

\* Evidence says that it is truncated if and only if something linked to the failure is
\* missing from it, for any links, cycles among them, and any cap.
THEOREM TruncationIsHonest == Spec => []TruncatedMeansMissing
<1>1. Hands /\ WalkIsSound /\ WalkIsComplete => TruncatedMeansMissing
  <2> SUFFICES ASSUME Hands, WalkIsSound, WalkIsComplete, Built
               PROVE  truncated <=> Reachable # Recorded
    BY DEF TruncatedMeansMissing
  <2>1. ~truncated => Reachable \subseteq Recorded
    <3>1. visited \subseteq Exceptions
      BY DEF Hands, TypeOK, WalkTypeOK
    <3> QED BY <3>1, BuiltEvidence, Reaching
  <2> QED BY <2>1, BuiltEvidence
<1> QED BY <1>1, SpecWalk, PTL

--------------------------------------------------------------------------------
(* The exception that left the block. *)

LEMMA InitBodyBehind == Init => BodyBehind
<1>1. Finalisation # NoException
  BY Objects, Whereabouts
<1> QED BY <1>1 DEF Init, BodyBehind

LEMMA StepBodyBehind == Hands /\ BodyBehind /\ [Next]_vars => BodyBehind'
<1> SUFFICES ASSUME Hands, BodyBehind, [Next]_vars PROVE BodyBehind'
  OBVIOUS
<1>0. /\ link \in LinkRecords
      /\ around \in Exceptions \cup {NoException} /\ around # Original
      /\ handler \in Exceptions \cup {NoException} /\ handler # Original
      /\ flight \in Exceptions \cup {NoException} /\ flight # Original
      /\ stored \in Others \cup {Normalized, NoException}
      /\ (state = "failed" => stored # NoException)
      /\ (state # "over" => flight # Finalisation)
      /\ (state = "open" => flight # Normalized)
      /\ InHand'
  <2>1. Hands'
    BY StepHands
  <2> QED BY <2>1, Whereabouts DEF Hands, TypeOK, WalkTypeOK, LinkRecords, InHand
<1>w. /\ Others \subseteq Exceptions
      /\ Original \in Exceptions /\ Normalized \in Exceptions
      /\ Finalisation \in Exceptions /\ Usage \in Exceptions
      /\ NoException \notin Exceptions
      /\ Original \notin Others /\ Normalized \notin Others /\ Finalisation \notin Others
      /\ Original # Finalisation /\ Finalisation # Usage /\ Normalized # Finalisation
  BY Objects, Whereabouts
<1>1. ASSUME state' # "over" PROVE BodyBehind'
  BY <1>0, <1>1 DEF InHand, BodyBehind
<1>2. CASE IntentReturns \/ RaiseAgain \/ Catch \/ LeaveHandler \/ ApplicationRaises
           \/ FinaliseReturns \/ FinaliseFails
  <2>1. state' # "over"
    BY <1>2 DEF IntentReturns, RaiseAgain, Catch, LeaveHandler, ApplicationRaises,
                FinaliseReturns, FinaliseFails, InBlock
  <2> QED BY <1>1, <2>1
<1>3. CASE Report \/ (Walk /\ UNCHANGED operation) \/ UNCHANGED vars
  <2>1. UNCHANGED <<link, flight, body, stored>>
    BY <1>3 DEF Report, Walk, Skip, StopAtCap, Record, operation, vars
  <2> QED BY <2>1 DEF BodyBehind, Behind, NextToNormalized
<1>4. CASE IntentFails
  <2>1. PICK f \in Failures : flight' = Failed(f.original, f.inner, around).exc
    BY <1>4 DEF IntentFails
  <2>2. flight' # Finalisation
    BY <1>0, <2>1, FailureInHand
  <2> QED BY <2>2 DEF BodyBehind
<1>5. CASE ExitUnchanged \/ ExitSwallowed \/ ExitForgotten
  <2>1. flight' # Finalisation
    BY <1>0, <1>w, <1>5 DEF ExitUnchanged, ExitSwallowed, ExitForgotten, Leave, InBlock
  <2> QED BY <2>1 DEF BodyBehind
<1>6. CASE ExitDual
  <2>1. /\ state = "failed" /\ flight \notin {NoException, stored}
        /\ link' = FinalisationRaised(link, stored, flight)
        /\ body' = flight /\ stored' = stored
    BY <1>6 DEF ExitDual, Leave
  <2>2. stored \in Exceptions /\ flight \in Exceptions /\ flight # Finalisation
    BY <1>0, <1>w, <2>1
  <2>3. /\ link'.context[Finalisation] = body'
        /\ stored' = Normalized => link'.cause[Finalisation] = Normalized
    BY <1>0, <2>1, <2>2, FinalisationRaisedLinks
  <2>4. stored' = Normalized => body' # Normalized
    BY <2>1
  <2> QED BY <2>1, <2>2, <2>3, <2>4 DEF BodyBehind, Behind, NextToNormalized
<1>7. CASE ExitAutomatic
  <2>1. state = "open" /\ flight \in Exceptions \ {Finalisation, Original, Normalized}
    BY <1>0, <1>7 DEF ExitAutomatic, Leave
  <2>2. CASE UNCHANGED <<link, flight, stored, sinkFailure, body>>
    BY <2>1, <2>2 DEF BodyBehind
  <2>3. CASE ~UNCHANGED <<link, flight, stored, sinkFailure, body>>
    <3>1. PICK f \in Failures :
            LET failed == Failed(f.original, f.inner, flight)
            IN  /\ stored' = failed.exc
                /\ \/ /\ link' = FinalisationRaised(failed.link, failed.exc, failed.exc)
                      /\ flight' = Finalisation
                      /\ body' = flight
                   \/ /\ link' = failed.link
                      /\ flight' = failed.exc
      BY <1>7, <2>3 DEF ExitAutomatic
    <3>2. PICK failed : failed = Failed(f.original, f.inner, flight)
      OBVIOUS
    <3>3. /\ failed.link \in LinkRecords
          /\ failed.exc \in Exceptions \ {Finalisation}
      BY <1>0, <1>w, <3>2, FailureInHand
    <3>4. /\ failed.exc = Normalized =>
                failed.link.cause[Normalized] = NoException
                /\ failed.link.context[Normalized] = flight
          /\ failed.exc # Normalized =>
                \/ failed.exc = flight
                \/ failed.link.context[failed.exc] = flight
                \/ \E i \in Others \cup {Original} :
                      /\ failed.link.context[failed.exc] = i
                      /\ i = flight \/ failed.link.context[i] = flight
      BY <1>0, <1>w, <2>1, <3>2, FailedLinks
    <3>5. CASE flight' = failed.exc
      BY <3>3, <3>5 DEF BodyBehind
    <3>6. CASE flight' # failed.exc
      <4>1. PICK m : m = FinalisationRaised(failed.link, failed.exc, failed.exc)
        OBVIOUS
      <4>2. /\ failed.exc = Normalized => m.cause[Finalisation] = Normalized
            /\ m.context[Finalisation] = failed.exc
            /\ \A y \in Exceptions \ {Finalisation} :
                  /\ m.cause[y] = failed.link.cause[y]
                  /\ failed.link.context[y] # Finalisation =>
                        m.context[y] = failed.link.context[y]
        <5>1. PICK l \in LinkRecords, e \in Exceptions \ {Finalisation} :
                 l = failed.link /\ e = failed.exc
          BY <3>3
        <5>2. m = FinalisationRaised(l, e, e)
          BY <4>1, <5>1
        <5>3. /\ e = Normalized => m.cause[Finalisation] = Normalized
              /\ m.context[Finalisation] = e
              /\ \A y \in Exceptions \ {Finalisation} :
                    /\ m.cause[y] = l.cause[y]
                    /\ l.context[y] # Finalisation => m.context[y] = l.context[y]
          BY <5>2, FinalisationRaisedLinks
        <5> QED BY <5>1, <5>3
      <4>3. link' = m /\ body' = flight /\ stored' = failed.exc
        BY <3>1, <3>2, <3>6, <4>1
      <4>4. CASE failed.exc = Normalized
        <5>1. m.context[Normalized] = flight /\ m.cause[Normalized] = NoException
          BY <1>w, <2>1, <3>4, <4>2, <4>4
        <5>2. NextToNormalized'
          BY <2>1, <4>2, <4>3, <4>4, <5>1 DEF NextToNormalized
        <5>3. Behind(m, Finalisation, flight)
          BY <1>w, <4>2, <4>4, <5>1 DEF Behind
        <5> QED BY <2>1, <4>3, <5>2, <5>3 DEF BodyBehind
      <4>5. CASE failed.exc # Normalized
        <5>1. \/ failed.exc = flight
              \/ m.context[failed.exc] = flight
              \/ \E i \in Others \cup {Original} :
                    /\ m.context[failed.exc] = i
                    /\ i = flight \/ m.context[i] = flight
          BY <1>w, <2>1, <3>3, <3>4, <4>2, <4>5
        <5>2. Behind(m, Finalisation, flight)
          BY <1>w, <3>3, <4>2, <5>1 DEF Behind
        <5> QED BY <2>1, <4>3, <4>5, <5>2 DEF BodyBehind
      <4> QED BY <4>4, <4>5
    <3> QED BY <3>5, <3>6
  <2> QED BY <2>2, <2>3
<1> QED BY <1>2, <1>3, <1>4, <1>5, <1>6, <1>7 DEF Next

LEMMA SpecBodyBehind == Spec => []BodyBehind
<1>1. Init => BodyBehind
  BY InitBodyBehind
<1>2. Hands /\ BodyBehind /\ [Next]_vars => BodyBehind'
  BY StepBodyBehind
<1> QED BY <1>1, <1>2, SpecHands, PTL DEF Spec

\* The queue behind a turn that records x, entry by entry.
LEMMA QueueStep ==
    ASSUME Hands, Record, NEW x, x = Head(queue).exc
    PROVE  /\ Len(queue) \in Nat \ {0}
           /\ x = queue[1].exc
           /\ \E s, t \in Seq(Link) :
                 /\ IF link.cause[x] \in visited \cup {x, NoException}
                    THEN Len(s) = 0
                    ELSE Len(s) = 1 /\ s[1].exc = link.cause[x]
                 /\ IF link.context[x] \in visited \cup {x, NoException}
                    THEN Len(t) = 0
                    ELSE Len(t) = 1 /\ t[1].exc = link.context[x]
                 /\ Len(queue') = (Len(queue) - 1) + (Len(s) + Len(t))
                 /\ \A k \in 1..Len(queue') :
                       queue'[k] = IF k < Len(queue) THEN queue[k + 1]
                                   ELSE IF k < Len(queue) + Len(s)
                                   THEN s[k - (Len(queue) - 1)]
                                   ELSE t[k - (Len(queue) - 1) - Len(s)]
<1>1. /\ link \in LinkRecords /\ queue \in Seq(Link) /\ queue # <<>>
  BY DEF Hands, TypeOK, WalkTypeOK, LinkRecords, Record, Building
<1>2. /\ Len(queue) \in Nat \ {0}
      /\ Head(queue) = queue[1]
      /\ Head(queue) \in Link
      /\ Tail(queue) \in Seq(Link)
      /\ Len(Tail(queue)) = Len(queue) - 1
      /\ \A k \in 1..Len(Tail(queue)) : Tail(queue)[k] = queue[k + 1]
  BY <1>1, HeadTailProperties, EmptySeq
<1>3. x \in Exceptions
  BY <1>2 DEF Link
<1>4. /\ link.cause[x] \in Exceptions \cup {NoException}
      /\ link.context[x] \in Exceptions \cup {NoException}
  BY <1>1, <1>3 DEF LinkRecords, Links
<1>5. PICK s \in Seq(Link) : s = OpenLink(x, link.cause[x], "cause")
  BY <1>4, OpenLinkType DEF Relations
<1>6. PICK t \in Seq(Link) : t = OpenLink(x, link.context[x], "context")
  BY <1>4, OpenLinkType DEF Relations
<1>7. IF link.cause[x] \in visited \cup {x, NoException}
      THEN Len(s) = 0 ELSE Len(s) = 1 /\ s[1].exc = link.cause[x]
  BY <1>5 DEF OpenLink
<1>8. IF link.context[x] \in visited \cup {x, NoException}
      THEN Len(t) = 0 ELSE Len(t) = 1 /\ t[1].exc = link.context[x]
  BY <1>6 DEF OpenLink
<1>9. PICK u \in Seq(Link) : u = s \o t
  BY ConcatProperties
<1>10. PICK q \in Seq(Link) : q = Tail(queue)
  BY <1>2
<1>11. queue' = q \o u
  BY <1>5, <1>6, <1>9, <1>10 DEF Record, QueueAfter, OpenLinks
<1>12. /\ Len(s) \in Nat /\ Len(t) \in Nat
       /\ Len(u) = Len(s) + Len(t)
       /\ \A k \in 1..Len(s) + Len(t) : u[k] = IF k <= Len(s) THEN s[k] ELSE t[k - Len(s)]
  BY <1>9, ConcatProperties, LenProperties
<1>13. /\ Len(queue') = Len(q) + Len(u)
       /\ \A k \in 1..Len(q) + Len(u) : queue'[k] = IF k <= Len(q) THEN q[k] ELSE u[k - Len(q)]
  BY <1>11, ConcatProperties
<1>14. Len(queue') = (Len(queue) - 1) + (Len(s) + Len(t))
  BY <1>2, <1>10, <1>12, <1>13
<1>15. ASSUME NEW k \in 1..Len(queue')
       PROVE  queue'[k] = IF k < Len(queue) THEN queue[k + 1]
                          ELSE IF k < Len(queue) + Len(s) THEN s[k - (Len(queue) - 1)]
                          ELSE t[k - (Len(queue) - 1) - Len(s)]
  <2>1. CASE k < Len(queue)
    <3>1. k \in 1..Len(q) /\ q[k] = queue[k + 1]
      BY <1>2, <1>10, <2>1
    <3>2. queue'[k] = q[k]
      BY <1>12, <1>13, <3>1
    <3> QED BY <2>1, <3>1, <3>2
  <2>2. CASE ~(k < Len(queue))
    <3>1. k - (Len(queue) - 1) \in 1..Len(s) + Len(t)
      BY <1>2, <1>12, <1>14, <2>2
    <3>2. queue'[k] = u[k - (Len(queue) - 1)]
      BY <1>2, <1>10, <1>12, <1>13, <2>2
    <3>3. u[k - (Len(queue) - 1)] = IF k - (Len(queue) - 1) <= Len(s)
                                    THEN s[k - (Len(queue) - 1)]
                                    ELSE t[k - (Len(queue) - 1) - Len(s)]
      BY <1>12, <3>1
    <3>4. k - (Len(queue) - 1) <= Len(s) <=> k < Len(queue) + Len(s)
      BY <1>2, <1>12
    <3> QED BY <2>2, <3>2, <3>3, <3>4
  <2> QED BY <2>1, <2>2
<1> QED BY <1>2, <1>7, <1>8, <1>14, <1>15

LEMMA StepFirstTurns ==
    ASSUME MAX_CHAIN_DEPTH >= 3
    PROVE  Hands /\ BodyBehind /\ FirstTurns /\ [Next]_vars => FirstTurns'
<1> SUFFICES ASSUME Hands, BodyBehind, FirstTurns, [Next]_vars,
                    raised' = Finalisation, stored' = Normalized
             PROVE  FirstTurns'
  BY DEF FirstTurns
<1>0. /\ Finalisation \in Exceptions /\ Normalized \in Exceptions
      /\ NoException \notin Exceptions /\ Finalisation # Normalized
  BY Objects, Whereabouts
<1>1. CASE Report
  <2>1. /\ visited' = {} /\ chain' = <<>> /\ truncated' = FALSE
        /\ queue' = <<[exc |-> raised', relation |-> "none"]>>
    BY <1>1, ReportStep
  <2>2. Len(queue') = 1 /\ queue'[1].exc = Finalisation
    BY <2>1
  <2> QED BY <2>1, <2>2 DEF FirstTurns
<1>2. CASE UNCHANGED evidence /\ (raised = NoException \/ UNCHANGED <<link, operation>>)
  <2>1. UNCHANGED <<raised, queue, visited, chain, truncated>>
    BY <1>2 DEF evidence
  <2>2. UNCHANGED <<link, stored, body>>
    BY <1>0, <1>2, <2>1 DEF operation
  <2> QED BY <2>1, <2>2 DEF FirstTurns, FoundAgain, FoundBehind
<1>3. CASE Walk /\ UNCHANGED operation
  <2>1. /\ UNCHANGED <<link, raised, stored, body, flight>>
        /\ raised = Finalisation /\ stored = Normalized
    BY <1>3 DEF Walk, Skip, StopAtCap, Record, operation
  <2>2. /\ flight = Finalisation
        /\ body \in Exceptions \ {Finalisation, Normalized}
        /\ NextToNormalized
    BY <1>0, <2>1 DEF Hands, ReportsComeLast, BodyBehind, NextToNormalized
  <2>3. /\ queue \in Seq(Link) /\ queue # <<>> /\ Head(queue) = queue[1]
        /\ Len(queue) \in Nat \ {0}
        /\ chain \in Seq(Entry) /\ Len(chain) \in Nat
        /\ Len(Tail(queue)) = Len(queue) - 1
        /\ \A k \in 1..Len(Tail(queue)) : Tail(queue)[k] = queue[k + 1]
    <3>1. queue \in Seq(Link) /\ queue # <<>> /\ chain \in Seq(Entry)
      BY <1>3 DEF Walk, Skip, StopAtCap, Record, Building, Hands, TypeOK, WalkTypeOK
    <3> QED BY <3>1, HeadTailProperties, EmptySeq, LenProperties
  <2>4. PICK x : x = Head(queue).exc
    OBVIOUS
  <2>5. x = queue[1].exc
    BY <2>3, <2>4
  <2>6. ASSUME Record
        PROVE  /\ x \notin visited /\ visited' = visited \cup {x}
               /\ Len(chain') = Len(chain) + 1
               /\ \A k \in 1..Len(chain) : chain'[k] = chain[k]
               /\ chain'[Len(chain) + 1].exc = x
               /\ truncated' = truncated
    BY <2>4, <2>6, RecordStep
  <2>7. CASE chain = <<>> /\ visited = {} /\ ~truncated
             /\ Len(queue) = 1 /\ queue[1].exc = Finalisation
    <3>1. Record
      <4>1. Len(chain) = 0
        BY <2>7
      <4>2. ~AtCap
        BY <4>1, WalkAssumption DEF AtCap
      <4> QED BY <1>3, <2>5, <2>4, <2>7, <4>2 DEF Walk, Skip, StopAtCap, AlreadyRecorded
    <3>2. Len(chain') = 1 /\ visited' = {Finalisation} /\ ~truncated'
      BY <2>3, <2>5, <2>6, <2>7, <3>1
    <3>3. /\ link.cause[x] = Normalized
          /\ link.context[x] \in {body, Normalized}
      BY <2>2, <2>5, <2>7 DEF NextToNormalized
    <3>4. /\ link.cause[x] \notin visited \cup {x, NoException}
          /\ link.context[x] \notin visited \cup {x, NoException}
      BY <1>0, <2>2, <2>5, <2>7, <3>3
    <3>p. PICK s, t \in Seq(Link) :
            /\ IF link.cause[x] \in visited \cup {x, NoException}
               THEN Len(s) = 0
               ELSE Len(s) = 1 /\ s[1].exc = link.cause[x]
            /\ IF link.context[x] \in visited \cup {x, NoException}
               THEN Len(t) = 0
               ELSE Len(t) = 1 /\ t[1].exc = link.context[x]
            /\ Len(queue') = (Len(queue) - 1) + (Len(s) + Len(t))
            /\ \A k \in 1..Len(queue') :
                  queue'[k] = IF k < Len(queue) THEN queue[k + 1]
                              ELSE IF k < Len(queue) + Len(s) THEN s[k - (Len(queue) - 1)]
                              ELSE t[k - (Len(queue) - 1) - Len(s)]
      BY <2>4, <3>1, QueueStep
    <3>5. /\ Len(s) = 1 /\ s[1].exc = link.cause[x]
          /\ Len(t) = 1 /\ t[1].exc = link.context[x]
      BY <3>4, <3>p
    <3>6. Len(queue') = 2 /\ queue'[1] = s[1] /\ queue'[2] = t[1]
      BY <2>7, <3>p, <3>5
    <3>7. queue'[1].exc = Normalized /\ queue'[2].exc = link'.context[Finalisation]
      BY <2>1, <2>5, <2>7, <3>3, <3>5, <3>6
    <3> QED BY <3>2, <3>6, <3>7 DEF FirstTurns
  <2>8. CASE Len(chain) = 1 /\ visited = {Finalisation} /\ ~truncated
             /\ Len(queue) = 2 /\ queue[1].exc = Normalized
             /\ queue[2].exc = link.context[Finalisation]
    <3>1. Record
      BY <1>0, <1>3, <2>4, <2>5, <2>8, WalkAssumption
         DEF Walk, Skip, StopAtCap, AlreadyRecorded, AtCap
    <3>2. Len(chain') = 2 /\ visited' = {Finalisation, Normalized} /\ ~truncated'
      BY <2>3, <2>5, <2>6, <2>8, <3>1
    <3>3. PICK s, t \in Seq(Link) :
            /\ IF link.cause[x] \in visited \cup {x, NoException}
               THEN Len(s) = 0
               ELSE Len(s) = 1 /\ s[1].exc = link.cause[x]
            /\ IF link.context[x] \in visited \cup {x, NoException}
               THEN Len(t) = 0
               ELSE Len(t) = 1 /\ t[1].exc = link.context[x]
            /\ Len(queue') = (Len(queue) - 1) + (Len(s) + Len(t))
            /\ \A k \in 1..Len(queue') :
                  queue'[k] = IF k < Len(queue) THEN queue[k + 1]
                              ELSE IF k < Len(queue) + Len(s) THEN s[k - (Len(queue) - 1)]
                              ELSE t[k - (Len(queue) - 1) - Len(s)]
      BY <2>4, <3>1, QueueStep
    <3>4. Len(s) \in Nat /\ Len(t) \in Nat
      BY LenProperties
    <3>5. Len(queue') >= 1 /\ queue'[1] = queue[2]
      <4>1. Len(queue) - 1 = 1 /\ Len(queue') = 1 + (Len(s) + Len(t))
        BY <2>8, <3>3
      <4>2. 1 \in 1..Len(queue')
        BY <3>4, <4>1
      <4>3. queue'[1] = IF 1 < Len(queue) THEN queue[1 + 1]
                        ELSE IF 1 < Len(queue) + Len(s) THEN s[1 - (Len(queue) - 1)]
                        ELSE t[1 - (Len(queue) - 1) - Len(s)]
        BY <3>3, <4>2
      <4> QED BY <2>8, <4>2, <4>3
    <3>6. CASE link.context[Finalisation] = body
      <4>1. FoundBehind'
        BY <2>1, <2>8, <3>2, <3>5, <3>6 DEF FoundBehind
      <4> QED BY <4>1 DEF FirstTurns
    <3>7. CASE link.context[Finalisation] # body
      <4>1. /\ link.context[Finalisation] = Normalized
            /\ link.cause[Normalized] = NoException
            /\ link.context[Normalized] = body
        BY <2>2, <3>7 DEF NextToNormalized
      <4>2. /\ link.cause[x] \in visited \cup {x, NoException}
            /\ link.context[x] \notin visited \cup {x, NoException}
        BY <1>0, <2>2, <2>5, <2>8, <4>1
      <4>3. Len(s) = 0 /\ Len(t) = 1 /\ t[1].exc = body
        BY <2>5, <2>8, <3>3, <4>1, <4>2
      <4>4. Len(queue') = 2 /\ queue'[2] = t[1]
        BY <2>8, <3>3, <4>3
      <4>5. queue'[1].exc = Normalized /\ queue'[2].exc = body'
        BY <2>1, <2>8, <3>5, <4>1, <4>3, <4>4
      <4>6. FoundAgain'
        BY <3>2, <4>4, <4>5 DEF FoundAgain
      <4> QED BY <4>6 DEF FirstTurns
    <3> QED BY <3>6, <3>7
  <2>9. CASE FoundAgain
    <3>0. Len(chain) = 2 /\ visited = {Finalisation, Normalized} /\ ~truncated
          /\ Len(queue) = 2 /\ queue[1].exc = Normalized /\ queue[2].exc = body
      BY <2>9 DEF FoundAgain
    <3>1. Skip
      BY <1>3, <2>4, <2>5, <3>0 DEF Walk, StopAtCap, Record, AlreadyRecorded
    <3>2. UNCHANGED <<visited, chain, truncated>> /\ queue' = Tail(queue)
      BY <3>1 DEF Skip
    <3>3. Len(queue') = 1 /\ queue'[1] = queue[2]
      <4>1. Len(Tail(queue)) = 1
        BY <2>3, <3>0
      <4>2. PICK n, u : n = Len(Tail(queue)) /\ u = Tail(queue)
        OBVIOUS
      <4>3. n = 1 /\ \A k \in 1..n : u[k] = queue[k + 1]
        BY <2>3, <4>1, <4>2
      <4>4. u[1] = queue[1 + 1]
        BY <4>3
      <4> QED BY <3>2, <4>1, <4>2, <4>4
    <3>4. FoundBehind'
      <4>1. Len(chain') = 2 /\ visited' = {Finalisation, Normalized} /\ ~truncated'
        BY <3>0, <3>2
      <4>2. Len(queue') >= 1 /\ queue'[1].exc = body'
        BY <2>1, <3>0, <3>3
      <4> QED BY <4>1, <4>2 DEF FoundBehind
    <3> QED BY <3>4 DEF FirstTurns
  <2>10. CASE FoundBehind
    <3>0. Len(chain) = 2 /\ visited = {Finalisation, Normalized} /\ ~truncated
          /\ Len(queue) >= 1 /\ queue[1].exc = body
      BY <2>10 DEF FoundBehind
    <3>1. Record
      BY <1>3, <2>2, <2>4, <2>5, <3>0, WalkAssumption
         DEF Walk, Skip, StopAtCap, AlreadyRecorded, AtCap
    <3>2. Len(chain') = 3 /\ chain'[3].exc = body
      BY <2>5, <2>6, <3>0, <3>1
    <3> QED BY <2>1, <3>2 DEF FirstTurns
  <2>11. CASE Len(chain) >= 3 /\ chain[3].exc = body
    <3>1. CASE Record
      <4>1. Len(chain') >= 3 /\ chain'[3] = chain[3]
        BY <2>3, <2>6, <2>11, <3>1
      <4> QED BY <2>1, <2>11, <4>1 DEF FirstTurns
    <3>2. CASE ~Record
      <4>1. chain' = chain
        BY <1>3, <3>2 DEF Walk, Skip, StopAtCap
      <4> QED BY <2>1, <2>11, <4>1 DEF FirstTurns
    <3> QED BY <3>1, <3>2
  <2> QED BY <2>1, <2>7, <2>8, <2>9, <2>10, <2>11 DEF FirstTurns
<1> QED BY <1>1, <1>2, <1>3, KindsOfStep

LEMMA SpecFirstTurns == ASSUME MAX_CHAIN_DEPTH >= 3 PROVE Spec => []FirstTurns
<1>1. Init => FirstTurns
  <2>1. Finalisation # NoException
    BY Objects, Whereabouts
  <2> QED BY <2>1 DEF Init, InitWalk, FirstTurns
<1>2. Hands /\ BodyBehind /\ FirstTurns /\ [Next]_vars => FirstTurns'
  BY StepFirstTurns
<1> QED BY <1>1, <1>2, SpecHands, SpecBodyBehind, PTL DEF Spec

\* Evidence of an AuditFinalisationError has the exception that left the block in it: among
\* the first three behind a normalized persistence failure, and hidden by nothing but the
\* cap behind any other.  The cap of the code is 10.
THEOREM BodyIsInEvidence == ASSUME MAX_CHAIN_DEPTH >= 3 PROVE Spec => []BodyIsLocated
<1>1. Hands /\ WalkIsSound /\ WalkIsComplete /\ BodyBehind /\ FirstTurns => BodyIsLocated
  <2> SUFFICES ASSUME Hands, WalkIsSound, WalkIsComplete, BodyBehind, FirstTurns,
                      Built, raised = Finalisation
               PROVE  \/ \E k \in 1..Len(chain) :
                            chain[k].exc = body /\ (stored = Normalized => k <= 3)
                      \/ truncated /\ stored # Normalized
    BY DEF BodyIsLocated
  <2>0. /\ Finalisation \in Exceptions /\ NoException \notin Exceptions
    BY Objects, Whereabouts
  <2>1. /\ flight = Finalisation /\ queue = <<>>
        /\ Len(chain) \in Nat
        /\ link \in LinkRecords
    BY <2>0 DEF Hands, ReportsComeLast, Built, TypeOK, WalkTypeOK, LinkRecords
  <2>2. CASE stored = Normalized
    <3>1. Len(chain) >= 3 /\ chain[3].exc = body
      BY <2>1, <2>2 DEF FirstTurns, FoundAgain, FoundBehind
    <3>2. 3 \in 1..Len(chain) /\ 3 <= 3
      BY <2>1, <3>1
    <3> QED BY <3>1, <3>2
  <2>3. CASE stored # Normalized /\ ~truncated
    <3>1. /\ Finalisation \in Recorded
          /\ Linked(Recorded) \subseteq Recorded
      BY <2>3, BuiltEvidence
    <3>2. ASSUME NEW y \in Recorded, link.context[y] \in Exceptions
          PROVE  link.context[y] \in Recorded
      BY <3>1, <3>2 DEF Linked
    <3>3. body \in Exceptions /\ Behind(link, Finalisation, body)
      BY <2>1 DEF BodyBehind
    <3>4. body \in Recorded
      BY <3>1, <3>2, <3>3 DEF Behind
    <3> QED BY <2>3, <3>4 DEF Recorded
  <2>4. CASE stored # Normalized /\ truncated
    BY <2>4
  <2>5. truncated \in BOOLEAN
    BY DEF Hands, TypeOK, WalkTypeOK
  <2> QED BY <2>2, <2>3, <2>4, <2>5
<1>2. Spec => []FirstTurns
  BY SpecFirstTurns
<1> QED BY <1>1, <1>2, SpecWalk, SpecBodyBehind, PTL

--------------------------------------------------------------------------------
(* The order of the walk. *)

\* How far the exception recorded last is from the raised one.
Front(d) == IF chain = <<>> THEN 0 ELSE d[chain[Len(chain)].exc]

\* The first s entries of the queue are as far as the exception recorded last, the rest at
\* most one link further; whatever is nearer is recorded; and what a recorded exception
\* nearer than the last one is linked to is recorded, or among those first.
Layered(d, s) ==
    /\ \A j, k \in 1..Len(chain) : j < k => d[chain[j].exc] <= d[chain[k].exc]
    /\ \A y \in Reachable : d[y] < Front(d) => y \in visited
    /\ \A i \in 1..Len(queue) :
          d[queue[i].exc] <= IF i <= s THEN Front(d) ELSE Front(d) + 1
    /\ ~truncated =>
          \A x \in visited, y \in Reachable \ visited :
             (link.cause[x] = y \/ link.context[x] = y) /\ d[x] < Front(d) =>
                \E i \in 1..s : queue[i].exc = y

LayerByLayer ==
    raised # NoException =>
        /\ IF chain = <<>>
           THEN visited = {} /\ (truncated \/ (Len(queue) = 1 /\ queue[1].exc = raised))
           ELSE raised \in visited
        /\ \A d \in Distances : \E s \in 0..Len(queue) : Layered(d, s)

LEMMA DistanceFacts ==
    ASSUME raised \in Exceptions, NEW d \in Distances
    PROVE  /\ \A x \in Reachable : d[x] \in Nat
           /\ d[raised] = 0
           /\ \A x, y \in Reachable :
                 link.cause[x] = y \/ link.context[x] = y => d[y] <= d[x] + 1
           /\ \A y \in Reachable \ {raised} :
                 \E x \in Reachable : (link.cause[x] = y \/ link.context[x] = y) /\ d[y] = d[x] + 1
<1> DEFINE links == {l \in Reachable \X Reachable :
                        link.cause[l[1]] = l[2] \/ link.context[l[1]] = l[2]}
<1>1. /\ d \in [Reachable -> 0..Cardinality(Reachable) - 1]
      /\ d[raised] = 0
      /\ \A l \in links : d[l[2]] <= d[l[1]] + 1
      /\ \A y \in Reachable \ {raised} : \E l \in links : l[2] = y /\ d[y] = d[l[1]] + 1
  BY DEF Distances
<1>2. \A x \in Reachable : d[x] \in Nat
  BY <1>1
<1>3. ASSUME NEW x \in Reachable, NEW y \in Reachable, link.cause[x] = y \/ link.context[x] = y
      PROVE  d[y] <= d[x] + 1
  <2>1. <<x, y>> \in links
    BY <1>3
  <2> HIDE DEF links
  <2> QED BY <1>1, <2>1
<1>4. ASSUME NEW y \in Reachable \ {raised}
      PROVE  \E x \in Reachable : (link.cause[x] = y \/ link.context[x] = y) /\ d[y] = d[x] + 1
  <2>1. PICK l \in links : l[2] = y /\ d[y] = d[l[1]] + 1
    BY <1>1
  <2>2. l[1] \in Reachable /\ (link.cause[l[1]] = y \/ link.context[l[1]] = y)
    BY <2>1
  <2> QED BY <2>1, <2>2
<1> QED BY <1>1, <1>2, <1>3, <1>4

\* The queue moves up by one, and the links of x come behind.
LEMMA QueueShape ==
    ASSUME Hands, Record, NEW x, x = Head(queue).exc
    PROVE  /\ Len(queue) \in Nat \ {0} /\ Len(queue') \in Nat /\ x = queue[1].exc
           /\ Len(queue') >= Len(queue) - 1
           /\ \A k \in 1..Len(queue) - 1 : queue'[k] = queue[k + 1]
           /\ \A k \in Len(queue)..Len(queue') :
                 /\ queue'[k].exc \in {link.cause[x], link.context[x]}
                 /\ queue'[k].exc # NoException
<1>1. PICK s, t \in Seq(Link) :
        /\ IF link.cause[x] \in visited \cup {x, NoException}
           THEN Len(s) = 0 ELSE Len(s) = 1 /\ s[1].exc = link.cause[x]
        /\ IF link.context[x] \in visited \cup {x, NoException}
           THEN Len(t) = 0 ELSE Len(t) = 1 /\ t[1].exc = link.context[x]
        /\ Len(queue') = (Len(queue) - 1) + (Len(s) + Len(t))
        /\ \A k \in 1..Len(queue') :
              queue'[k] = IF k < Len(queue) THEN queue[k + 1]
                          ELSE IF k < Len(queue) + Len(s) THEN s[k - (Len(queue) - 1)]
                          ELSE t[k - (Len(queue) - 1) - Len(s)]
  BY QueueStep
<1>2. Len(queue) \in Nat \ {0} /\ x = queue[1].exc
  BY QueueStep
<1>3. /\ Len(s) \in {0, 1} /\ Len(t) \in {0, 1}
      /\ Len(s) = 1 => s[1].exc = link.cause[x] /\ link.cause[x] # NoException
      /\ Len(t) = 1 => t[1].exc = link.context[x] /\ link.context[x] # NoException
  BY <1>1
<1>4. Len(queue') \in Nat /\ Len(queue') >= Len(queue) - 1
  BY <1>1, <1>2, <1>3
<1>5. ASSUME NEW k \in 1..Len(queue) - 1
      PROVE  queue'[k] = queue[k + 1]
  <2>1. k \in 1..Len(queue') /\ k < Len(queue)
    BY <1>2, <1>4
  <2> QED BY <1>1, <2>1
<1>6. ASSUME NEW k \in Len(queue)..Len(queue')
      PROVE  queue'[k].exc \in {link.cause[x], link.context[x]} /\ queue'[k].exc # NoException
  <2>1. k \in 1..Len(queue') /\ ~(k < Len(queue))
    BY <1>2, <1>4
  <2>2. CASE k < Len(queue) + Len(s)
    <3>0. k \in Nat /\ Len(s) \in Nat /\ (Len(s) = 0 \/ Len(s) = 1)
      BY <1>3, <2>1
    <3>n. PICK n \in Nat : n = Len(queue)
      BY <1>2
    <3>m. PICK m \in {0, 1} : m = Len(s)
      BY <3>0
    <3>i. ~(k < n) /\ k < n + m
      BY <2>1, <2>2, <3>n, <3>m
    <3>j. m = 1 /\ k = n
      BY <3>0, <3>i
    <3>1. Len(s) = 1 /\ k - (Len(queue) - 1) = 1
      BY <3>n, <3>m, <3>j
    <3>2. queue'[k] = s[1]
      BY <1>1, <2>1, <2>2, <3>1
    <3> QED BY <1>3, <3>1, <3>2
  <2>3. CASE ~(k < Len(queue) + Len(s))
    <3>n. PICK n \in Nat : n = Len(queue)
      BY <1>2
    <3>m. PICK m \in {0, 1}, j \in {0, 1} : m = Len(s) /\ j = Len(t)
      BY <1>3
    <3>i. k \in Nat /\ n + m <= k /\ k <= n - 1 + m + j
      BY <1>1, <1>2, <2>1, <2>3, <3>n, <3>m
    <3>j. j = 1 /\ k - (n - 1) - m = 1
      BY <3>i
    <3>1. Len(t) = 1 /\ k - (Len(queue) - 1) - Len(s) = 1
      BY <3>n, <3>m, <3>j
    <3>2. queue'[k] = t[1]
      BY <1>1, <2>1, <2>3, <3>1
    <3> QED BY <1>3, <3>1, <3>2
  <2> QED BY <2>2, <2>3
<1> QED BY <1>2, <1>4, <1>5, <1>6

LEMMA StepLayers ==
    ASSUME Hands, WalkIsSound, WalkIsComplete, LayerByLayer, [Next]_vars
    PROVE  LayerByLayer'
<1> SUFFICES ASSUME raised' # NoException
             PROVE  LayerByLayer'
  BY DEF LayerByLayer
<1>1. CASE Report
  <2>1. /\ raised' \in Exceptions /\ visited' = {} /\ chain' = <<>> /\ truncated' = FALSE
        /\ queue' = <<[exc |-> raised', relation |-> "none"]>>
    BY <1>1, ReportStep
  <2>2. Len(queue') = 1 /\ queue'[1].exc = raised'
    BY <2>1
  <2>3. ASSUME NEW d \in Distances'
        PROVE  Layered(d, 1)'
    <3>1. d[raised'] = 0
      BY <2>3 DEF Distances
    <3>2. \A y \in Reachable' : d[y] \in Nat
      BY <2>3 DEF Distances
    <3>3. Front(d)' = 0 /\ Len(chain') = 0
      BY <2>1 DEF Front
    <3>4. \A y \in Reachable' : ~(d[y] < Front(d)')
      BY <3>2, <3>3
    <3> QED BY <2>1, <2>2, <3>1, <3>3, <3>4 DEF Layered
  <2>4. 1 \in 0..Len(queue')
    BY <2>2
  <2> QED BY <2>1, <2>2, <2>3, <2>4 DEF LayerByLayer
<1>2. CASE UNCHANGED evidence /\ (raised = NoException \/ UNCHANGED <<link, operation>>)
  <2>1. UNCHANGED <<raised, queue, visited, chain, truncated, link>>
    BY <1>2 DEF evidence
  <2>2. Reachable' = Reachable /\ Distances' = Distances
    BY <2>1 DEF Distances, Reachable, Linked
  <2> QED BY <2>1, <2>2 DEF LayerByLayer, Layered, Front
<1>3. CASE Walk
  <2>1. /\ UNCHANGED <<link, raised>> /\ raised \in Exceptions /\ ~truncated
        /\ raised # NoException
    BY <1>3 DEF Walk, Skip, StopAtCap, Record, Building, WalkIsComplete, Hands, TypeOK, WalkTypeOK
  <2>2. Reachable' = Reachable /\ Distances' = Distances
    BY <2>1 DEF Distances, Reachable, Linked
  <2>3. /\ queue \in Seq(Link) /\ queue # <<>> /\ Head(queue) = queue[1]
        /\ Len(queue) \in Nat \ {0}
        /\ chain \in Seq(Entry) /\ Len(chain) \in Nat
        /\ chain = <<>> <=> Len(chain) = 0
        /\ Len(Tail(queue)) = Len(queue) - 1
        /\ \A k \in 1..Len(queue) - 1 : Tail(queue)[k] = queue[k + 1]
    <3>1. queue \in Seq(Link) /\ queue # <<>> /\ chain \in Seq(Entry)
      BY <1>3 DEF Walk, Skip, StopAtCap, Record, Building, Hands, TypeOK, WalkTypeOK
    <3> QED BY <3>1, HeadTailProperties, EmptySeq, LenProperties
  <2>4. PICK x : x = Head(queue).exc
    OBVIOUS
  <2>5. /\ IF chain = <<>>
           THEN visited = {} /\ Len(queue) = 1 /\ queue[1].exc = raised
           ELSE raised \in visited
        /\ \A d \in Distances : \E s \in 0..Len(queue) : Layered(d, s)
    BY <2>1 DEF LayerByLayer
  <2>6. /\ visited \subseteq Reachable
        /\ \A k \in 1..Len(queue) : queue[k].exc \in Reachable
        /\ \A k \in 1..Len(chain) : chain[k].exc \in visited
        /\ x \in Reachable
        /\ Linked(visited) \subseteq visited \cup Pending
        /\ Reachable \subseteq Exceptions
    <3>1. visited \cup Pending \subseteq Reachable /\ visited = Recorded
      BY <2>1 DEF WalkIsSound
    <3>2. \A k \in 1..Len(queue) : queue[k].exc \in Pending
      BY DEF Pending, InEntries
    <3>3. Linked(visited) \subseteq visited \cup Pending
      BY <2>1 DEF WalkIsComplete
    <3>4. Reachable \subseteq Exceptions
      BY DEF Reachable
    <3> QED BY <2>3, <2>4, <3>1, <3>2, <3>3, <3>4 DEF Recorded
  <2>7. CASE Skip
    <3>1. /\ x \in visited /\ queue' = Tail(queue)
          /\ UNCHANGED <<visited, chain, truncated>>
      BY <2>4, <2>7 DEF Skip, AlreadyRecorded
    <3>2. /\ Len(queue') = Len(queue) - 1
          /\ \A k \in 1..Len(queue') : queue'[k] = queue[k + 1]
      BY <2>3, <3>1
    <3>3. ASSUME NEW d \in Distances
          PROVE  \E s \in 0..Len(queue') : Layered(d, s)'
      <4>1. PICK s \in 0..Len(queue) : Layered(d, s)
        BY <2>5
      <4>2. PICK r : r = IF s = 0 THEN 0 ELSE s - 1
        OBVIOUS
      <4>r. /\ r \in 0..Len(queue')
            /\ (s = 0 /\ r = 0) \/ (s >= 1 /\ r = s - 1)
        BY <2>3, <3>2, <4>2
      <4>3. Front(d)' = Front(d)
        BY <3>1 DEF Front
      <4>4. /\ \A j, k \in 1..Len(chain') : j < k => d[chain'[j].exc] <= d[chain'[k].exc]
            /\ \A y \in Reachable' : d[y] < Front(d)' => y \in visited'
        BY <2>2, <3>1, <4>1, <4>3 DEF Layered
      <4>5. ASSUME NEW i \in 1..Len(queue')
            PROVE  d[queue'[i].exc] <= IF i <= r THEN Front(d)' ELSE Front(d)' + 1
        <5>1. i + 1 \in 1..Len(queue) /\ queue'[i] = queue[i + 1]
          BY <2>3, <3>2
        <5>2. d[queue[i + 1].exc] <= IF i + 1 <= s THEN Front(d) ELSE Front(d) + 1
          BY <4>1, <5>1 DEF Layered
        <5>3. i <= r <=> i + 1 <= s
          BY <4>r
        <5> QED BY <4>3, <5>1, <5>2, <5>3
      <4>6. ASSUME NEW z \in visited', NEW y \in Reachable' \ visited',
                   link'.cause[z] = y \/ link'.context[z] = y, d[z] < Front(d)'
            PROVE  \E i \in 1..r : queue'[i].exc = y
        <5>1. PICK i \in 1..s : queue[i].exc = y
          BY <2>1, <2>2, <3>1, <4>1, <4>3, <4>6 DEF Layered
        <5>2. i # 1
          BY <2>3, <2>4, <3>1, <4>6, <5>1
        <5>3. i - 1 \in 1..r /\ i - 1 \in 1..Len(queue')
          BY <4>r, <5>1, <5>2
        <5>4. queue'[i - 1] = queue[i]
          BY <3>2, <5>3
        <5> QED BY <5>1, <5>3, <5>4
      <4> QED BY <4>r, <4>4, <4>5, <4>6 DEF Layered
    <3>4. chain' # <<>> /\ raised' \in visited'
      BY <2>1, <2>5, <3>1
    <3> QED BY <2>2, <3>3, <3>4 DEF LayerByLayer
  <2>8. CASE StopAtCap
    <3>1. queue' = <<>> /\ truncated' = TRUE /\ UNCHANGED <<visited, chain>>
      BY <2>8 DEF StopAtCap
    <3>2. ASSUME NEW d \in Distances
          PROVE  Layered(d, 0)'
      <4>1. PICK s \in 0..Len(queue) : Layered(d, s)
        BY <2>5
      <4>2. Front(d)' = Front(d)
        BY <3>1 DEF Front
      <4>3. Len(queue') = 0
        BY <3>1
      <4> QED BY <2>2, <3>1, <4>1, <4>2, <4>3 DEF Layered
    <3>3. 0 \in 0..Len(queue')
      BY <3>1
    <3>4. IF chain' = <<>>
          THEN visited' = {} /\ (truncated' \/ (Len(queue') = 1 /\ queue'[1].exc = raised'))
          ELSE raised' \in visited'
      BY <2>1, <2>5, <3>1
    <3>5. \A d \in Distances' : \E s \in 0..Len(queue') : Layered(d, s)'
      BY <2>2, <3>2, <3>3
    <3> QED BY <3>4, <3>5 DEF LayerByLayer
  <2>9. CASE Record
    <3>1. /\ x \in Exceptions /\ x \notin visited
          /\ visited' = visited \cup {x}
          /\ Len(chain') = Len(chain) + 1
          /\ \A k \in 1..Len(chain) : chain'[k] = chain[k]
          /\ chain'[Len(chain) + 1].exc = x
          /\ truncated' = truncated
      BY <2>4, <2>9, RecordStep
    <3>2. /\ x = queue[1].exc
          /\ Len(queue') \in Nat
          /\ Len(queue') >= Len(queue) - 1
          /\ \A k \in 1..Len(queue) - 1 : queue'[k] = queue[k + 1]
          /\ \A k \in Len(queue)..Len(queue') :
                /\ queue'[k].exc \in {link.cause[x], link.context[x]}
                /\ queue'[k].exc # NoException
      BY <2>4, <2>9, QueueShape
    <3>3. chain' # <<>> /\ raised' \in visited'
      <4>1. Len(chain') # 0
        BY <2>3, <3>1
      <4> QED BY <2>1, <2>5, <3>1, <3>2, <4>1
    <3>4. \A k \in Len(queue)..Len(queue') :
             /\ queue'[k].exc \in Reachable
             /\ link.cause[x] = queue'[k].exc \/ link.context[x] = queue'[k].exc
      <4> TAKE k \in Len(queue)..Len(queue')
      <4>1. link.cause[x] = queue'[k].exc \/ link.context[x] = queue'[k].exc
        BY <3>2
      <4>2. queue'[k].exc \in Exceptions
        <5>1. link.cause[x] \in Exceptions \cup {NoException}
              /\ link.context[x] \in Exceptions \cup {NoException}
          BY <3>1 DEF Hands, TypeOK, WalkTypeOK, Links
        <5> QED BY <3>2, <4>1, <5>1
      <4>3. queue'[k].exc \in Linked(Reachable)
        BY <2>6, <4>1, <4>2 DEF Linked
      <4> QED BY <2>1, <4>1, <4>3, Reaching
    <3>5. ASSUME NEW d \in Distances
          PROVE  \E s \in 0..Len(queue') : Layered(d, s)'
      <4>1. /\ \A y \in Reachable : d[y] \in Nat
            /\ d[raised] = 0
            /\ \A z, y \in Reachable :
                  link.cause[z] = y \/ link.context[z] = y => d[y] <= d[z] + 1
            /\ \A y \in Reachable \ {raised} : \E z \in Reachable :
                  (link.cause[z] = y \/ link.context[z] = y) /\ d[y] = d[z] + 1
        BY <2>1, DistanceFacts
      <4>2. Front(d)' = d[x]
        BY <3>1, <3>3 DEF Front
      <4>3. ASSUME NEW k \in Len(queue)..Len(queue')
            PROVE  d[queue'[k].exc] <= d[x] + 1
        BY <2>6, <3>4, <4>1
      <4>4. PICK s \in 0..Len(queue) : Layered(d, s)
        BY <2>5
      <4>5. Front(d) \in Nat
        <5>1. CASE chain = <<>>
          BY <5>1 DEF Front
        <5>2. CASE chain # <<>>
          <6>1. Len(chain) \in 1..Len(chain)
            BY <2>3, <5>2
          <6> QED BY <2>6, <4>1, <5>2, <6>1 DEF Front
        <5> QED BY <5>1, <5>2
      <4>6. \A k \in 1..Len(chain) : d[chain[k].exc] <= Front(d)
        <5> TAKE k \in 1..Len(chain)
        <5>1. chain # <<>> /\ Len(chain) \in 1..Len(chain)
          BY <2>3
        <5>2. k = Len(chain) \/ k < Len(chain)
          BY <2>3
        <5>3. d[chain[k].exc] \in Nat
          BY <2>6, <4>1
        <5> QED BY <4>4, <5>1, <5>2, <5>3 DEF Layered, Front
      \* The next exception is in this layer, or this layer is done and it is in the next.
      <4>7. \/ d[x] = Front(d) /\ s >= 1
            \/ d[x] = Front(d) /\ chain = <<>>
            \/ /\ d[x] = Front(d) + 1
               /\ \A y \in Reachable : d[y] <= Front(d) => y \in visited
        <5>1. CASE chain = <<>>
          BY <2>5, <3>2, <4>1, <5>1 DEF Front
        <5>2. CASE chain # <<>> /\ s >= 1
          <6>1. d[x] <= Front(d)
            BY <2>3, <3>2, <4>4, <5>2 DEF Layered
          <6>2. ~(d[x] < Front(d))
            BY <2>6, <3>1, <4>4 DEF Layered
          <6> QED BY <2>6, <4>1, <4>5, <5>2, <6>1, <6>2
        <5>3. CASE chain # <<>> /\ ~(s >= 1)
          <6>1. s = 0
            BY <5>3
          <6>2. ASSUME NEW y \in Reachable, d[y] <= Front(d)
                PROVE  y \in visited
            <7>1. CASE y = raised
              BY <2>5, <5>3, <7>1
            <7>2. CASE y # raised
              <8>1. PICK z \in Reachable :
                      (link.cause[z] = y \/ link.context[z] = y) /\ d[y] = d[z] + 1
                BY <4>1, <7>2
              <8>2. d[z] < Front(d)
                BY <4>1, <4>5, <6>2, <8>1
              <8>3. z \in visited
                BY <4>4, <8>2 DEF Layered
              <8>4. y \notin visited => \E i \in 1..s : queue[i].exc = y
                BY <2>1, <4>4, <8>1, <8>2, <8>3 DEF Layered
              <8> QED BY <6>1, <8>4
            <7> QED BY <7>1, <7>2
          <6>3. d[x] <= Front(d) + 1
            <7>1. 1 \in 1..Len(queue) /\ ~(1 <= s)
              BY <2>3, <6>1
            <7>2. d[queue[1].exc] <= Front(d) + 1
              BY <4>4, <7>1 DEF Layered
            <7> QED BY <3>2, <7>2
          <6>4. ~(d[x] <= Front(d))
            BY <2>6, <3>1, <6>2
          <6> QED BY <2>6, <4>1, <4>5, <6>2, <6>3, <6>4
        <5> QED BY <5>1, <5>2, <5>3
      <4>8. \A j, k \in 1..Len(chain') : j < k => d[chain'[j].exc] <= d[chain'[k].exc]
        <5> TAKE j, k \in 1..Len(chain')
        <5> HAVE j < k
        <5>1. j \in 1..Len(chain) /\ (k \in 1..Len(chain) \/ k = Len(chain) + 1)
          BY <2>3, <3>1
        <5>2. CASE k \in 1..Len(chain)
          BY <3>1, <4>4, <5>1, <5>2 DEF Layered
        <5>3. CASE k = Len(chain) + 1
          <6>1. d[chain[j].exc] <= Front(d) /\ d[chain[j].exc] \in Nat
            BY <2>6, <4>1, <4>6, <5>1
          <6>2. Front(d) <= d[x] /\ d[x] \in Nat
            BY <2>6, <4>1, <4>5, <4>7
          <6> QED BY <3>1, <4>5, <5>1, <5>3, <6>1, <6>2
        <5> QED BY <5>1, <5>2, <5>3
      <4>9. \A y \in Reachable' : d[y] < Front(d)' => y \in visited'
        <5> TAKE y \in Reachable'
        <5> HAVE d[y] < Front(d)'
        <5>1. y \in Reachable /\ d[y] \in Nat /\ d[y] < d[x]
          BY <2>2, <4>1, <4>2
        <5>2. d[y] < Front(d) \/ (d[x] = Front(d) + 1 /\ d[y] <= Front(d))
          BY <4>5, <4>7, <5>1
        <5>3. y \in visited
          BY <4>4, <4>7, <4>5, <5>1, <5>2 DEF Layered
        <5> QED BY <3>1, <5>3
      <4>10. ASSUME NEW r \in 0..Len(queue) - 1, Front(d)' = d[x],
                    \A i \in 1..Len(queue) - 1 :
                       d[queue'[i].exc] <= IF i <= r THEN d[x] ELSE d[x] + 1,
                    \A z \in visited', y \in Reachable' \ visited' :
                       (link'.cause[z] = y \/ link'.context[z] = y) /\ d[z] < d[x] =>
                          \E i \in 1..r : queue'[i].exc = y
             PROVE  r \in 0..Len(queue') /\ Layered(d, r)'
        <5>1. \A i \in 1..Len(queue') :
                 d[queue'[i].exc] <= IF i <= r THEN Front(d)' ELSE Front(d)' + 1
          <6> TAKE i \in 1..Len(queue')
          <6>1. i \in 1..Len(queue) - 1 \/ (i \in Len(queue)..Len(queue') /\ ~(i <= r))
            BY <2>3, <3>2, <4>10
          <6> QED BY <4>2, <4>3, <4>10, <6>1
        <5>2. r \in 0..Len(queue')
          BY <2>3, <3>2, <4>10
        <5> QED BY <4>2, <4>8, <4>9, <4>10, <5>1, <5>2 DEF Layered
      <4>11. ASSUME NEW z \in visited', NEW y \in Reachable' \ visited',
                    link'.cause[z] = y \/ link'.context[z] = y, d[z] < d[x]
             PROVE  z \in visited /\ y \in Reachable \ visited /\ y # x
                    /\ (link.cause[z] = y \/ link.context[z] = y)
        <5>1. z # x
          BY <2>6, <4>1, <4>11
        <5> QED BY <2>1, <2>2, <3>1, <4>11, <5>1
      <4>12. CASE d[x] = Front(d) /\ s >= 1
        <5>1. \A i \in 1..Len(queue) - 1 :
                 d[queue'[i].exc] <= IF i <= s - 1 THEN d[x] ELSE d[x] + 1
          <6> TAKE i \in 1..Len(queue) - 1
          <6>1. i + 1 \in 1..Len(queue) /\ (i <= s - 1 <=> i + 1 <= s)
            BY <2>3
          <6>2. d[queue[i + 1].exc] <= IF i + 1 <= s THEN Front(d) ELSE Front(d) + 1
            BY <4>4, <6>1 DEF Layered
          <6> QED BY <3>2, <4>12, <6>1, <6>2
        <5>2. ASSUME NEW z \in visited', NEW y \in Reachable' \ visited',
                     link'.cause[z] = y \/ link'.context[z] = y, d[z] < d[x]
              PROVE  \E i \in 1..s - 1 : queue'[i].exc = y
          <6>1. z \in visited /\ y \in Reachable \ visited /\ y # x
                /\ (link.cause[z] = y \/ link.context[z] = y)
            BY <4>11, <5>2
          <6>2. PICK i \in 1..s : queue[i].exc = y
            BY <2>1, <4>4, <4>12, <5>2, <6>1 DEF Layered
          <6>3. i # 1
            BY <3>2, <6>1, <6>2
          <6>4. i - 1 \in 1..s - 1 /\ i - 1 \in 1..Len(queue) - 1
            BY <2>3, <6>2, <6>3
          <6>5. queue'[i - 1] = queue[i]
            BY <3>2, <6>4
          <6> QED BY <6>2, <6>4, <6>5
        <5>3. s - 1 \in 0..Len(queue) - 1
          BY <2>3, <4>12
        <5>4. s - 1 \in 0..Len(queue') /\ Layered(d, s - 1)'
          BY <4>2, <4>10, <5>1, <5>2, <5>3
        <5> QED BY <5>4
      <4>13. CASE d[x] = Front(d) /\ chain = <<>>
        <5>1. Len(queue) = 1 /\ d[x] = 0
          BY <2>5, <4>13 DEF Front
        <5>2. \A i \in 1..Len(queue) - 1 :
                 d[queue'[i].exc] <= IF i <= 0 THEN d[x] ELSE d[x] + 1
          <6>1. \A i \in 1..1 - 1 : FALSE
            OBVIOUS
          <6> QED BY <5>1, <6>1
        <5>3. ASSUME NEW z \in visited', NEW y \in Reachable' \ visited',
                     link'.cause[z] = y \/ link'.context[z] = y, d[z] < d[x]
              PROVE  \E i \in 1..0 : queue'[i].exc = y
          <6>1. z \in visited
            BY <4>11, <5>3
          <6> QED BY <2>5, <4>13, <6>1
        <5>4. 0 \in 0..Len(queue) - 1
          BY <5>1
        <5>5. 0 \in 0..Len(queue') /\ Layered(d, 0)'
          BY <4>2, <4>10, <5>2, <5>3, <5>4
        <5> QED BY <5>5
      <4>14. CASE d[x] = Front(d) + 1 /\ \A y \in Reachable : d[y] <= Front(d) => y \in visited
        <5>r. PICK r : r = Len(queue) - 1
          OBVIOUS
        <5>1. r = Len(queue) - 1 /\ r \in 0..Len(queue) - 1
          BY <2>3, <5>r
        <5>2. \A i \in 1..Len(queue) - 1 :
                 d[queue'[i].exc] <= IF i <= r THEN d[x] ELSE d[x] + 1
          <6> TAKE i \in 1..Len(queue) - 1
          <6>1. i + 1 \in 1..Len(queue) /\ i <= r
            BY <2>3, <5>1
          <6>2. d[queue[i + 1].exc] <= IF i + 1 <= s THEN Front(d) ELSE Front(d) + 1
            BY <4>4, <6>1 DEF Layered
          <6>3. d[queue[i + 1].exc] \in Nat
            BY <2>6, <4>1, <6>1
          <6> QED BY <3>2, <4>5, <4>14, <6>1, <6>2, <6>3
        <5>3. ASSUME NEW z \in visited', NEW y \in Reachable' \ visited',
                     link'.cause[z] = y \/ link'.context[z] = y, d[z] < d[x]
              PROVE  \E i \in 1..r : queue'[i].exc = y
          <6>1. z \in visited /\ y \in Reachable \ visited /\ y # x
                /\ (link.cause[z] = y \/ link.context[z] = y)
            BY <4>11, <5>3
          <6>2. y \in Linked(visited)
            BY <2>6, <6>1 DEF Linked
          <6>3. PICK i \in 1..Len(queue) : queue[i].exc = y
            BY <2>6, <6>1, <6>2 DEF Pending, InEntries
          <6>4. i # 1
            BY <3>2, <6>1, <6>3
          <6>5. i - 1 \in 1..r /\ i - 1 \in 1..Len(queue) - 1
            BY <2>3, <5>1, <6>3, <6>4
          <6>6. queue'[i - 1] = queue[i]
            BY <3>2, <6>5
          <6> QED BY <6>3, <6>5, <6>6
        <5>4. r \in 0..Len(queue') /\ Layered(d, r)'
          BY <4>2, <4>10, <5>1, <5>2, <5>3
        <5> QED BY <5>4
      <4> QED BY <4>7, <4>12, <4>13, <4>14
    <3> QED BY <2>2, <3>3, <3>5 DEF LayerByLayer
  <2> QED BY <1>3, <2>7, <2>8, <2>9 DEF Walk
<1> QED BY <1>1, <1>2, <1>3, KindsOfStep

LEMMA SpecLayers == Spec => []LayerByLayer
<1>1. Init => LayerByLayer
  BY DEF Init, InitWalk, LayerByLayer
<1>2. Hands /\ WalkIsSound /\ WalkIsComplete /\ LayerByLayer /\ [Next]_vars => LayerByLayer'
  BY StepLayers
<1> QED BY <1>1, <1>2, SpecWalk, PTL DEF Spec

\* Whatever is linked how, and wherever the cap falls: no exception is recorded twice, the
\* chain is in the order of the distance from the raised exception, and nothing that is
\* left out is nearer than something that is in.
THEOREM NearestIsRecordedFirst == Spec => []NearestFirst
<1>1. Hands /\ WalkIsSound /\ WalkIsComplete /\ LayerByLayer => NearestFirst
  <2> SUFFICES ASSUME Hands, WalkIsSound, WalkIsComplete, LayerByLayer, Built
               PROVE  NearestFirst
    BY DEF NearestFirst
  <2>1. /\ raised \in Exceptions /\ raised # NoException
        /\ visited = Recorded /\ Recorded \subseteq Reachable
        /\ Len(chain) \in Nat
    BY BuiltEvidence DEF Built, Hands, TypeOK, WalkTypeOK
  <2>2. \A j, k \in 1..Len(chain) : chain[j].exc = chain[k].exc => j = k
    BY DEF WalkIsSound
  <2>3. ASSUME NEW d \in Distances
        PROVE  /\ \A j, k \in 1..Len(chain) : j < k => d[chain[j].exc] <= d[chain[k].exc]
               /\ \A x \in Recorded, y \in Reachable \ Recorded : d[x] <= d[y]
    <3>1. PICK s \in 0..Len(queue) : Layered(d, s)
      BY <2>1 DEF LayerByLayer
    <3>2. \A x \in Reachable : d[x] \in Nat
      BY <2>1, DistanceFacts
    <3>3. ASSUME NEW x \in Recorded, NEW y \in Reachable \ Recorded
          PROVE  d[x] <= d[y]
      <4>1. PICK k \in 1..Len(chain) : x = chain[k].exc
        BY DEF Recorded
      <4>2. /\ Len(chain) \in 1..Len(chain) /\ chain # <<>>
            /\ k = Len(chain) \/ k < Len(chain)
        BY <2>1, <4>1
      <4>3. chain[Len(chain)].exc \in Reachable /\ x \in Reachable
        BY <2>1, <4>2 DEF Recorded
      <4>4. Front(d) = d[chain[Len(chain)].exc] /\ Front(d) \in Nat
        BY <3>2, <4>2, <4>3 DEF Front
      <4>5. d[x] <= Front(d)
        <5>1. CASE k = Len(chain)
          BY <3>2, <4>1, <4>3, <4>4, <5>1
        <5>2. CASE k < Len(chain)
          BY <3>1, <4>1, <4>2, <4>4, <5>2 DEF Layered
        <5> QED BY <4>2, <5>1, <5>2
      <4>6. ~(d[y] < Front(d))
        BY <2>1, <3>1 DEF Layered
      <4> QED BY <3>2, <4>3, <4>4, <4>5, <4>6
    <3> QED BY <3>1, <3>3 DEF Layered
  <2> QED BY <2>2, <2>3 DEF NearestFirst
<1> QED BY <1>1, SpecWalk, SpecLayers, PTL

================================================================================
