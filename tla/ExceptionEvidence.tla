--------------------------- MODULE ExceptionEvidence ---------------------------
(***************************************************************************)
(* build_evidence of evidence.py: the bounded walk of an exception's       *)
(* __cause__ and __context__ links, one action per turn of its loop.       *)
(*                                                                         *)
(* Exceptions are objects with two links; whatever else they hold is left  *)
(* out, but for what _safe_message makes of them.  Abstracted: the code    *)
(* locations and the type name of an entry, which depend on nothing but    *)
(* the one exception.                                                      *)
(***************************************************************************)
EXTENDS Naturals, Sequences, FiniteSets

CONSTANTS
    Exceptions,     \* exception objects
    NoException,    \* None
    Marker,         \* Marker[x]: "safe" when log_safe_message is exactly True, "broken"
                    \* when it is and str() raises, "none" for every other exception
    MAX_CHAIN_DEPTH \* exceptions recorded at most

ASSUME WalkAssumption ==
    /\ NoException \notin Exceptions
    /\ Marker \in [Exceptions -> {"safe", "broken", "none"}]
    /\ MAX_CHAIN_DEPTH \in Nat

VARIABLES
    link,     \* link.cause[x] and link.context[x]: x.__cause__ and x.__context__
    raised,   \* the exception evidence is built for
    queue,    \* the links still to follow, oldest first
    visited,  \* the exceptions recorded, by identity
    chain,    \* Evidence.chain so far
    truncated \* Evidence.truncated so far

evidence == <<raised, queue, visited, chain, truncated>>

Relations == {"none", "cause", "context"}
Link == [exc : Exceptions, relation : Relations]
Entry == [exc : Exceptions, relation : Relations, message : BOOLEAN]
Links == [Exceptions -> Exceptions \cup {NoException}]

NotBuilding == raised = NoException
Building == raised # NoException /\ queue # <<>>
Built == raised # NoException /\ queue = <<>>

InitWalk ==
    /\ raised = NoException
    /\ queue = <<>>
    /\ visited = {}
    /\ chain = <<>>
    /\ truncated = FALSE

StartWalk(x) ==
    /\ NotBuilding
    /\ raised' = x
    /\ queue' = <<[exc |-> x, relation |-> "none"]>>
    /\ UNCHANGED <<visited, chain, truncated>>

\* A message is rendered behind the marker only, and only if str() does not raise.
SafeMessage(x) == Marker[x] = "safe"

\* Mutated form of AtCap: one exception too many.
PastCap == Len(chain) > MAX_CHAIN_DEPTH

AtCap == Len(chain) >= MAX_CHAIN_DEPTH

\* Mutated form of AlreadyRecorded: the cap is looked at before the identity.
AlreadyRecordedBelowCap(x) == x \in visited /\ ~AtCap

AlreadyRecorded(x) == x \in visited

\* The link from x to y, if it leads to an exception not yet recorded.
OpenLink(x, y, relation) ==
    IF y \in visited \cup {x, NoException} THEN <<>> ELSE <<[exc |-> y, relation |-> relation]>>

\* The cause comes first.
OpenLinks(x) == OpenLink(x, link.cause[x], "cause") \o OpenLink(x, link.context[x], "context")

\* Mutated form of QueueAfter: the links are followed depth first.
QueueAfterDepthFirst(x) == OpenLinks(x) \o Tail(queue)

QueueAfter(x) == Tail(queue) \o OpenLinks(x)

Skip ==
    /\ Building
    /\ AlreadyRecorded(Head(queue).exc)
    /\ queue' = Tail(queue)
    /\ UNCHANGED <<link, raised, visited, chain, truncated>>

StopAtCap ==
    /\ Building
    /\ ~AlreadyRecorded(Head(queue).exc)
    /\ AtCap
    /\ truncated' = TRUE
    /\ queue' = <<>>
    /\ UNCHANGED <<link, raised, visited, chain>>

Record ==
    /\ Building
    /\ ~AlreadyRecorded(Head(queue).exc)
    /\ ~AtCap
    /\ LET x == Head(queue).exc
       IN  /\ visited' = visited \cup {x}
           /\ chain' = Append(chain, [exc |-> x, relation |-> Head(queue).relation,
                                      message |-> SafeMessage(x)])
           /\ queue' = QueueAfter(x)
    /\ UNCHANGED <<link, raised, truncated>>

Walk == Skip \/ StopAtCap \/ Record

--------------------------------------------------------------------------------
(* What the evidence promises. *)

WalkTypeOK ==
    /\ link \in [cause : Links, context : Links]
    /\ raised \in Exceptions \cup {NoException}
    /\ queue \in Seq(Link)
    /\ visited \subseteq Exceptions
    /\ chain \in Seq(Entry)
    /\ Len(chain) <= MAX_CHAIN_DEPTH
    /\ truncated \in BOOLEAN

Linked(S) ==
    {y \in Exceptions : \E x \in S : link.cause[x] = y \/ link.context[x] = y}

\* What links lead to from the raised exception, itself included: the least set that
\* contains it and is closed under them.
Reachable ==
    {y \in Exceptions : \A S \in SUBSET Exceptions : raised \in S /\ Linked(S) \subseteq S => y \in S}

\* How many links lead from the raised exception to each that is reachable: the function
\* that is 0 there, grows by at most one along a link, and by one along a link to each other.
\* It is the only one.
Distances ==
    LET reachable == Reachable
        links == {l \in reachable \X reachable : link.cause[l[1]] = l[2] \/ link.context[l[1]] = l[2]}
    IN  {d \in [reachable -> 0..Cardinality(reachable) - 1] :
            /\ d[raised] = 0
            /\ \A l \in links : d[l[2]] <= d[l[1]] + 1
            /\ \A y \in reachable \ {raised} : \E l \in links : l[2] = y /\ d[y] = d[l[1]] + 1}

Recorded == {chain[k].exc : k \in 1..Len(chain)}

\* truncated tells a chain of which something is missing from one that just fits, cycles
\* and shared links included: it is set if and only if a linked exception was left out
\* (evidence.py:86-88).
TruncatedMeansMissing ==
    Built => (truncated <=> Reachable # Recorded)

\* Each exception is recorded once, none before one that fewer links lead to, and what
\* the cap leaves out is never nearer than what it lets in: the evidence keeps what is
\* nearest the failure (evidence.py:141-142).
NearestFirst ==
    Built =>
        /\ \A j, k \in 1..Len(chain) : chain[j].exc = chain[k].exc => j = k
        /\ \A d \in Distances :
              /\ \A j, k \in 1..Len(chain) : j < k => d[chain[j].exc] <= d[chain[k].exc]
              /\ \A x \in Recorded, y \in Reachable \ Recorded : d[x] <= d[y]

================================================================================
