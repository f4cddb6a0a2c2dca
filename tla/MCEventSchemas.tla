---------------------------- MODULE MCEventSchemas ----------------------------
(***************************************************************************)
(* Instances of EventSchemas for TLC.  A line has room for 8 units: two    *)
(* long values fill it with an operational envelope, exceed it with an     *)
(* audit one; a long actor leaves room for an intent and not for an        *)
(* indeterminate outcome.                                                  *)
(***************************************************************************)
EXTENDS EventSchemas, TLC

Scalar(kind, size) == [shape |-> "scalar", of |-> {kind}, size |-> size]

\* For fields of str and int: values of other kinds and long ones that fit, sequences of
\* both shapes and one that no line has room for.
MCValues ==
    {Scalar(kind, 1) : kind \in {"bad_str", "huge_int", "other"}} \cup
    {Scalar("str", 3), Scalar("int", 3),
     [shape |-> "tuple", of |-> {"str"}, size |-> 1],
     [shape |-> "list", of |-> {"str"}, size |-> 9]}

\* Short and long, not accountable, not encodable.
MCActors ==
    {[accountable |-> TRUE, encodable |-> TRUE, size |-> 1],
     [accountable |-> TRUE, encodable |-> TRUE, size |-> 4],
     [accountable |-> FALSE, encodable |-> TRUE, size |-> 1],
     [accountable |-> TRUE, encodable |-> FALSE, size |-> 1]}

MCEnvelopeSize == [id \in EventIds |-> 2]
MCOutcomeSize == [success |-> 1, failure |-> 1, indeterminate |-> 2]

Field(name, type, isList, required, requiredOnOutcome) ==
    [name |-> name, type |-> type, isList |-> isList, required |-> required,
     requiredOnOutcome |-> requiredOnOutcome]

\* Two declarations of each free name, and one of a reserved name.
MCSpecs ==
    {Field(Violation, "str", FALSE, TRUE, FALSE),
     Field(Violation, "str", TRUE, FALSE, FALSE),
     Field(OffendingEvent, "int", FALSE, FALSE, TRUE),
     Field(OffendingEvent, "int", FALSE, TRUE, FALSE)} \cup
    {Field(name, "str", FALSE, FALSE, FALSE) : name \in ReservedNames}

Short == [encodable |-> TRUE, size |-> 1]
Long == [encodable |-> TRUE, size |-> 7]
Unencodable == [encodable |-> FALSE, size |-> 1]

\* Operational, audit, both and neither; up to two fields; every template, and where there
\* is at most one field every text.
MCProposals ==
    {d \in [id : EventIds, severity : {"none", "ERROR"}, category : {"none", "ADMIN"},
            fields : {fs \in SUBSET MCSpecs : Cardinality(fs) <= 2},
            templated : BOOLEAN, template : SUBSET FieldNames,
            literal : {NoText, Short, Long, Unencodable}] :
        /\ IF d.templated THEN d.literal # NoText ELSE d.template = {} /\ d.literal = NoText
        /\ d.literal \in {Long, Unencodable} => Cardinality(d.fields) <= 1}

\* The threads are interchangeable; sound where no liveness property is checked.
ThreadSymmetry == Permutations(Threads)

===============================================================================
