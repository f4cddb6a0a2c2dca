----------------------------- MODULE EventSchemas -----------------------------
(***************************************************************************)
(* Event declarations and the layers a call's fields pass through:         *)
(* EventSchema and EventRegistry (events.py), which decide what a call may *)
(* say; the record (record.py), the mapping (serialise.py) and the JSON    *)
(* codec (sinks/jsonl.py), each of which checks again; and the reserved    *)
(* event that every OperationalLog registers when it is constructed.       *)
(*                                                                         *)
(* A value is its shape, the kinds of scalar in it and its size.  The size *)
(* of anything is the bytes it takes in an encoded line, its key included; *)
(* a line is made of the envelope, the actor, the outcome, the fields and  *)
(* the message, which is the template's own text and the fields it names.  *)
(* Abstracted: the grammars of ids, names and placeholders, free-form      *)
(* permission and the types of constructor arguments (a declaration that   *)
(* breaks one of those rules is refused and changes nothing); field order; *)
(* a placeholder that a template repeats; and what makes one envelope of   *)
(* an event longer than another but for the outcome.                       *)
(***************************************************************************)
EXTENDS Naturals, FiniteSets

CONSTANTS
    Threads,        \* threads that construct an OperationalLog on the registry
    EventIds,       \* event ids
    ReservedIds,    \* those whose first segment is nmlogging
    DefectEvent,    \* the id of the package's own event
    FieldNames,     \* field names
    ReservedNames,  \* RESERVED_FIELD_NAMES
    Violation,      \* the names of the fields
    OffendingEvent, \*     of the package's own event
    Proposals,      \* the declarations the application may attempt
    Values,         \* the values its calls may pass
    Actors,         \* the actors, each with the operation id its handle would have
    MaxFields,      \* bound: fields of a call
    EnvelopeSize,   \* of each event
    OutcomeSize,    \* of each outcome: what it adds to the envelope of an intent
    DefectTextSize, \* of the violation and of the event id in a defect record
    MAX_RECORD_BYTES

Severities == {"INFO", "WARNING", "ERROR", "CRITICAL"}
Categories == {"ADMIN", "ACTIVITY"}
Stages == {"intent", "outcome"}
Outcomes == {"success", "failure", "indeterminate"}
Types == {"str", "int", "float", "bool"}

\* Text that is UTF-8 encodable, or contains a lone surrogate.
Texts == [encodable : BOOLEAN, size : Nat]
NoText == [encodable |-> TRUE, size |-> 0]
\* An actor and operation id that AuditRecord takes for accountable, or does not: it looks
\* for emptiness, placeholders and envelopes, not for length or encoding.
AllActors == [accountable : BOOLEAN, encodable : BOOLEAN, size : Nat]
NoActor == [accountable |-> FALSE, encodable |-> TRUE, size |-> 0]

\* "bad_str" is over-long, shaped like an envelope, or not UTF-8 encodable; "huge_int" has
\* more digits than the interpreter will convert; "nan" is any float that is not finite;
\* "other" is anything but the four types.
ScalarKinds == {"str", "bad_str", "int", "huge_int", "float", "nan", "bool", "other"}
AllValues == [shape : {"scalar", "list", "tuple"}, of : SUBSET ScalarKinds, size : Nat]
\* A clock yields an aware UTC time, or one that no record takes (naive, or not UTC).
Clocks == {"utc", "broken"}

Specs == [name : FieldNames, type : Types, isList : BOOLEAN, required : BOOLEAN,
          requiredOnOutcome : BOOLEAN]
\* A template is the fields it names and the literal text around them.
Declarations ==
    [id : EventIds, severity : Severities \cup {"none"}, category : Categories \cup {"none"},
     fields : SUBSET Specs, templated : BOOLEAN, template : SUBSET FieldNames, literal : Texts]

ASSUME NamesAssumption ==
    /\ ReservedIds \subseteq EventIds
    /\ DefectEvent \in ReservedIds
    /\ IsFiniteSet(FieldNames)
    /\ ReservedNames \subseteq FieldNames
    /\ {Violation, OffendingEvent} \subseteq FieldNames \ ReservedNames
    /\ Violation # OffendingEvent
ASSUME InputsAssumption ==
    /\ Proposals \subseteq Declarations
    /\ Values \subseteq AllValues
    /\ Actors \subseteq AllActors
    /\ MaxFields \in Nat
\* The package's own record fits: application, event ids and violations have at most 64,
\* 128 and 19 characters, and 16384 bytes are allowed.
ASSUME SizesAssumption ==
    /\ MAX_RECORD_BYTES \in Nat
    /\ EnvelopeSize \in [EventIds -> Nat]
    /\ OutcomeSize \in [Outcomes -> Nat]
    /\ DefectTextSize \in Nat
    /\ EnvelopeSize[DefectEvent] + 2 * DefectTextSize <= MAX_RECORD_BYTES

VARIABLES
    registry, \* EventRegistry._schemas
    facade,   \* how far each thread's OperationalLog has been constructed
    begun,    \* events and actors of which an intent is durable
    last,     \* the record that the latest call accepted by the guard became
    verdict   \* what the layers behind the guard made of it

vars == <<registry, facade, begun, last, verdict>>

NoSchema == [id |-> "none"]
NoRecord == [event |-> "none"]

Init ==
    /\ registry = [id \in EventIds |-> NoSchema]
    /\ facade = [t \in Threads |-> "none"]
    /\ begun = {}
    /\ last = NoRecord
    /\ verdict = "none"

--------------------------------------------------------------------------------
(* Declaring an event: FieldSpec.__post_init__, EventSchema.__post_init__ and   *)
(* EventRegistry.register.                                                      *)

Names(s) == {spec.name : spec \in s.fields}
Required(s) == {spec.name : spec \in {f \in s.fields : f.required}}
RequiredOnOutcome(s) == {spec.name : spec \in {f \in s.fields : f.requiredOnOutcome}}

NameAccepted(spec) == spec.name \notin ReservedNames

\* Mutated form of TemplateAccepted: a template may name any declared field.
DeclaredTemplateAccepted(s) == s.templated => s.template \subseteq Names(s)

\* A template may name required fields only.
TemplateAccepted(s) == s.templated => s.template \subseteq Required(s)

SchemaAccepted(s) ==
    /\ (s.severity = "none") # (s.category = "none")
    /\ \A spec \in s.fields : NameAccepted(spec)
    /\ \A f, g \in s.fields : f.name = g.name => f = g
    /\ TemplateAccepted(s)

\* Mutated form of ForConsumers: the namespace of the package is open to all.
ForEveryone(id) == TRUE

\* register: the application has every namespace but the package's own.
ForConsumers(id) == id \notin ReservedIds

\* _insert refuses an id that is registered.
Vacant(id) == registry[id] = NoSchema

Insert(s) == registry' = [registry EXCEPT ![s.id] = s]

Declare(s) ==
    /\ SchemaAccepted(s)
    /\ ForConsumers(s.id)
    /\ Vacant(s.id)
    /\ Insert(s)
    /\ UNCHANGED <<facade, begun, last, verdict>>

\* supports_context_manager: the automatic outcome, which carries no field, can fit.
SupportsContextManagerByIntent(s) == Required(s) = {}  \* mutated form
SupportsContextManager(s) == RequiredOnOutcome(s) = {}

--------------------------------------------------------------------------------
(* OperationalLog.__init__ on a registry that sibling facades may share.        *)

StringField(name, required) ==
    [name |-> name, type |-> "str", isList |-> FALSE, required |-> required,
     requiredOnOutcome |-> FALSE]

DefectSchema ==
    [id |-> DefectEvent, severity |-> "ERROR", category |-> "none",
     fields |-> {StringField(Violation, TRUE), StringField(OffendingEvent, FALSE)},
     templated |-> FALSE, template |-> {}, literal |-> NoText]

\* The test for the package's own event, whose answer is acted upon in a later step.
CheckDefectEvent(t) ==
    /\ facade[t] = "none"
    /\ facade' = [facade EXCEPT ![t] = IF Vacant(DefectEvent) THEN "registering" ELSE "ready"]
    /\ UNCHANGED <<registry, begun, last, verdict>>

\* register_reserved raises if a sibling came first.
RegisterDefectEvent(t) ==
    /\ facade[t] = "registering"
    /\ \/ /\ Vacant(DefectEvent)
          /\ Insert(DefectSchema)
          /\ facade' = [facade EXCEPT ![t] = "ready"]
       \/ /\ ~Vacant(DefectEvent)
          /\ facade' = [facade EXCEPT ![t] = "failed"]
          /\ UNCHANGED registry
    /\ UNCHANGED <<begun, last, verdict>>

--------------------------------------------------------------------------------
(* The field guard: _guard_fields, _guard_value and _guard_scalar.              *)

Fitting == [bool |-> {"bool"}, int |-> {"int", "huge_int"}, float |-> {"float"}, str |-> {"str"}]

ValueFits(spec, value) ==
    /\ spec.isList <=> value.shape \in {"list", "tuple"}
    /\ value.of \subseteq Fitting[spec.type]

GuardAccepts(s, fields, required) ==
    /\ DOMAIN fields \subseteq Names(s)
    /\ required \subseteq DOMAIN fields
    /\ \A spec \in s.fields : spec.name \in DOMAIN fields => ValueFits(spec, fields[spec.name])

\* Mutated form of Frozen: a list stays the caller's own.
Shared(value) == value

\* A list is materialised as a tuple.
Frozen(value) == [value EXCEPT !.shape = IF @ = "scalar" THEN "scalar" ELSE "tuple"]

Guarded(fields) == [name \in DOMAIN fields |-> Frozen(fields[name])]

\* Mutated form of RequiredAt: the stage makes no difference.
RequiredAlways(s, stage) == Required(s)

RequiredAt(s, stage) == IF stage = "outcome" THEN RequiredOnOutcome(s) ELSE Required(s)

ValidOperational(s, severity, fields) ==
    s.severity = severity /\ GuardAccepts(s, fields, Required(s))

ValidAudit(s, stage, fields) ==
    s.category # "none" /\ GuardAccepts(s, fields, RequiredAt(s, stage))

--------------------------------------------------------------------------------
(* What comes after the guard: render_message, Record.__post_init__, to_mapping *)
(* and encode.                                                                  *)

HasHugeInt(fields) == \E name \in DOMAIN fields : "huge_int" \in fields[name].of

\* render_message: nothing without a template or where a placeholder has no value.
Message(s, fields) ==
    IF s.templated /\ s.template \subseteq DOMAIN fields THEN "text" ELSE "none"

OperationalRecord(s, severity, time, fields) ==
    [event |-> s.id, timestamp |-> time, severity |-> severity, category |-> "none", stage |-> "none",
     actor |-> NoActor, paired |-> FALSE, outcome |-> "none",
     fields |-> Guarded(fields), message |-> Message(s, fields)]

\* _build, with the operation id that pairs an intent with its outcome.
AuditRecord(s, stage, actor, outcome, time, fields) ==
    [event |-> s.id, timestamp |-> time, severity |-> "none", category |-> s.category, stage |-> stage,
     actor |-> actor, paired |-> TRUE, outcome |-> outcome,
     fields |-> Guarded(fields), message |-> Message(s, fields)]

\* The text of a huge integer is asked for where a template names it.
Renders(s, r) ==
    r.message = "text" => \A name \in s.template : "huge_int" \notin r.fields[name].of

AuditShape(r) ==
    /\ r.actor.accountable
    /\ r.paired
    /\ r.stage = "outcome" <=> r.outcome # "none"

\* _is_field_value: a scalar or a tuple of scalars.
IsFieldValue(value) == value.shape \in {"scalar", "tuple"} /\ "other" \notin value.of

RecordAccepts(r) ==
    /\ r.timestamp = "utc"
    /\ DOMAIN r.fields \cap ReservedNames = {}
    /\ \A name \in DOMAIN r.fields : IsFieldValue(r.fields[name])
    /\ r.category # "none" => AuditShape(r)

\* to_mapping looks for a reserved name once more.
Maps(r) == DOMAIN r.fields \cap ReservedNames = {}

\* The codec and then UTF-8, for all that is in the line.
Encodes(s, r) ==
    /\ \A name \in DOMAIN r.fields :
          r.fields[name].of \cap {"bad_str", "huge_int", "nan"} = {}
    /\ r.actor.encodable
    /\ r.message = "text" => s.literal.encodable

Bytes(part, size) == {part} \X (1..size)

\* The bytes of the encoded line, each as its place in a part of the record.
Line(s, r) ==
    UNION
        ({Bytes(<<"envelope">>, EnvelopeSize[r.event]), Bytes(<<"actor">>, r.actor.size)}
         \cup {Bytes(<<"outcome">>, OutcomeSize[o]) : o \in Outcomes \cap {r.outcome}}
         \cup {Bytes(<<"field", name>>, r.fields[name].size) : name \in DOMAIN r.fields}
         \cup (IF r.message = "none" THEN {}
               ELSE {Bytes(<<"literal">>, s.literal.size)} \cup
                    {Bytes(<<"placeholder", name>>, r.fields[name].size) : name \in s.template}))

LineSize(s, r) == Cardinality(Line(s, r))

\* The size of the whole line is looked at by the sink.
FitsLine(s, r) == LineSize(s, r) <= MAX_RECORD_BYTES

\* The fate of the record r of an event declared as s.
Fate(s, r) ==
    IF ~Renders(s, r) THEN "unrenderable"
    ELSE IF ~RecordAccepts(r) THEN "misbuilt"
    ELSE IF ~(Maps(r) /\ Encodes(s, r)) THEN "unencodable"
    ELSE IF ~FitsLine(s, r) THEN "oversize"
    ELSE "persisted"

Become(s, r) ==
    /\ last' = r
    /\ verdict' = Fate(s, r)
    /\ UNCHANGED <<registry, facade>>

Fields ==
    UNION {[names -> Values] : names \in {n \in SUBSET FieldNames : Cardinality(n) <= MaxFields}}

\* OperationalLog._emit of a registered event, once a facade exists to call.
Emit(id, severity, fields) ==
    LET s == registry[id]
    IN  /\ \E t \in Threads : facade[t] = "ready"
        /\ s # NoSchema
        /\ ValidOperational(s, severity, fields)
        /\ \E time \in Clocks : Become(s, OperationalRecord(s, severity, time, fields))
        /\ UNCHANGED begun

\* Mutated form of Handle: intent returns one whatever became of its record.
HandleAnyway(s, r) == {<<r.event, r.actor>>}

\* The handle that intent returns once its record is durable.
Handle(s, r) == IF Fate(s, r) = "persisted" THEN {<<r.event, r.actor>>} ELSE {}

\* AuditLog.intent.
Intend(id, actor, fields) ==
    LET s == registry[id]
        r(time) == AuditRecord(s, "intent", actor, "none", time, fields)
    IN  /\ s # NoSchema
        /\ ValidAudit(s, "intent", fields)
        /\ \E time \in Clocks :
              /\ Become(s, r(time))
              /\ begun' = begun \cup Handle(s, r(time))

\* AuditOperation.success, failure or indeterminate, the automatic one included.
Conclude(id, actor, outcome, fields) ==
    LET s == registry[id]
    IN  /\ <<id, actor>> \in begun
        /\ ValidAudit(s, "outcome", fields)
        /\ \E time \in Clocks :
              Become(s, AuditRecord(s, "outcome", actor, outcome, time, fields))
        /\ UNCHANGED begun

--------------------------------------------------------------------------------
Next ==
    \/ \E s \in Proposals : Declare(s)
    \/ \E t \in Threads : CheckDefectEvent(t) \/ RegisterDefectEvent(t)
    \/ \E id \in {e \in EventIds : ~Vacant(e)}, fields \in Fields :
          \/ \E severity \in Severities : Emit(id, severity, fields)
          \/ \E actor \in Actors : Intend(id, actor, fields)
    \/ \E p \in begun, outcome \in Outcomes, fields \in Fields :
          Conclude(p[1], p[2], outcome, fields)

Spec == Init /\ [][Next]_vars

--------------------------------------------------------------------------------
(* What the declarations promise. *)

FieldValues == {value \in AllValues : value.shape # "list"}

\* The type invariant of the registry, the facades and the latest record.
TypeOK ==
    /\ \A id \in EventIds : registry[id] # NoSchema => registry[id] \in Declarations
    /\ DOMAIN registry = EventIds
    /\ facade \in [Threads -> {"none", "registering", "ready", "failed"}]
    /\ begun \subseteq EventIds \X Actors
    /\ last # NoRecord =>
          /\ last.event \in EventIds
          /\ last.timestamp \in Clocks
          /\ last.severity \in Severities \cup {"none"}
          /\ last.category \in Categories \cup {"none"}
          /\ last.stage \in Stages \cup {"none"}
          /\ last.actor \in Actors \cup {NoActor}
          /\ last.outcome \in Outcomes \cup {"none"}
          /\ last.message \in {"none", "text"}
          /\ \A name \in DOMAIN last.fields :
                name \in FieldNames /\ last.fields[name] \in FieldValues
    /\ verdict \in {"none", "persisted", "unrenderable", "misbuilt", "unencodable", "oversize"}

\* What is persisted is what the event declares at the time of reading, whatever was
\* declared since: its kind, its pinned severity, its fields with values that fit, for
\* each stage the fields required of it, a UTC time, and an accountable actor on every
\* audit record (events.py:287-294, record.py:282-291).
RecordsConform ==
    verdict = "persisted" =>
        LET s == registry[last.event]
        IN  /\ s # NoSchema
            /\ last.timestamp = "utc"
            /\ last.severity = s.severity /\ last.category = s.category
            /\ last.actor.accountable = (s.category # "none")
            /\ (IF last.stage = "outcome" THEN RequiredOnOutcome(s) ELSE Required(s))
                  \subseteq DOMAIN last.fields
            /\ \A name \in DOMAIN last.fields : \E spec \in s.fields :
                  spec.name = name /\ ValueFits(spec, last.fields[name])

\* A call that the guard let through can still be refused, and these are the ways: the
\* clock is broken; an integer is too long to convert; the line as a whole is too long;
\* and what the guard never sees, the actor of an intent and the text of a template, is
\* not accountable or not encodable.  After a durable intent neither of the last two
\* refuses an outcome, and never does the record, the mapping or the codec refuse a field
\* for any other reason (record.py:10-15, events.py:226-229, jsonl.py:117-129).
NoLateRefusal ==
    \/ verdict \in {"none", "persisted", "oversize"}
    \/ verdict = "misbuilt" /\ last.timestamp = "broken"
    \/ verdict \in {"unrenderable", "unencodable"} /\ HasHugeInt(last.fields)
    \/ verdict = "misbuilt" /\ last.stage = "intent" /\ ~last.actor.accountable
    \/ /\ verdict = "unencodable" /\ last.stage # "outcome"
       /\ ~last.actor.encodable \/ ~registry[last.event].literal.encodable

\* An event with a template never loses its message but on an outcome record, where the
\* field may legitimately be absent (events.py:305-309).
AlwaysRendered ==
    verdict = "persisted" /\ last.stage # "outcome" /\ registry[last.event].templated =>
        last.message = "text"

NoFields == [name \in {} |-> {}]

\* Once the intent of an event that operation() lets in is durable, the indeterminate
\* outcome it writes on its own, with no fields, is one that the event accepts and every
\* layer takes while the clock is right, but for one: its line may be too long, and then by
\* no more than the outcome itself adds, all else having been in the line of the intent
\* (events.py:250-260, jsonl_audit.py:103).
AutomaticOutcomeFits ==
    \A p \in begun :
        LET s == registry[p[1]]
            r == AuditRecord(s, "outcome", p[2], "indeterminate", "utc", NoFields)
        IN  SupportsContextManager(s) =>
                /\ ValidAudit(s, "outcome", NoFields)
                /\ \/ Fate(s, r) = "persisted"
                   \/ /\ Fate(s, r) = "oversize"
                      /\ LineSize(s, r) <= MAX_RECORD_BYTES + OutcomeSize["indeterminate"]

Text == [shape |-> "scalar", of |-> {"str"}, size |-> DefectTextSize]

\* A facade that exists can always say that a call was malformed, with or without the
\* name of the event: no declaration of the application's, before or after the facade was
\* constructed, gets in the way of its defect record while the clock is right
\* (operational.py:39-50, 100-104).
DefectRecordable ==
    (\E t \in Threads : facade[t] = "ready") =>
        \A names \in {{Violation}, {Violation, OffendingEvent}} :
            LET s == registry[DefectEvent]
                fields == [name \in names |-> Text]
            IN  /\ s # NoSchema
                /\ ValidOperational(s, "ERROR", fields)
                /\ Fate(s, OperationalRecord(s, "ERROR", "utc", fields)) = "persisted"

===============================================================================
