--------------------------- MODULE EventSchemasProofs ---------------------------
(***************************************************************************)
(* Proofs about EventSchemas.                                              *)
(*                                                                         *)
(* What is declared stays as it was declared, so the latest record can at  *)
(* any time be traced to a call that the event's schema accepts, and its   *)
(* verdict recomputed from the two (Traced).  Every other property is a    *)
(* fact about a schema that was accepted and a call that it accepts.       *)
(***************************************************************************)
EXTENDS EventSchemas, FiniteSetTheorems, TLAPS

--------------------------------------------------------------------------------
(* The invariant. *)

\* A schema that made it into the registry under id.
Registered(id, s) == s \in Declarations /\ s.id = id /\ SchemaAccepted(s)

\* r is the record of a call that s accepts; an outcome follows a durable intent.
Operational(s, r) ==
    \E severity \in Severities, time \in Clocks, fields \in Fields :
        /\ ValidOperational(s, severity, fields)
        /\ r = OperationalRecord(s, severity, time, fields)

Intended(s, r) ==
    \E actor \in Actors, time \in Clocks, fields \in Fields :
        /\ ValidAudit(s, "intent", fields)
        /\ r = AuditRecord(s, "intent", actor, "none", time, fields)

\* i is the durable intent of an operation of actor.
IntentOf(s, actor, i) ==
    /\ \E time \in Clocks, fields \in Fields :
          /\ ValidAudit(s, "intent", fields)
          /\ i = AuditRecord(s, "intent", actor, "none", time, fields)
    /\ Fate(s, i) = "persisted"

Began(s, actor) == \E i : IntentOf(s, actor, i)

Concluded(s, r) ==
    \E actor \in Actors, outcome \in Outcomes, time \in Clocks, fields \in Fields :
        /\ Began(s, actor)
        /\ ValidAudit(s, "outcome", fields)
        /\ r = AuditRecord(s, "outcome", actor, outcome, time, fields)

Called(s, r) == Operational(s, r) \/ Intended(s, r) \/ Concluded(s, r)

RegistryOK ==
    /\ registry \in [EventIds -> Declarations \cup {NoSchema}]
    /\ \A id \in EventIds : registry[id] # NoSchema => Registered(id, registry[id])
    /\ registry[DefectEvent] \in {NoSchema, DefectSchema}

FacadesOK ==
    /\ facade \in [Threads -> {"none", "registering", "ready", "failed"}]
    /\ (\E t \in Threads : facade[t] = "ready") => registry[DefectEvent] = DefectSchema

\* Behind every handle there is a durable intent, and what it was accepted by.
BegunOK ==
    /\ begun \subseteq EventIds \X Actors
    /\ \A p \in begun : registry[p[1]] # NoSchema /\ Began(registry[p[1]], p[2])

Traced ==
    IF last = NoRecord THEN verdict = "none"
    ELSE /\ last.event \in EventIds
         /\ registry[last.event] # NoSchema
         /\ Called(registry[last.event], last)
         /\ verdict = Fate(registry[last.event], last)

IInv == RegistryOK /\ FacadesOK /\ BegunOK /\ Traced

--------------------------------------------------------------------------------
(* Schemas and values. *)

LEMMA NoSchemaApart == NoSchema \notin Declarations
<1> SUFFICES ASSUME NoSchema \in Declarations PROVE FALSE
  OBVIOUS
<1>1. "severity" \in DOMAIN NoSchema
  BY DEF Declarations
<1> QED BY <1>1 DEF NoSchema

\* The package's own event is declared as any other must be.
LEMMA DefectRegistered == Registered(DefectEvent, DefectSchema)
<1>1. /\ Violation \in FieldNames \ ReservedNames
      /\ OffendingEvent \in FieldNames \ ReservedNames
      /\ Violation # OffendingEvent /\ DefectEvent \in EventIds
  BY NamesAssumption
<1>2. DefectSchema \in Declarations
  BY <1>1 DEF DefectSchema, Declarations, StringField, Specs, Types, Severities, Categories,
              Texts, NoText
<1>3. SchemaAccepted(DefectSchema)
  <2>1. PICK f, g : f = StringField(Violation, TRUE) /\ g = StringField(OffendingEvent, FALSE)
    OBVIOUS
  <2>2. f.name = Violation /\ g.name = OffendingEvent
    BY <2>1 DEF StringField
  <2>3. /\ DefectSchema.fields = {f, g} /\ ~DefectSchema.templated
        /\ DefectSchema.severity # "none" /\ DefectSchema.category = "none"
    BY <2>1 DEF DefectSchema
  <2> QED BY <1>1, <2>2, <2>3 DEF SchemaAccepted, NameAccepted, TemplateAccepted
<1> QED BY <1>2, <1>3 DEF Registered, DefectSchema

LEMMA FieldsType ==
    ASSUME NEW fields \in Fields
    PROVE  /\ DOMAIN fields \subseteq FieldNames
           /\ \A name \in DOMAIN fields : fields[name] \in AllValues
<1>1. PICK names \in SUBSET FieldNames : fields \in [names -> Values]
  BY DEF Fields
<1> QED BY <1>1, InputsAssumption

\* Freezing a value changes its shape only, and only from a list to a tuple.
LEMMA FrozenValue ==
    ASSUME NEW value \in AllValues
    PROVE  /\ Frozen(value) \in FieldValues
           /\ Frozen(value).of = value.of
           /\ \A spec : ValueFits(spec, value) <=> ValueFits(spec, Frozen(value))
<1>0. value \in [shape : {"scalar", "list", "tuple"}, of : SUBSET ScalarKinds, size : Nat]
  BY DEF AllValues
<1>1. PICK shape \in {"scalar", "tuple"} :
        shape = IF value.shape = "scalar" THEN "scalar" ELSE "tuple"
  OBVIOUS
<1>2. Frozen(value) = [value EXCEPT !.shape = shape]
  BY <1>1 DEF Frozen
<1>3. /\ Frozen(value).shape = shape /\ Frozen(value).of = value.of
      /\ Frozen(value) \in [shape : {"scalar", "list", "tuple"}, of : SUBSET ScalarKinds,
                            size : Nat]
  BY <1>0, <1>1, <1>2
<1>4. Frozen(value) \in FieldValues
  BY <1>0, <1>1, <1>3 DEF FieldValues, AllValues
<1>5. value.shape \in {"list", "tuple"} <=> Frozen(value).shape \in {"list", "tuple"}
  BY <1>0, <1>1, <1>3
<1>6. ASSUME NEW spec
      PROVE  ValueFits(spec, value) <=> ValueFits(spec, Frozen(value))
  BY <1>3, <1>5 DEF ValueFits
<1> QED BY <1>3, <1>4, <1>6

\* What the guard lets through, frozen.
LEMMA GuardedFields ==
    ASSUME NEW s \in Declarations, NEW required, NEW fields \in Fields,
           GuardAccepts(s, fields, required)
    PROVE  /\ DOMAIN Guarded(fields) = DOMAIN fields
           /\ required \subseteq DOMAIN fields
           /\ DOMAIN fields \subseteq FieldNames
           /\ \A name \in DOMAIN fields :
                 /\ Guarded(fields)[name] \in FieldValues
                 /\ \E spec \in s.fields :
                       spec.name = name /\ ValueFits(spec, Guarded(fields)[name])
<1>1. /\ DOMAIN fields \subseteq FieldNames
      /\ \A name \in DOMAIN fields : fields[name] \in AllValues
  BY FieldsType
<1>2. /\ DOMAIN Guarded(fields) = DOMAIN fields
      /\ \A name \in DOMAIN fields : Guarded(fields)[name] = Frozen(fields[name])
  BY DEF Guarded
<1>3. ASSUME NEW name \in DOMAIN fields
      PROVE  /\ Guarded(fields)[name] \in FieldValues
             /\ \E spec \in s.fields :
                   spec.name = name /\ ValueFits(spec, Guarded(fields)[name])
  <2>1. PICK spec \in s.fields : spec.name = name
    BY DEF GuardAccepts, Names
  <2>2. ValueFits(spec, fields[name])
    BY <2>1 DEF GuardAccepts
  <2> QED BY <1>1, <1>2, <2>1, <2>2, FrozenValue
<1> QED BY <1>1, <1>2, <1>3 DEF GuardAccepts

--------------------------------------------------------------------------------
(* Calls that a schema accepts, and the records they become. *)

RequiredOf(s, r) == IF r.stage = "outcome" THEN RequiredOnOutcome(s) ELSE Required(s)

\* All that a record has from its call and the guard.
Wellmade(s, r) ==
    /\ r.event = s.id
    /\ r.timestamp \in Clocks
    /\ r.severity = s.severity /\ r.category = s.category
    /\ r.stage \in Stages \cup {"none"}
    /\ r.actor \in Actors \cup {NoActor}
    /\ r.outcome \in Outcomes \cup {"none"}
    /\ r.category = "none" => r.actor = NoActor
    /\ r.category # "none" =>
          /\ r.paired /\ r.stage \in Stages
          /\ r.stage = "outcome" <=> r.outcome # "none"
    /\ r.stage = "outcome" => Began(s, r.actor)
    /\ RequiredOf(s, r) \subseteq DOMAIN r.fields
    /\ DOMAIN r.fields \subseteq FieldNames
    /\ \A name \in DOMAIN r.fields :
          /\ r.fields[name] \in FieldValues
          /\ \E spec \in s.fields : spec.name = name /\ ValueFits(spec, r.fields[name])
    /\ r.message = Message(s, r.fields)

\* A message depends on which fields are there, and freezing takes none away.
LEMMA SameMessage ==
    ASSUME NEW s, NEW fields
    PROVE  Message(s, Guarded(fields)) = Message(s, fields)
<1>1. DOMAIN Guarded(fields) = DOMAIN fields
  BY DEF Guarded
<1> QED BY <1>1 DEF Message

LEMMA OperationalWellmade ==
    ASSUME NEW s \in Declarations, SchemaAccepted(s), NEW r, Operational(s, r)
    PROVE  Wellmade(s, r) /\ r # NoRecord
<1>1. PICK severity \in Severities, time \in Clocks, fields \in Fields :
        /\ ValidOperational(s, severity, fields)
        /\ r = OperationalRecord(s, severity, time, fields)
  BY DEF Operational
<1>2. PICK g : g = Guarded(fields)
  OBVIOUS
<1>3. /\ r.event = s.id /\ r.timestamp = time /\ r.severity = severity
      /\ r.category = "none" /\ r.stage = "none" /\ r.actor = NoActor /\ r.outcome = "none"
      /\ r.fields = g /\ r.message = Message(s, fields)
  BY <1>1, <1>2 DEF OperationalRecord
<1>4. s.severity = severity /\ severity # "none" /\ GuardAccepts(s, fields, Required(s))
  BY <1>1 DEF ValidOperational, Severities
<1>5. s.category = "none"
  BY <1>4 DEF SchemaAccepted
<1>6. /\ Required(s) \subseteq DOMAIN g /\ DOMAIN g \subseteq FieldNames
      /\ \A name \in DOMAIN g :
            /\ g[name] \in FieldValues
            /\ \E spec \in s.fields : spec.name = name /\ ValueFits(spec, g[name])
  BY <1>2, <1>4, GuardedFields
<1>7. r.message = Message(s, r.fields)
  BY <1>2, <1>3, SameMessage
<1>8. RequiredOf(s, r) = Required(s)
  BY <1>3 DEF RequiredOf
<1>9. Wellmade(s, r)
  BY <1>3, <1>4, <1>5, <1>6, <1>7, <1>8 DEF Wellmade
<1>10. "severity" \in DOMAIN r /\ "severity" \notin DOMAIN NoRecord
  BY <1>1 DEF OperationalRecord, NoRecord
<1> QED BY <1>9, <1>10

\* Of both stages.
LEMMA AuditWellmade ==
    ASSUME NEW s \in Declarations, SchemaAccepted(s), NEW stage \in Stages, NEW actor \in Actors,
           NEW outcome \in Outcomes \cup {"none"}, NEW time \in Clocks, NEW fields \in Fields,
           ValidAudit(s, stage, fields), stage = "outcome" <=> outcome # "none",
           stage = "outcome" => Began(s, actor),
           NEW r, r = AuditRecord(s, stage, actor, outcome, time, fields)
    PROVE  Wellmade(s, r) /\ r # NoRecord
<1>2. PICK g : g = Guarded(fields)
  OBVIOUS
<1>3. /\ r.event = s.id /\ r.timestamp = time /\ r.severity = "none"
      /\ r.category = s.category /\ r.stage = stage /\ r.actor = actor /\ r.outcome = outcome
      /\ r.paired = TRUE
      /\ r.fields = g /\ r.message = Message(s, fields)
  BY <1>2 DEF AuditRecord
<1>4. s.category # "none" /\ GuardAccepts(s, fields, RequiredAt(s, stage))
  BY DEF ValidAudit
<1>5. s.severity = "none"
  BY <1>4 DEF SchemaAccepted
<1>6. /\ RequiredAt(s, stage) \subseteq DOMAIN g /\ DOMAIN g \subseteq FieldNames
      /\ \A name \in DOMAIN g :
            /\ g[name] \in FieldValues
            /\ \E spec \in s.fields : spec.name = name /\ ValueFits(spec, g[name])
  BY <1>2, <1>4, GuardedFields
<1>7. r.message = Message(s, r.fields)
  BY <1>2, <1>3, SameMessage
<1>8. RequiredOf(s, r) = RequiredAt(s, stage)
  BY <1>3 DEF RequiredOf, RequiredAt
<1>9. Wellmade(s, r)
  BY <1>3, <1>4, <1>5, <1>6, <1>7, <1>8 DEF Wellmade
<1>10. "severity" \in DOMAIN r /\ "severity" \notin DOMAIN NoRecord
  BY DEF AuditRecord, NoRecord
<1> QED BY <1>9, <1>10

LEMMA CalledWellmade ==
    ASSUME NEW s \in Declarations, SchemaAccepted(s), NEW r, Called(s, r)
    PROVE  Wellmade(s, r) /\ r # NoRecord
<1>1. CASE Operational(s, r)
  BY <1>1, OperationalWellmade
<1>2. CASE Intended(s, r)
  <2>1. PICK actor \in Actors, time \in Clocks, fields \in Fields :
          /\ ValidAudit(s, "intent", fields)
          /\ r = AuditRecord(s, "intent", actor, "none", time, fields)
    BY <1>2 DEF Intended
  <2>2. PICK stage \in Stages, outcome \in Outcomes \cup {"none"} :
          stage = "intent" /\ outcome = "none"
    BY DEF Stages
  <2>3. (stage = "outcome" <=> outcome # "none") /\ (stage = "outcome" => Began(s, actor))
    BY <2>2
  <2> QED BY <2>1, <2>2, <2>3, AuditWellmade
<1>3. CASE Concluded(s, r)
  <2>1. PICK actor \in Actors, outcome \in Outcomes, time \in Clocks, fields \in Fields :
          /\ Began(s, actor)
          /\ ValidAudit(s, "outcome", fields)
          /\ r = AuditRecord(s, "outcome", actor, outcome, time, fields)
    BY <1>3 DEF Concluded
  <2>2. PICK stage \in Stages : stage = "outcome"
    BY DEF Stages
  <2>3. /\ stage = "outcome" <=> outcome # "none"
        /\ stage = "outcome" => Began(s, actor)
        /\ outcome \in Outcomes \cup {"none"}
    BY <2>1, <2>2 DEF Outcomes
  <2> QED BY <2>1, <2>2, <2>3, AuditWellmade
<1> QED BY <1>1, <1>2, <1>3 DEF Called

\* Of a value that fits a field, only the integer too long to convert is left to refuse.
LEMMA FittingValue ==
    ASSUME NEW s \in Declarations, NEW spec \in s.fields, NEW value, ValueFits(spec, value)
    PROVE  /\ "other" \notin value.of
           /\ value.of \cap {"bad_str", "huge_int", "nan"} \subseteq {"huge_int"}
<1>1. spec.type \in Types
  BY DEF Declarations, Specs
<1>2. value.of \subseteq Fitting[spec.type]
  BY DEF ValueFits
<1>3. Fitting[spec.type] \subseteq {"bool", "int", "huge_int", "float", "str"}
  BY <1>1 DEF Fitting, Types
<1> QED BY <1>2, <1>3

\* What a durable intent says of the actor and the template, both of which it has.
LEMMA IntentHas ==
    ASSUME NEW s \in Declarations, SchemaAccepted(s), NEW actor, NEW i, IntentOf(s, actor, i)
    PROVE  /\ i.actor = actor /\ i.event = s.id
           /\ i.actor.accountable /\ i.actor.encodable
           /\ s.templated => i.message = "text" /\ s.literal.encodable
           /\ FitsLine(s, i)
           /\ DOMAIN i.fields \subseteq FieldNames
           /\ \A name \in DOMAIN i.fields : i.fields[name] \in FieldValues
           /\ i.message = "text" => s.template \subseteq DOMAIN i.fields
<1>1. PICK time \in Clocks, fields \in Fields :
        /\ ValidAudit(s, "intent", fields)
        /\ i = AuditRecord(s, "intent", actor, "none", time, fields)
  BY DEF IntentOf
<1>2. PICK g : g = Guarded(fields)
  OBVIOUS
<1>3. /\ i.event = s.id /\ i.category = s.category /\ i.actor = actor
      /\ i.fields = g /\ i.message = Message(s, fields)
  BY <1>1, <1>2 DEF AuditRecord
<1>4. s.category # "none" /\ GuardAccepts(s, fields, Required(s))
  BY <1>1 DEF ValidAudit, RequiredAt
<1>5. /\ DOMAIN g = DOMAIN fields /\ DOMAIN g \subseteq FieldNames
      /\ \A name \in DOMAIN g : g[name] \in FieldValues
      /\ Required(s) \subseteq DOMAIN fields
  BY <1>2, <1>4, GuardedFields
<1>6. s.templated => i.message = "text"
  BY <1>3, <1>5 DEF SchemaAccepted, TemplateAccepted, Message
<1>7. RecordAccepts(i) /\ Encodes(s, i) /\ FitsLine(s, i)
  BY DEF IntentOf, Fate
<1>8. i.actor.accountable /\ i.actor.encodable /\ (s.templated => s.literal.encodable)
  BY <1>3, <1>4, <1>6, <1>7 DEF RecordAccepts, AuditShape, Encodes
<1>9. i.message = "text" => s.template \subseteq DOMAIN i.fields
  BY <1>3, <1>5 DEF Message
<1> QED BY <1>3, <1>5, <1>6, <1>7, <1>8, <1>9

\* The record and the mapping refuse a record that is well made for its time or its actor
\* only, and the codec for an integer too long to convert or for text that the guard does
\* not see, which a durable intent has shown to be in order.
LEMMA WellmadeAccepted ==
    ASSUME NEW s \in Declarations, SchemaAccepted(s), NEW r, Wellmade(s, r)
    PROVE  /\ Maps(r)
           /\ ~RecordAccepts(r) => r.timestamp = "broken"
                                   \/ (r.stage = "intent" /\ ~r.actor.accountable)
           /\ ~Encodes(s, r) =>
                 \/ HasHugeInt(r.fields)
                 \/ r.stage # "outcome" /\ (~r.actor.encodable \/ ~s.literal.encodable)
           /\ ~Renders(s, r) => HasHugeInt(r.fields)
<1>1. /\ \A name \in DOMAIN r.fields :
            /\ r.fields[name] \in FieldValues
            /\ \E spec \in s.fields : spec.name = name /\ ValueFits(spec, r.fields[name])
      /\ r.timestamp \in Clocks
      /\ r.stage = "outcome" => Began(s, r.actor)
      /\ r.category # "none" =>
            /\ r.paired /\ r.stage \in Stages
            /\ r.stage = "outcome" <=> r.outcome # "none"
      /\ r.message = Message(s, r.fields)
  BY DEF Wellmade
<1>0. r.stage = "outcome" =>
        r.actor.accountable /\ r.actor.encodable /\ (s.templated => s.literal.encodable)
  BY <1>1, IntentHas DEF Began
<1>2. Maps(r)
  <2>1. ASSUME NEW name \in DOMAIN r.fields
        PROVE  name \notin ReservedNames
    BY <1>1 DEF SchemaAccepted, NameAccepted
  <2> QED BY <2>1 DEF Maps
<1>3. ASSUME NEW name \in DOMAIN r.fields
      PROVE  /\ IsFieldValue(r.fields[name])
             /\ r.fields[name].of \cap {"bad_str", "huge_int", "nan"} \subseteq {"huge_int"}
  <2>1. PICK spec \in s.fields : ValueFits(spec, r.fields[name])
    BY <1>1
  <2>2. /\ "other" \notin r.fields[name].of
        /\ r.fields[name].of \cap {"bad_str", "huge_int", "nan"} \subseteq {"huge_int"}
    BY <2>1, FittingValue
  <2>3. r.fields[name].shape \in {"scalar", "tuple"}
    BY <1>1 DEF FieldValues, AllValues
  <2> QED BY <2>2, <2>3 DEF IsFieldValue
<1>4. ASSUME ~RecordAccepts(r), r.timestamp # "broken"
      PROVE  r.stage = "intent" /\ ~r.actor.accountable
  <2>1. r.timestamp = "utc"
    BY <1>1, <1>4 DEF Clocks
  <2>2. r.category # "none" /\ ~AuditShape(r)
    BY <1>2, <1>3, <1>4, <2>1 DEF RecordAccepts, Maps
  <2>3. ~r.actor.accountable
    BY <1>1, <2>2 DEF AuditShape
  <2> QED BY <1>0, <1>1, <2>2, <2>3 DEF Stages
<1>5. ~Encodes(s, r) =>
        \/ HasHugeInt(r.fields)
        \/ r.stage # "outcome" /\ (~r.actor.encodable \/ ~s.literal.encodable)
  <2>1. r.message = "text" => s.templated
    BY <1>1 DEF Message
  <2> QED BY <1>0, <1>3, <2>1 DEF Encodes, HasHugeInt
<1>6. ~Renders(s, r) => HasHugeInt(r.fields)
  <2> SUFFICES ASSUME ~Renders(s, r) PROVE HasHugeInt(r.fields)
    OBVIOUS
  <2>1. s.template \subseteq DOMAIN r.fields
    BY <1>1 DEF Renders, Message
  <2> QED BY <2>1 DEF Renders, HasHugeInt
<1> QED BY <1>2, <1>4, <1>5, <1>6

--------------------------------------------------------------------------------
(* Lines. *)

LEMMA BytesFinite ==
    ASSUME NEW part, NEW size \in Nat
    PROVE  IsFiniteSet(Bytes(part, size)) /\ Cardinality(Bytes(part, size)) = size
<1>1. IsFiniteSet({part}) /\ Cardinality({part}) = 1
  BY FS_Singleton
<1>2. IsFiniteSet(1..size) /\ Cardinality(1..size) = size
  BY FS_Interval
<1>3. /\ IsFiniteSet({part} \X (1..size))
      /\ Cardinality({part} \X (1..size)) = Cardinality({part}) * Cardinality(1..size)
  BY <1>1, <1>2, FS_Product, Zenon
<1>4. Cardinality({part} \X (1..size)) = 1 * size
  BY <1>1, <1>2, <1>3, Zenon
<1>5. 1 * size = size
  OBVIOUS
<1> QED BY <1>3, <1>4, <1>5 DEF Bytes

\* The family of a function with a finite domain of finite sets has a finite union.
LEMMA FamilyFinite ==
    ASSUME NEW S, IsFiniteSet(S), NEW f, f = [x \in S |-> f[x]],
           \A x \in S : IsFiniteSet(f[x])
    PROVE  IsFiniteSet(UNION {f[x] : x \in S})
<1>1. PICK T : T = {f[x] : x \in S}
  OBVIOUS
<1>2. f \in [S -> T]
  BY <1>1
<1>3. f \in Surjection(S, T)
  BY <1>1, <1>2 DEF Surjection
<1>4. IsFiniteSet(T)
  BY <1>3, FS_Surjection
<1> QED BY <1>1, <1>4, FS_UNION

\* A line of finitely many fields is finite.
LEMMA LineFinite ==
    ASSUME NEW s \in Declarations, NEW i, i.event \in EventIds, i.actor \in Actors,
           DOMAIN i.fields \subseteq FieldNames,
           \A name \in DOMAIN i.fields : i.fields[name] \in FieldValues,
           i.message = "text" => s.template \subseteq DOMAIN i.fields,
           i.message \in {"none", "text"}, i.outcome = "none"
    PROVE  IsFiniteSet(Line(s, i))
<1>1. PICK names : names = DOMAIN i.fields
  OBVIOUS
<1>2. IsFiniteSet(names)
  BY <1>1, NamesAssumption, FS_Subset
<1>3. \A name \in names : i.fields[name].size \in Nat
  BY <1>1 DEF FieldValues, AllValues
<1>4. i.actor.size \in Nat /\ EnvelopeSize[i.event] \in Nat /\ s.literal.size \in Nat
  BY InputsAssumption, SizesAssumption DEF AllActors, Declarations, Texts
<1>5. PICK envelope, actor, literal :
        /\ envelope = Bytes(<<"envelope">>, EnvelopeSize[i.event])
        /\ actor = Bytes(<<"actor">>, i.actor.size)
        /\ literal = Bytes(<<"literal">>, s.literal.size)
  OBVIOUS
<1>6. IsFiniteSet(envelope) /\ IsFiniteSet(actor) /\ IsFiniteSet(literal)
  BY <1>4, <1>5, BytesFinite
<1>7. PICK fields : fields = UNION {Bytes(<<"field", name>>, i.fields[name].size) : name \in names}
  OBVIOUS
<1>8. IsFiniteSet(fields)
  <2>1. PICK f : f = [name \in names |-> Bytes(<<"field", name>>, i.fields[name].size)]
    OBVIOUS
  <2>2. \A name \in names : IsFiniteSet(f[name])
    BY <1>3, <2>1, BytesFinite
  <2>5. f = [name \in names |-> f[name]]
    BY <2>1
  <2>3. IsFiniteSet(UNION {f[name] : name \in names})
    BY <1>2, <2>2, <2>5, FamilyFinite
  <2>4. {f[name] : name \in names}
          = {Bytes(<<"field", name>>, i.fields[name].size) : name \in names}
    BY <2>1
  <2> QED BY <1>7, <2>3, <2>4
<1>9. PICK placeholders : placeholders =
        UNION {Bytes(<<"placeholder", name>>, i.fields[name].size) : name \in s.template}
  OBVIOUS
<1>10. i.message = "text" => IsFiniteSet(placeholders)
  <2> SUFFICES ASSUME i.message = "text" PROVE IsFiniteSet(placeholders)
    OBVIOUS
  <2>1. PICK f : f = [name \in s.template |-> Bytes(<<"placeholder", name>>, i.fields[name].size)]
    OBVIOUS
  <2>2. IsFiniteSet(s.template) /\ \A name \in s.template : IsFiniteSet(f[name])
    BY <1>1, <1>2, <1>3, <2>1, BytesFinite, FS_Subset
  <2>5. f = [name \in s.template |-> f[name]]
    BY <2>1
  <2>3. IsFiniteSet(UNION {f[name] : name \in s.template})
    BY <2>2, <2>5, FamilyFinite
  <2>4. {f[name] : name \in s.template}
          = {Bytes(<<"placeholder", name>>, i.fields[name].size) : name \in s.template}
    BY <2>1
  <2> QED BY <1>9, <2>3, <2>4
<1>11. Outcomes \cap {i.outcome} = {}
  BY DEF Outcomes
<1>12. CASE i.message = "none"
  <2>1. Line(s, i) = (envelope \cup actor) \cup fields
    BY <1>1, <1>5, <1>7, <1>11, <1>12 DEF Line
  <2>2. IsFiniteSet(envelope \cup actor)
    BY <1>6, FS_Union
  <2>3. IsFiniteSet((envelope \cup actor) \cup fields)
    BY <1>8, <2>2, FS_Union
  <2> QED BY <2>1, <2>3
<1>13. CASE i.message = "text"
  <2>1. Line(s, i) = ((envelope \cup actor) \cup fields) \cup (literal \cup placeholders)
    BY <1>1, <1>5, <1>7, <1>9, <1>11, <1>13 DEF Line
  <2>2. IsFiniteSet(envelope \cup actor)
    BY <1>6, FS_Union
  <2>3. IsFiniteSet((envelope \cup actor) \cup fields)
    BY <1>8, <2>2, FS_Union
  <2>4. IsFiniteSet(literal \cup placeholders)
    BY <1>6, <1>10, <1>13, FS_Union
  <2>5. IsFiniteSet(((envelope \cup actor) \cup fields) \cup (literal \cup placeholders))
    BY <2>3, <2>4, FS_Union
  <2> QED BY <2>1, <2>5
<1> QED BY <1>12, <1>13

\* All that is in the line of an outcome without fields was in the line of the intent, but
\* for the outcome itself.
LEMMA OutcomeLine ==
    ASSUME NEW s \in Declarations, SchemaAccepted(s), NEW actor \in Actors,
           NEW i, IntentOf(s, actor, i),
           NEW r, r.event = s.id, r.actor = actor, r.outcome = "indeterminate",
           DOMAIN r.fields = {}, r.message = Message(s, NoFields)
    PROVE  Cardinality(Line(s, r)) <= MAX_RECORD_BYTES + OutcomeSize["indeterminate"]
<1>1. /\ i.actor = actor /\ i.event = s.id
      /\ s.templated => i.message = "text"
      /\ FitsLine(s, i)
      /\ DOMAIN i.fields \subseteq FieldNames
      /\ \A name \in DOMAIN i.fields : i.fields[name] \in FieldValues
      /\ i.message = "text" => s.template \subseteq DOMAIN i.fields
  BY IntentHas
<1>2. i.outcome = "none" /\ i.message \in {"none", "text"}
  BY DEF IntentOf, AuditRecord, Message
<1>3. s.id \in EventIds
  BY DEF Declarations
<1>4. IsFiniteSet(Line(s, i))
  BY <1>1, <1>2, <1>3, LineFinite
<1>5. OutcomeSize["indeterminate"] \in Nat /\ MAX_RECORD_BYTES \in Nat
  BY SizesAssumption DEF Outcomes
<1>6. PICK extra : extra = Bytes(<<"outcome">>, OutcomeSize["indeterminate"])
  OBVIOUS
<1>7. IsFiniteSet(extra) /\ Cardinality(extra) = OutcomeSize["indeterminate"]
  BY <1>5, <1>6, BytesFinite
<1>8. r.message # "none" => s.template = {} /\ i.message = "text"
  BY <1>1 DEF Message, NoFields
<1>9. Line(s, r) \subseteq Line(s, i) \cup extra
  <2> SUFFICES ASSUME NEW b \in Line(s, r) PROVE b \in Line(s, i) \cup extra
    OBVIOUS
  <2>1. \/ b \in Bytes(<<"envelope">>, EnvelopeSize[r.event])
        \/ b \in Bytes(<<"actor">>, r.actor.size)
        \/ b \in Bytes(<<"outcome">>, OutcomeSize["indeterminate"])
        \/ r.message # "none" /\ b \in Bytes(<<"literal">>, s.literal.size)
    BY <1>8 DEF Line, Outcomes
  <2>2. Bytes(<<"envelope">>, EnvelopeSize[i.event]) \subseteq Line(s, i)
    BY DEF Line
  <2>3. Bytes(<<"actor">>, i.actor.size) \subseteq Line(s, i)
    BY DEF Line
  <2>4. i.message = "text" => Bytes(<<"literal">>, s.literal.size) \subseteq Line(s, i)
    BY DEF Line
  <2> QED BY <1>1, <1>6, <1>8, <2>1, <2>2, <2>3, <2>4
<1>10. /\ IsFiniteSet(Line(s, i) \cup extra)
       /\ Cardinality(Line(s, i) \cup extra)
             = Cardinality(Line(s, i)) + Cardinality(extra) - Cardinality(Line(s, i) \cap extra)
  BY <1>4, <1>7, FS_Union
<1>11. Cardinality(Line(s, r)) <= Cardinality(Line(s, i) \cup extra)
  BY <1>9, <1>10, FS_Subset
<1>12. Cardinality(Line(s, i) \cap extra) \in Nat /\ Cardinality(Line(s, i)) \in Nat
  <2>1. IsFiniteSet(Line(s, i) \cap extra)
    BY <1>7, FS_Subset
  <2> QED BY <1>4, <2>1, FS_CardinalityType
<1>13. IsFiniteSet(Line(s, r)) /\ Cardinality(Line(s, r)) \in Nat
  BY <1>9, <1>10, FS_Subset, FS_CardinalityType
<1>14. Cardinality(Line(s, i)) <= MAX_RECORD_BYTES
  BY <1>1 DEF FitsLine, LineSize
<1> QED BY <1>5, <1>7, <1>10, <1>11, <1>12, <1>13, <1>14

\* The line of a defect record.
LEMMA DefectLine ==
    ASSUME NEW s, NEW r, r.event = DefectEvent, r.actor = NoActor, r.outcome = "none",
           r.message = "none", DOMAIN r.fields \subseteq {Violation, OffendingEvent},
           \A name \in DOMAIN r.fields : r.fields[name].size = DefectTextSize
    PROVE  FitsLine(s, r)
<1>1. PICK envelope, first, second :
        /\ envelope = Bytes(<<"envelope">>, EnvelopeSize[DefectEvent])
        /\ first = Bytes(<<"field", Violation>>, DefectTextSize)
        /\ second = Bytes(<<"field", OffendingEvent>>, DefectTextSize)
  OBVIOUS
<1>2. /\ DefectTextSize \in Nat /\ EnvelopeSize[DefectEvent] \in Nat
      /\ EnvelopeSize[DefectEvent] + 2 * DefectTextSize <= MAX_RECORD_BYTES
      /\ MAX_RECORD_BYTES \in Nat
  BY NamesAssumption, SizesAssumption
<1>3. /\ IsFiniteSet(envelope) /\ Cardinality(envelope) = EnvelopeSize[DefectEvent]
      /\ IsFiniteSet(first) /\ Cardinality(first) = DefectTextSize
      /\ IsFiniteSet(second) /\ Cardinality(second) = DefectTextSize
  BY <1>1, <1>2, BytesFinite
<1>4. Line(s, r) \subseteq (envelope \cup first) \cup second
  <2>1. Outcomes \cap {r.outcome} = {}
    BY DEF Outcomes
  <2>2. Bytes(<<"actor">>, r.actor.size) = {}
    BY DEF Bytes, NoActor
  <2>3. PICK fields : fields =
          UNION {Bytes(<<"field", name>>, r.fields[name].size) : name \in DOMAIN r.fields}
    OBVIOUS
  <2>4. fields \subseteq first \cup second
    BY <1>1, <2>3
  <2>5. Line(s, r) = envelope \cup fields
    BY <1>1, <2>1, <2>2, <2>3 DEF Line
  <2> QED BY <2>4, <2>5
<1>5. \A S, T : IsFiniteSet(S) /\ IsFiniteSet(T) =>
        IsFiniteSet(S \cup T) /\ Cardinality(S \cup T) <= Cardinality(S) + Cardinality(T)
  <2> SUFFICES ASSUME NEW S, NEW T, IsFiniteSet(S), IsFiniteSet(T)
               PROVE  /\ IsFiniteSet(S \cup T)
                      /\ Cardinality(S \cup T) <= Cardinality(S) + Cardinality(T)
    OBVIOUS
  <2>1. /\ IsFiniteSet(S \cup T)
        /\ Cardinality(S \cup T) = Cardinality(S) + Cardinality(T) - Cardinality(S \cap T)
    BY FS_Union
  <2>2. IsFiniteSet(S \cap T)
    BY FS_Subset
  <2>3. Cardinality(S) \in Nat /\ Cardinality(T) \in Nat /\ Cardinality(S \cap T) \in Nat
    BY <2>2, FS_CardinalityType
  <2> QED BY <2>1, <2>3
<1>6. /\ IsFiniteSet(envelope \cup first) /\ IsFiniteSet((envelope \cup first) \cup second)
      /\ Cardinality(envelope \cup first) <= EnvelopeSize[DefectEvent] + DefectTextSize
      /\ Cardinality((envelope \cup first) \cup second)
            <= Cardinality(envelope \cup first) + DefectTextSize
  <2>1. /\ IsFiniteSet(envelope \cup first)
        /\ Cardinality(envelope \cup first) <= EnvelopeSize[DefectEvent] + DefectTextSize
    BY <1>3, <1>5
  <2> QED BY <1>3, <1>5, <2>1
<1>7. /\ Cardinality(Line(s, r)) <= Cardinality((envelope \cup first) \cup second)
      /\ IsFiniteSet(Line(s, r))
  BY <1>4, <1>6, FS_Subset
<1>8. /\ Cardinality(envelope \cup first) \in Nat
      /\ Cardinality((envelope \cup first) \cup second) \in Nat
      /\ Cardinality(Line(s, r)) \in Nat
  BY <1>6, <1>7, FS_CardinalityType
<1> QED BY <1>2, <1>6, <1>7, <1>8 DEF FitsLine, LineSize

--------------------------------------------------------------------------------
(* The invariant is inductive. *)

LEMMA InitIInv == Init => IInv
<1> SUFFICES ASSUME Init PROVE IInv
  OBVIOUS
<1>1. registry[DefectEvent] = NoSchema
  BY NamesAssumption DEF Init
<1>2. RegistryOK
  BY <1>1 DEF Init, RegistryOK
<1>3. FacadesOK
  BY DEF Init, FacadesOK
<1>4. BegunOK /\ Traced
  BY DEF Init, BegunOK, Traced
<1> QED BY <1>2, <1>3, <1>4 DEF IInv

\* What is declared stays declared, and what it was.
LEMMA NothingRedeclared ==
    ASSUME IInv, NEW s \in Declarations, Vacant(s.id), Insert(s)
    PROVE  /\ s.id \in EventIds
           /\ registry' \in [EventIds -> Declarations \cup {NoSchema}]
           /\ \A id \in EventIds :
                 registry'[id] = IF id = s.id THEN s ELSE registry[id]
           /\ \A id \in EventIds : registry[id] # NoSchema => registry'[id] = registry[id]
<1>1. s.id \in EventIds
  BY DEF Declarations
<1>2. registry \in [EventIds -> Declarations \cup {NoSchema}]
  BY DEF IInv, RegistryOK
<1>3. registry' = [registry EXCEPT ![s.id] = s]
  BY DEF Insert
<1>4. registry' \in [EventIds -> Declarations \cup {NoSchema}]
  BY <1>1, <1>2, <1>3
<1>5. \A id \in EventIds : registry'[id] = IF id = s.id THEN s ELSE registry[id]
  BY <1>1, <1>2, <1>3
<1>6. \A id \in EventIds : registry[id] # NoSchema => registry'[id] = registry[id]
  BY <1>5 DEF Vacant
<1> QED BY <1>1, <1>4, <1>5, <1>6

\* What survives a declaration.
LEMMA DeclarationKeeps ==
    ASSUME IInv, UNCHANGED <<begun, last, verdict>>,
           \A id \in EventIds : registry[id] # NoSchema => registry'[id] = registry[id]
    PROVE  BegunOK' /\ Traced'
<1>1. BegunOK'
  <2>1. \A p \in begun : p[1] \in EventIds
    BY DEF IInv, BegunOK
  <2> QED BY <2>1 DEF IInv, BegunOK
<1>2. Traced'
  <2>1. CASE last = NoRecord
    BY <2>1 DEF IInv, Traced
  <2>2. CASE last # NoRecord
    <3>1. registry'[last.event] = registry[last.event]
      BY <2>2 DEF IInv, Traced
    <3> QED BY <2>2, <3>1 DEF IInv, Traced
  <2> QED BY <2>1, <2>2
<1> QED BY <1>1, <1>2

\* A record that a call accepted becomes the latest.
LEMMA BecomeTraced ==
    ASSUME IInv, NEW id \in EventIds, registry[id] # NoSchema,
           NEW r, Called(registry[id], r), Become(registry[id], r)
    PROVE  /\ RegistryOK' /\ FacadesOK' /\ Traced'
           /\ Wellmade(registry[id], r)
<1>1. /\ registry[id] \in Declarations /\ registry[id].id = id
      /\ SchemaAccepted(registry[id])
  BY DEF IInv, RegistryOK, Registered
<1>2. Wellmade(registry[id], r) /\ r # NoRecord
  BY <1>1, CalledWellmade
<1>3. r.event = id
  BY <1>1, <1>2 DEF Wellmade
<1>4. /\ last' = r /\ verdict' = Fate(registry[id], r)
      /\ UNCHANGED <<registry, facade>>
  BY DEF Become
<1>5. RegistryOK' /\ FacadesOK'
  BY <1>4 DEF IInv, RegistryOK, FacadesOK
<1>6. Traced'
  BY <1>2, <1>3, <1>4 DEF Traced
<1> QED BY <1>2, <1>5, <1>6

LEMMA StepIInv == IInv /\ [Next]_vars => IInv'
<1> SUFFICES ASSUME IInv, [Next]_vars PROVE IInv'
  OBVIOUS
<1>0. DefectEvent \in EventIds /\ DefectEvent \in ReservedIds
  BY NamesAssumption
<1>1. ASSUME NEW s \in Proposals, Declare(s)
      PROVE  IInv'
  <2>1. s \in Declarations
    BY InputsAssumption
  <2>2. /\ SchemaAccepted(s) /\ s.id \notin ReservedIds
        /\ Vacant(s.id) /\ Insert(s)
        /\ UNCHANGED <<facade, begun, last, verdict>>
    BY <1>1 DEF Declare, ForConsumers
  <2>3. /\ registry' \in [EventIds -> Declarations \cup {NoSchema}]
        /\ \A id \in EventIds : registry'[id] = IF id = s.id THEN s ELSE registry[id]
        /\ \A id \in EventIds : registry[id] # NoSchema => registry'[id] = registry[id]
    BY <2>1, <2>2, NothingRedeclared
  <2>4. registry'[DefectEvent] = registry[DefectEvent]
    BY <1>0, <2>2, <2>3
  <2>5. RegistryOK'
    BY <2>1, <2>2, <2>3, <2>4 DEF IInv, RegistryOK, Registered
  <2>6. FacadesOK'
    BY <2>2, <2>4 DEF IInv, FacadesOK
  <2>7. BegunOK' /\ Traced'
    BY <2>2, <2>3, DeclarationKeeps
  <2> QED BY <2>5, <2>6, <2>7 DEF IInv
<1>2. ASSUME NEW t \in Threads, CheckDefectEvent(t)
      PROVE  IInv'
  <2>1. /\ facade' = [facade EXCEPT ![t] = IF Vacant(DefectEvent) THEN "registering" ELSE "ready"]
        /\ UNCHANGED <<registry, begun, last, verdict>>
    BY <1>2 DEF CheckDefectEvent
  <2>2. FacadesOK'
    <3>1. CASE Vacant(DefectEvent)
      BY <2>1, <3>1 DEF IInv, FacadesOK
    <3>2. CASE ~Vacant(DefectEvent)
      BY <2>1, <3>2 DEF IInv, FacadesOK, RegistryOK, Vacant
    <3> QED BY <3>1, <3>2
  <2>3. RegistryOK' /\ BegunOK' /\ Traced'
    BY <2>1 DEF IInv, RegistryOK, BegunOK, Traced
  <2> QED BY <2>2, <2>3 DEF IInv
<1>3. ASSUME NEW t \in Threads, RegisterDefectEvent(t)
      PROVE  IInv'
  <2>1. UNCHANGED <<begun, last, verdict>>
    BY <1>3 DEF RegisterDefectEvent
  <2>2. CASE Vacant(DefectEvent)
    <3>1. /\ Insert(DefectSchema)
          /\ facade' = [facade EXCEPT ![t] = "ready"]
      BY <1>3, <2>2 DEF RegisterDefectEvent
    <3>2. DefectSchema \in Declarations /\ DefectSchema.id = DefectEvent
          /\ SchemaAccepted(DefectSchema)
      BY DefectRegistered DEF Registered
    <3>3. /\ registry' \in [EventIds -> Declarations \cup {NoSchema}]
          /\ \A id \in EventIds :
                registry'[id] = IF id = DefectEvent THEN DefectSchema ELSE registry[id]
          /\ \A id \in EventIds : registry[id] # NoSchema => registry'[id] = registry[id]
      <4>1. PICK s \in Declarations : s = DefectSchema
        BY <3>2
      <4> QED BY <2>2, <3>1, <3>2, <4>1, NothingRedeclared
    <3>4. registry'[DefectEvent] = DefectSchema
      BY <1>0, <3>3
    <3>5. RegistryOK'
      BY <3>2, <3>3, <3>4 DEF IInv, RegistryOK, Registered
    <3>6. FacadesOK'
      BY <3>1, <3>4 DEF IInv, FacadesOK
    <3>7. BegunOK' /\ Traced'
      BY <2>1, <3>3, DeclarationKeeps
    <3> QED BY <3>5, <3>6, <3>7 DEF IInv
  <2>3. CASE ~Vacant(DefectEvent)
    <3>1. facade' = [facade EXCEPT ![t] = "failed"] /\ UNCHANGED registry
      BY <1>3, <2>3 DEF RegisterDefectEvent
    <3>2. FacadesOK'
      BY <3>1 DEF IInv, FacadesOK
    <3>3. RegistryOK' /\ BegunOK' /\ Traced'
      BY <2>1, <3>1 DEF IInv, RegistryOK, BegunOK, Traced
    <3> QED BY <3>2, <3>3 DEF IInv
  <2> QED BY <2>2, <2>3
<1>4. ASSUME NEW id \in EventIds, NEW severity \in Severities, NEW fields \in Fields,
             Emit(id, severity, fields)
      PROVE  IInv'
  <2>0. PICK time \in Clocks : Become(registry[id], OperationalRecord(registry[id], severity, time, fields))
    BY <1>4 DEF Emit
  <2>1. PICK s, r : s = registry[id] /\ r = OperationalRecord(s, severity, time, fields)
    OBVIOUS
  <2>2. /\ s # NoSchema /\ ValidOperational(s, severity, fields)
        /\ Become(s, r) /\ UNCHANGED begun
    BY <1>4, <2>0, <2>1 DEF Emit
  <2>3. Called(s, r)
    BY <2>1, <2>2 DEF Called, Operational
  <2>4. RegistryOK' /\ FacadesOK' /\ Traced'
    BY <2>1, <2>2, <2>3, BecomeTraced
  <2>5. BegunOK'
    BY <2>2 DEF IInv, BegunOK, Become
  <2> QED BY <2>4, <2>5 DEF IInv
<1>5. ASSUME NEW id \in EventIds, NEW actor \in Actors, NEW fields \in Fields,
             Intend(id, actor, fields)
      PROVE  IInv'
  <2>0. PICK time \in Clocks :
          /\ Become(registry[id], AuditRecord(registry[id], "intent", actor, "none", time, fields))
          /\ begun' = begun \cup
                Handle(registry[id], AuditRecord(registry[id], "intent", actor, "none", time, fields))
    BY <1>5 DEF Intend
  <2>1. PICK s, r : s = registry[id] /\ r = AuditRecord(s, "intent", actor, "none", time, fields)
    OBVIOUS
  <2>2. /\ s # NoSchema /\ ValidAudit(s, "intent", fields)
        /\ Become(s, r)
        /\ begun' = begun \cup Handle(s, r)
    BY <1>5, <2>0, <2>1 DEF Intend
  <2>3. Called(s, r)
    BY <2>1, <2>2 DEF Called, Intended
  <2>4. RegistryOK' /\ FacadesOK' /\ Traced'
    BY <2>1, <2>2, <2>3, BecomeTraced
  <2>5. BegunOK'
    <3>1. UNCHANGED registry
      BY <2>2 DEF Become
    <3>2. CASE Fate(s, r) = "persisted"
      <4>1. s.id = id
        BY <2>1, <2>2 DEF IInv, RegistryOK, Registered
      <4>2. r.event = id /\ r.actor = actor
        BY <2>1, <2>2, <4>1 DEF AuditRecord
      <4>3. Began(s, actor)
        BY <2>1, <2>2, <3>2 DEF Began, IntentOf
      <4>4. begun' = begun \cup {<<id, actor>>}
        BY <2>2, <3>2, <4>2 DEF Handle
      <4> QED BY <2>1, <2>2, <3>1, <4>3, <4>4 DEF IInv, BegunOK
    <3>3. CASE Fate(s, r) # "persisted"
      BY <2>2, <3>1, <3>3 DEF IInv, BegunOK, Handle
    <3> QED BY <3>2, <3>3
  <2> QED BY <2>4, <2>5 DEF IInv
<1>6. ASSUME NEW p \in begun, NEW outcome \in Outcomes, NEW fields \in Fields,
             Conclude(p[1], p[2], outcome, fields)
      PROVE  IInv'
  <2>0. PICK id \in EventIds, actor \in Actors : id = p[1] /\ actor = p[2]
    BY DEF IInv, BegunOK
  <2>7. PICK time \in Clocks :
          Become(registry[id], AuditRecord(registry[id], "outcome", actor, outcome, time, fields))
    BY <1>6, <2>0 DEF Conclude
  <2>1. PICK s, r : s = registry[id] /\ r = AuditRecord(s, "outcome", actor, outcome, time, fields)
    OBVIOUS
  <2>2. /\ <<id, actor>> \in begun /\ ValidAudit(s, "outcome", fields)
        /\ Become(s, r) /\ UNCHANGED begun
    BY <1>6, <2>0, <2>1, <2>7 DEF Conclude
  <2>3. Began(s, actor) /\ s # NoSchema
    BY <2>0, <2>1 DEF IInv, BegunOK
  <2>4. Called(s, r)
    BY <2>1, <2>2, <2>3 DEF Called, Concluded
  <2>5. RegistryOK' /\ FacadesOK' /\ Traced'
    BY <2>1, <2>2, <2>3, <2>4, BecomeTraced
  <2>6. BegunOK'
    BY <2>2 DEF IInv, BegunOK, Become
  <2> QED BY <2>5, <2>6 DEF IInv
<1>7. CASE UNCHANGED vars
  BY <1>7 DEF vars, IInv, RegistryOK, FacadesOK, BegunOK, Traced
<1> QED BY <1>1, <1>2, <1>3, <1>4, <1>5, <1>6, <1>7 DEF Next

LEMMA SpecIInv == Spec => []IInv
<1> QED BY InitIInv, StepIInv, PTL DEF Spec

\* The schema of the latest record, and what the two have to do with each other.
LEMMA LatestWellmade ==
    ASSUME IInv, last # NoRecord
    PROVE  /\ registry[last.event] # NoSchema
           /\ registry[last.event] \in Declarations
           /\ SchemaAccepted(registry[last.event])
           /\ Wellmade(registry[last.event], last)
           /\ last.event \in EventIds
           /\ verdict = Fate(registry[last.event], last)
<1>1. /\ last.event \in EventIds /\ registry[last.event] # NoSchema
      /\ Called(registry[last.event], last)
      /\ verdict = Fate(registry[last.event], last)
  BY DEF IInv, Traced
<1>2. registry[last.event] \in Declarations /\ SchemaAccepted(registry[last.event])
  BY <1>1 DEF IInv, RegistryOK, Registered
<1> QED BY <1>1, <1>2, CalledWellmade

--------------------------------------------------------------------------------
(* What the declarations promise. *)

\* For any declarations, calls and values: what is in the registry was declared, and the
\* latest record has envelope values of the vocabularies and frozen fields.
THEOREM TypeCorrect == Spec => []TypeOK
<1>1. IInv => TypeOK
  <2> SUFFICES ASSUME IInv PROVE TypeOK
    OBVIOUS
  <2>1. /\ \A id \in EventIds : registry[id] # NoSchema => registry[id] \in Declarations
        /\ DOMAIN registry = EventIds
        /\ facade \in [Threads -> {"none", "registering", "ready", "failed"}]
        /\ begun \subseteq EventIds \X Actors
    BY DEF IInv, RegistryOK, FacadesOK, BegunOK
  <2>2. CASE last = NoRecord
    BY <2>1, <2>2 DEF IInv, Traced, TypeOK
  <2>3. CASE last # NoRecord
    <3>1. PICK s : s = registry[last.event]
      OBVIOUS
    <3>2. s \in Declarations /\ Wellmade(s, last) /\ last.event \in EventIds
          /\ verdict = Fate(s, last)
      BY <2>3, <3>1, LatestWellmade
    <3>3. s.severity \in Severities \cup {"none"} /\ s.category \in Categories \cup {"none"}
      BY <3>2 DEF Declarations
    <3>4. verdict \in {"persisted", "unrenderable", "misbuilt", "unencodable", "oversize"}
      BY <3>2 DEF Fate
    <3>5. last.message \in {"none", "text"}
      BY <3>2 DEF Wellmade, Message
    <3> QED BY <2>1, <3>2, <3>3, <3>4, <3>5 DEF Wellmade, TypeOK
  <2> QED BY <2>2, <2>3
<1> QED BY <1>1, SpecIInv, PTL

\* Whatever is declared later, a persisted record is what its event declares.
THEOREM PersistedConforms == Spec => []RecordsConform
<1>1. IInv => RecordsConform
  <2> SUFFICES ASSUME IInv, verdict = "persisted" PROVE RecordsConform
    BY DEF RecordsConform
  <2>1. last # NoRecord
    BY DEF IInv, Traced
  <2>2. PICK s : s = registry[last.event]
    OBVIOUS
  <2>3. s # NoSchema /\ Wellmade(s, last) /\ Fate(s, last) = "persisted"
    BY <2>1, <2>2, LatestWellmade
  <2>4. RecordAccepts(last)
    BY <2>3 DEF Fate
  <2>5. /\ last.timestamp = "utc"
        /\ last.category # "none" => last.actor.accountable
    BY <2>4 DEF RecordAccepts, AuditShape
  <2>6. /\ last.severity = s.severity /\ last.category = s.category
        /\ last.category = "none" => last.actor = NoActor
        /\ RequiredOf(s, last) \subseteq DOMAIN last.fields
        /\ \A name \in DOMAIN last.fields : \E spec \in s.fields :
              spec.name = name /\ ValueFits(spec, last.fields[name])
    BY <2>3 DEF Wellmade
  <2>7. last.actor.accountable = (s.category # "none")
    <3>1. last.actor \in Actors \cup {NoActor}
      BY <2>3 DEF Wellmade
    <3>2. last.actor.accountable \in BOOLEAN
      <4>1. CASE last.actor \in Actors
        <5>1. last.actor \in AllActors
          BY <4>1, InputsAssumption
        <5> QED BY <5>1 DEF AllActors
      <4>2. CASE last.actor = NoActor
        <5>1. NoActor.accountable = FALSE
          BY DEF NoActor
        <5> QED BY <4>2, <5>1
      <4> QED BY <3>1, <4>1, <4>2
    <3>3. ~NoActor.accountable
      BY DEF NoActor
    <3> QED BY <2>5, <2>6, <3>2, <3>3
  <2> QED BY <2>2, <2>3, <2>5, <2>6, <2>7 DEF RecordsConform, RequiredOf
<1> QED BY <1>1, SpecIInv, PTL

\* What the layers behind the guard refuse, whatever is declared and passed, and what they
\* can no longer refuse once an intent is durable.
THEOREM GuardRefusesFirst == Spec => []NoLateRefusal
<1>1. IInv => NoLateRefusal
  <2> SUFFICES ASSUME IInv, verdict \notin {"none", "persisted"} PROVE NoLateRefusal
    BY DEF NoLateRefusal
  <2>1. last # NoRecord
    BY DEF IInv, Traced
  <2>2. PICK s : s = registry[last.event]
    OBVIOUS
  <2>3. /\ s \in Declarations /\ SchemaAccepted(s) /\ Wellmade(s, last)
        /\ verdict = Fate(s, last)
    BY <2>1, <2>2, LatestWellmade
  <2>4. /\ Maps(last)
        /\ ~RecordAccepts(last) => last.timestamp = "broken"
                                   \/ (last.stage = "intent" /\ ~last.actor.accountable)
        /\ ~Encodes(s, last) =>
              \/ HasHugeInt(last.fields)
              \/ last.stage # "outcome" /\ (~last.actor.encodable \/ ~s.literal.encodable)
        /\ ~Renders(s, last) => HasHugeInt(last.fields)
    BY <2>3, WellmadeAccepted
  <2> QED BY <2>2, <2>3, <2>4 DEF Fate, NoLateRefusal
<1> QED BY <1>1, SpecIInv, PTL

\* An intent or an operational record of a templated event has its message.
THEOREM MessagesAreRendered == Spec => []AlwaysRendered
<1>1. IInv => AlwaysRendered
  <2> SUFFICES ASSUME IInv, verdict = "persisted", last.stage # "outcome",
                      registry[last.event].templated
               PROVE  last.message = "text"
    BY DEF AlwaysRendered
  <2>1. last # NoRecord
    BY DEF IInv, Traced
  <2>2. PICK s : s = registry[last.event]
    OBVIOUS
  <2>3. SchemaAccepted(s) /\ Wellmade(s, last) /\ s.templated
    BY <2>1, <2>2, LatestWellmade
  <2>4. s.template \subseteq Required(s)
    BY <2>3 DEF SchemaAccepted, TemplateAccepted
  <2>5. Required(s) \subseteq DOMAIN last.fields /\ last.message = Message(s, last.fields)
    BY <2>3 DEF Wellmade, RequiredOf
  <2> QED BY <2>3, <2>4, <2>5 DEF Message
<1> QED BY <1>1, SpecIInv, PTL

\* Any number of threads, declarations and calls before it, an operation's own outcome is
\* refused for its length at most, and only for what it adds to the line of the intent.
THEOREM AutomaticOutcomesFit == Spec => []AutomaticOutcomeFits
<1>1. IInv => AutomaticOutcomeFits
  <2> SUFFICES ASSUME IInv, NEW p \in begun, SupportsContextManager(registry[p[1]])
               PROVE  LET s == registry[p[1]]
                          r == AuditRecord(s, "outcome", p[2], "indeterminate", "utc", NoFields)
                      IN  /\ ValidAudit(s, "outcome", NoFields)
                          /\ \/ Fate(s, r) = "persisted"
                             \/ /\ Fate(s, r) = "oversize"
                                /\ LineSize(s, r) <= MAX_RECORD_BYTES + OutcomeSize["indeterminate"]
    BY DEF AutomaticOutcomeFits
  <2>0. PICK id \in EventIds, actor \in Actors : id = p[1] /\ actor = p[2]
    BY DEF IInv, BegunOK
  <2>1. PICK s, r : /\ s = registry[p[1]]
                    /\ r = AuditRecord(s, "outcome", actor, "indeterminate", "utc", NoFields)
    OBVIOUS
  <2>a. PICK i : IntentOf(s, actor, i)
    BY <2>0, <2>1 DEF IInv, BegunOK, Began
  <2>b. /\ s # NoSchema /\ s \in Declarations /\ SchemaAccepted(s) /\ s.id = id
    BY <2>0, <2>1 DEF IInv, BegunOK, RegistryOK, Registered
  <2>2. RequiredOnOutcome(s) = {} /\ s.category # "none"
    BY <2>1, <2>a DEF SupportsContextManager, IntentOf, ValidAudit
  <2>3. DOMAIN NoFields = {} /\ DOMAIN Guarded(NoFields) = {}
    BY DEF NoFields, Guarded
  <2>4. ValidAudit(s, "outcome", NoFields)
    BY <2>2, <2>3 DEF ValidAudit, GuardAccepts, RequiredAt
  <2>5. /\ r.timestamp = "utc" /\ r.stage = "outcome" /\ r.outcome = "indeterminate"
        /\ r.actor = actor /\ r.paired = TRUE /\ r.event = s.id
        /\ r.fields = Guarded(NoFields) /\ r.message = Message(s, NoFields)
    BY <2>1 DEF AuditRecord
  <2>6. actor.accountable /\ actor.encodable /\ (s.templated => s.literal.encodable)
    BY <2>a, <2>b, IntentHas
  <2>7. RecordAccepts(r)
    BY <2>3, <2>5, <2>6 DEF RecordAccepts, AuditShape
  <2>8. Renders(s, r)
    BY <2>3, <2>5 DEF Renders, Message
  <2>9. Maps(r) /\ Encodes(s, r)
    BY <2>3, <2>5, <2>6 DEF Maps, Encodes, Message
  <2>10. Fate(s, r) = "persisted" \/ Fate(s, r) = "oversize"
    BY <2>7, <2>8, <2>9 DEF Fate
  <2>11. LineSize(s, r) <= MAX_RECORD_BYTES + OutcomeSize["indeterminate"]
    BY <2>3, <2>5, <2>a, <2>b, OutcomeLine DEF LineSize
  <2> QED BY <2>0, <2>1, <2>4, <2>10, <2>11
<1> QED BY <1>1, SpecIInv, PTL

\* Nothing the application declares takes from a facade its own defect record.
THEOREM DefectsAreRecordable == Spec => []DefectRecordable
<1>1. IInv => DefectRecordable
  <2> SUFFICES ASSUME IInv, \E t \in Threads : facade[t] = "ready",
                      NEW names \in {{Violation}, {Violation, OffendingEvent}},
                      NEW s, s = registry[DefectEvent],
                      NEW fields, fields = [name \in names |-> Text]
               PROVE  /\ s # NoSchema
                      /\ ValidOperational(s, "ERROR", fields)
                      /\ Fate(s, OperationalRecord(s, "ERROR", "utc", fields)) = "persisted"
    BY DEF DefectRecordable
  <2>1. s = DefectSchema
    BY DEF IInv, FacadesOK
  <2>2. Registered(DefectEvent, s) /\ s # NoSchema
    BY <2>1, DefectRegistered, NoSchemaApart DEF Registered
  <2>3. PICK f, g : f = StringField(Violation, TRUE) /\ g = StringField(OffendingEvent, FALSE)
    OBVIOUS
  <2>4. /\ s.fields = {f, g} /\ ~s.templated /\ s.severity = "ERROR"
        /\ f.name = Violation /\ f.type = "str" /\ f.isList = FALSE /\ f.required = TRUE
        /\ g.name = OffendingEvent /\ g.type = "str" /\ g.isList = FALSE /\ g.required = FALSE
    BY <2>1, <2>3 DEF DefectSchema, StringField
  <2>5. Names(s) = {Violation, OffendingEvent} /\ Required(s) = {Violation}
    BY <2>4 DEF Names, Required
  <2>6. DOMAIN fields = names /\ \A name \in names : fields[name] = Text
    OBVIOUS
  <2>7. ValueFits(f, Text) /\ ValueFits(g, Text)
    BY <2>4 DEF ValueFits, Text, Fitting
  <2>8. ValidOperational(s, "ERROR", fields)
    BY <2>4, <2>5, <2>6, <2>7 DEF ValidOperational, GuardAccepts
  <2>9. PICK r : r = OperationalRecord(s, "ERROR", "utc", fields)
    OBVIOUS
  <2>10. /\ r.timestamp = "utc" /\ r.category = "none" /\ r.event = s.id
         /\ r.actor = NoActor /\ r.outcome = "none"
         /\ r.fields = Guarded(fields) /\ r.message = Message(s, fields)
    BY <2>9 DEF OperationalRecord
  <2>11. /\ DOMAIN r.fields = names
         /\ \A name \in names : r.fields[name] = Frozen(Text)
    BY <2>6, <2>10 DEF Guarded
  <2>12. /\ Frozen(Text).shape = "scalar" /\ Frozen(Text).of = {"str"}
         /\ Frozen(Text).size = DefectTextSize
    BY DEF Frozen, Text
  <2>13. DOMAIN r.fields \cap ReservedNames = {}
    BY <2>11, NamesAssumption
  <2>14. \A name \in DOMAIN r.fields : IsFieldValue(r.fields[name])
    BY <2>11, <2>12 DEF IsFieldValue
  <2>15. RecordAccepts(r) /\ Maps(r)
    BY <2>10, <2>13, <2>14 DEF RecordAccepts, Maps
  <2>16. Renders(s, r)
    BY <2>4, <2>10 DEF Renders, Message
  <2>17. Encodes(s, r)
    BY <2>4, <2>10, <2>11, <2>12 DEF Encodes, Message, NoActor
  <2>18. FitsLine(s, r)
    BY <2>2, <2>4, <2>10, <2>11, <2>12, DefectLine DEF Message, Registered
  <2> QED BY <2>2, <2>8, <2>9, <2>15, <2>16, <2>17, <2>18 DEF Fate
<1> QED BY <1>1, SpecIInv, PTL

================================================================================
