------------------------------ MODULE Envelope ------------------------------
(***************************************************************************)
(* event.py, validate.py, models.py and compliance/_compat.py: an event,   *)
(* the four checks of its fields, its JSON and its pydantic model.  A      *)
(* field's value is the class of what it may hold: "upper" and "lower" for *)
(* the case of a ULID, "bad" for what no pattern takes, None if not given. *)
(***************************************************************************)
EXTENDS Optionals

CONSTANT MaxUnusual   \* bound: fields unlike those of a plain event

(* What is not given is of no class of what is given.                      *)
ASSUME EnvelopeAssumption == None \notin {"upper", "lower", "bad", "few", "many", "blank", "id"}

VARIABLES
  evPc, event,
  signedText, \* the text its checksum is of, None if it is not signed
  evJson,     \* the document to_json wrote
  reread      \* the event that from_json or to_event made

envelopeVars == <<evPc, event, signedText, evJson, reread>>

-----------------------------------------------------------------------------
(* Fields *)

StringIds == {"org_id", "team_id", "actor_id", "session_id"}

(* What callers and files give; "impossible" is a timestamp of a date that *)
(* does not exist, "millis" one without six digits, "mixed" a source with  *)
(* capitals or a suffix.  A payload is over the limits of from_json, deeper *)
(* than 10 levels or too long ("deep"), has its keys out of order, dates,  *)
(* keys that are numbers, or values that JSON does not know ("opaque").    *)
Given ==
  [schema_version |-> {"1.0", "2.0", "3.0", "bad"},
   event_id       |-> {"upper", "lower", "bad"},
   event_type     |-> {"registered", "custom", "reserved", "bad"},
   timestamp      |-> {"micros", "millis", "impossible", "bad"},
   source         |-> {"plain", "mixed", "bad"},
   payload        |-> {"flat", "shuffled", "empty", "deep", "dated", "numbered", "opaque"},
   tags           |-> {None, "few", "many"},
   prev_id        |-> {None, "upper", "lower", "bad"}] ++
  Each({"trace_id", "span_id", "parent_span_id"}, {None, "hex", "bad"}) ++
  Each({"checksum", "signature"}, {None, "formed", "bad"}) ++
  Each(StringIds, {None, "id", "blank", "empty"})

PlainEvent ==
  [schema_version |-> "2.0", event_id |-> "upper", event_type |-> "registered",
   timestamp |-> "micros", source |-> "plain", payload |-> "flat"] ++
  Each({"tags", "prev_id", "trace_id", "span_id", "parent_span_id", "checksum", "signature"}
       \cup StringIds, None)

-----------------------------------------------------------------------------
(* The four checks: the classes each lets through *)

Known     == {"1.0", "2.0"}             \* _ACCEPTED_SCHEMA_VERSIONS
Ulids     == {"upper", "lower"}         \* ulid.validate, in either case
Types     == {"registered", "custom"}   \* an llm.* type must be registered
Stamps    == {"micros"}                 \* Z, six digits and a date that exists
Sources   == {"plain", "mixed"}
NotEmpty  == Given.payload \ {"empty"}
Hex       == {None, "hex"}
SomeText  == {None, "id", "blank"}
Digests   == {None, "formed"}

SpanIds == Each({"trace_id", "span_id", "parent_span_id"}, Hex)

(* Event.validate does not look at tags, checksum and signature.           *)
ByEvent ==
  [schema_version |-> Known, event_id |-> Ulids, event_type |-> Types, timestamp |-> Stamps,
   source |-> Sources, payload |-> NotEmpty, prev_id |-> Ulids \cup {None}] ++
  SpanIds ++ Each(StringIds, SomeText)

(* validate_event without jsonschema: ULIDs in upper case only, and dates  *)
(* by their pattern alone.  Event.to_dict leaves out what is None.         *)
FewTags == {None, "few"}
BySchema ==
  [schema_version |-> Known, event_id |-> {"upper"}, event_type |-> Types,
   timestamp |-> Stamps \cup {"impossible"}, source |-> Sources, payload |-> NotEmpty,
   prev_id |-> {None, "upper"}, tags |-> FewTags] ++
  Each({"trace_id", "span_id", "parent_span_id"}, Hex) ++
  Each({"checksum", "signature"}, Digests) ++ Each(StringIds, SomeText)

(* validate_event with jsonschema: the envelope of schema.json, the same   *)
(* in v1.0 and v2.0.  A version that has no such file is refused as well.  *)
BySchemaFile ==
  [schema_version |-> Known, event_id |-> {"upper"}, event_type |-> Types,
   timestamp |-> Stamps \cup {"impossible"}, source |-> Sources, payload |-> NotEmpty,
   prev_id |-> {None, "upper"}, tags |-> FewTags] ++
  Each({"trace_id", "span_id", "parent_span_id"}, Hex) ++
  Each({"checksum", "signature"}, Digests) ++ Each(StringIds, SomeText)

(* EventModel: any version of its form, any type of its form.              *)
ByModel ==
  [schema_version |-> Known \cup {"3.0"}, event_id |-> Ulids,
   event_type |-> Types \cup {"reserved"}, timestamp |-> {"micros", "millis", "impossible"},
   source |-> {"plain"}, payload |-> NotEmpty, prev_id |-> Ulids \cup {None}] ++
  Each({"trace_id", "span_id", "parent_span_id"}, Hex) ++ Each(StringIds, {None, "id"})

(* test_compatibility: these fields.                                      *)
ByCompatibility ==
  [payload |-> NotEmpty, event_type |-> Types, source |-> Sources, event_id |-> Ulids]

Passes(check, e) == \A f \in DOMAIN check : e[f] \in check[f]

-----------------------------------------------------------------------------
(* JSON *)

(* _json_default writes a date as text.  Keys are sorted when they are     *)
(* written, those that are numbers as numbers, and are texts when they are *)
(* read.                                                                   *)
ReadPayload(p) == CASE p = "shuffled" -> "flat"       [] p = "dated" -> "dated text"
                    [] p = "numbered" -> "key texts"  [] OTHER -> p

(* _canonical_payload_bytes: what a checksum is of.  Keys are sorted as    *)
(* they are.  Mutant: they are not sorted.                                 *)
CanonicalUnsorted(p) == IF p = "key texts" THEN "sorted as texts" ELSE p
Canonical(p) == CASE p = "shuffled"  -> "flat"
                  [] p = "key texts" -> "sorted as texts"
                  [] OTHER -> p
CannotSign == {"opaque", "dated"}   \* no _json_default there

(* from_json refuses what is too deep and has too many tags, and a         *)
(* document without a required member; what to_json writes has them all.   *)
RequiredMembers == {"schema_version", "event_id", "event_type", "timestamp", "source", "payload"}
TooDeep(p) == p = "deep"
Readable(doc) ==
  /\ ~TooDeep(doc.payload) /\ RequiredMembers \subseteq DOMAIN doc
  /\ "tags" \in DOMAIN doc => doc.tags # "many"

(* to_dict leaves out what is None; from_dict asks data.get for it.        *)
WrittenFields(e) == {f \in DOMAIN e : e[f] # None}
DocumentOf(e)    == [f \in WrittenFields(e) |-> IF f = "payload" THEN ReadPayload(e[f]) ELSE e[f]]

EventOf(doc) == [f \in DOMAIN Given |-> IF f \in DOMAIN doc THEN doc[f] ELSE None]

-----------------------------------------------------------------------------
(* Operations *)

NoDocument == <<>>

EnvInit ==
  /\ evPc = "new" /\ event = PlainEvent /\ signedText = None
  /\ evJson = NoDocument /\ reread = NoDocument

Unusual == {f \in DOMAIN event : event[f] # PlainEvent[f]}
Choose(f, v) ==
  /\ evPc = "new" /\ f \notin Unusual /\ Cardinality(Unusual) < MaxUnusual
  /\ event' = [event EXCEPT ![f] = v]
  /\ UNCHANGED <<evPc, signedText, evJson, reread>>

(* The constructor checks nothing, except that tags are text.              *)
MakeEvent ==
  /\ evPc = "new" /\ evPc' = "made"
  /\ UNCHANGED <<event, signedText, evJson, reread>>

(* sign() links to the event it is given, or to none.                      *)
SignEvent(prev) ==
  /\ evPc = "made" /\ signedText = None
  /\ IF event.payload \in CannotSign THEN evPc' = "unsignable" /\ UNCHANGED <<event, signedText>>
     ELSE /\ event' = [event EXCEPT !.checksum = "formed", !.signature = "formed", !.prev_id = prev]
          /\ signedText' = Canonical(event.payload)
          /\ UNCHANGED evPc
  /\ UNCHANGED <<evJson, reread>>

ToJson ==
  /\ evPc = "made"
  /\ IF event.payload = "opaque" THEN evPc' = "unserialisable" /\ UNCHANGED evJson
     ELSE evPc' = "written" /\ evJson' = DocumentOf(event)
  /\ UNCHANGED <<event, signedText, reread>>

FromJson ==
  /\ evPc = "written"
  /\ IF Readable(evJson) THEN evPc' = "reread" /\ reread' = EventOf(evJson)
     ELSE evPc' = "unreadable" /\ UNCHANGED reread
  /\ UNCHANGED <<event, signedText, evJson>>

(* from_event and to_event: the model keeps every field.                   *)
ThroughModel ==
  /\ evPc = "made"
  /\ IF Passes(ByModel, event) THEN evPc' = "remodelled" /\ reread' = event
     ELSE evPc' = "refused by model" /\ UNCHANGED reread
  /\ UNCHANGED <<event, signedText, evJson>>

EnvNext ==
  \/ \E f \in DOMAIN Given : \E v \in Given[f] \ {event[f]} : Choose(f, v)
  \/ MakeEvent \/ ToJson \/ FromJson \/ ThroughModel
  \/ \E prev \in {None, "upper"} : SignEvent(prev)

EnvSpec == EnvInit /\ [][EnvNext]_envelopeVars

-----------------------------------------------------------------------------
(* Properties *)

Reread == evPc \in {"reread", "remodelled"}

(* What is read back, from JSON or from the model, has every field of the  *)
(* event that was written, and a chain link among them.                    *)
EnvelopeSurvives ==
  Reread => \A f \in DOMAIN Given \ {"payload"} : reread[f] = event[f]

(* A signature made before an event was written holds after it was read:   *)
(* its checksum is of the same text.  Keys that are numbers break this.    *)
SignatureSurvivesJson ==
  Reread /\ signedText # None /\ event.payload # "numbered" =>
    Canonical(reread.payload) = signedText

(* The checks differ in the cases named here, and only in these: of what   *)
(* validate() lets through, of what validate_event does, which says the    *)
(* same with jsonschema and without it, and of what the model does.        *)
(* models.py names none of them (ModelTakesValidEvents).                   *)
ChecksAgree ==
  evPc = "made" =>
    /\ Passes(BySchemaFile, event) <=> Passes(BySchema, event)
    /\ Passes(ByEvent, event) =>
         /\ Passes(ByCompatibility, event)
         /\ ~Passes(BySchema, event) <=>
              "lower" \in {event.event_id, event.prev_id}
              \/ "bad" \in {event.checksum, event.signature} \/ event.tags = "many"
         /\ ~Passes(ByModel, event) <=>
              event.source = "mixed" \/ "blank" \in {event[f] : f \in StringIds}
    /\ Passes(BySchema, event) => (~Passes(ByEvent, event) <=> event.timestamp = "impossible")
    /\ Passes(ByModel, event) =>
         (~Passes(ByEvent, event) <=>
            \/ event.schema_version = "3.0" \/ event.event_type = "reserved"
            \/ event.timestamp \in {"millis", "impossible"})

(* models.py: "Validation rules are equivalent to those enforced by        *)
(* Event.validate, so EventModel.from_event(event) succeeds for any event  *)
(* that passes Event.validate".  Not so: ChecksAgree has the two cases.     *)
ModelTakesValidEvents ==
  evPc = "made" /\ Passes(ByEvent, event) => Passes(ByModel, event)
=============================================================================
