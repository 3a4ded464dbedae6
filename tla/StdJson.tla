------------------------------- MODULE StdJson -------------------------------
(***************************************************************************)
(* A call of std/codec.decode, std/codec.encode or std/json.schema (vm.rs) *)
(* from beginning to end.  A predicate is a call of the program's own, so  *)
(* encode stops at the first it needs, and starts over with the answer     *)
(* (JsonEncodeContinuation).                                               *)
(***************************************************************************)
EXTENDS JsonSchema

CONSTANTS Requests      \* what is asked: [operation, metadata, input]

VARIABLES request, schema, decisions, asked, outcome

jsonVars == <<request, schema, decisions, asked, outcome>>

Root == <<"$">>
Outcome(kind, value) == [kind |-> kind, value |-> value]
Running == Outcome("running", None)

Decode(type, v) ==
    Transform([direction |-> "Decode", decisions |-> <<>>, in_place |-> FALSE], type, v, Root)

\* Decorators: what they take, and the metadata they make, of one wrapper with
\* the attribute given last over those already there.
ConfigurationIsValid(key, payload) ==
    CASE key = "rename" -> payload.k = "String"
      [] key = "rename_all" -> payload = AtomValue("CamelCase")
      [] key = "skip" -> IsPolicy(payload)
      [] OTHER -> TRUE

Decorated(m, key, payload) ==
    LET stripped == StripRuntimeAttributes(m)
    IN  [kind |-> "WithAttributes", inner |-> stripped.inner,
         attributes |-> (key :> payload) @@ stripped.attributes]

\* What is read back of the text a value is written as: floats are written
\* without a point when they are whole, and a number without one is an integer.
RECURSIVE Reread(_)
Reread(v) ==
    CASE v.k \in {"Int", "String"} \/ v \in {None, True, False} -> Ok(v)
      [] v.k = "Float" -> Ok(IF v.n % 2 = 0 THEN IntValue(v.n \div 2) ELSE v)
      [] v.k = "Array" -> Then(Collect([i \in DOMAIN v.items |-> Reread(v.items[i])]), ArrayValue)
      [] v.k = "Dict" ->
            LET names == InOrder(DOMAIN v.fields)
            IN  Then(Collect([i \in DOMAIN names |-> Reread(v.fields[names[i]])]),
                     LAMBDA values : DictValue(ByName(names, values)))
      [] OTHER -> Failed

FinishCodecResult(result) ==
    outcome' = IF result.ok THEN Outcome("Ok", result.value) ELSE Outcome("Err", None)

FinishJsonSchema(document) ==
    outcome' = IF document = NoSchema THEN Outcome("error", None) ELSE Outcome("Ok", document)

ContinueJsonEncode(type, answers) ==
    \E result \in {Transform([direction |-> "Encode", decisions |-> answers, in_place |-> FALSE],
                             type, request.input, Root)} :
        /\ decisions' = answers
        /\ IF result.ask # <<>>
           THEN asked' = Append(asked, result.ask[1]) /\ UNCHANGED outcome
           ELSE FinishCodecResult(result) /\ UNCHANGED asked

JsonInit ==
    /\ request \in Requests
    /\ schema = Invalid /\ decisions = <<>> /\ asked = <<>> /\ outcome = Running

RunCoreCodec ==
    /\ IsInvalid(schema) /\ outcome = Running
    /\ \E type \in {DecodeRuntimeType(request.metadata)} :
          IF IsInvalid(type) \/ ~GraphIsReady(type)
          THEN outcome' = Outcome("error", None) /\ UNCHANGED <<schema, decisions, asked>>
          ELSE /\ schema' = type
               /\ \/ request.operation = "encode" /\ ContinueJsonEncode(type, <<>>)
                  \/ /\ request.operation = "decode"
                     /\ FinishCodecResult(Decode(type, request.input))
                     /\ UNCHANGED <<decisions, asked>>
                  \/ /\ request.operation = "schema"
                     /\ FinishJsonSchema(JsonSchema(type))
                     /\ UNCHANGED <<decisions, asked>>
    /\ UNCHANGED request

\* The predicate asked last answers; an answer that is no Bool is an error.
ResumeJsonEncode ==
    LET pending == Last(asked)
        answer == Answer(pending.callee.name, pending.value)
    IN  /\ ~IsInvalid(schema) /\ outcome = Running
        /\ IF answer \in {"True", "False"}
           THEN ContinueJsonEncode(schema, (pending.path :> (answer = "True")) @@ decisions)
           ELSE outcome' = Outcome("error", None) /\ UNCHANGED <<decisions, asked>>
        /\ UNCHANGED <<request, schema>>

JsonNext == RunCoreCodec \/ ResumeJsonEncode

JsonSpec == JsonInit /\ [][JsonNext]_jsonVars

----------------------------------------------------------------------------
Encoded == request.operation = "encode" /\ outcome.kind = "Ok"

\* A type, its parts, and those of what its links stand for.
RECURSIVE AllParts(_)
AllParts(t) == {t} \cup UNION {AllParts(part) : part \in Parts(t)}

WholeGraph(t) == AllParts(t) \cup UNION {AllParts(Target(l)) : l \in Reached(LinksIn(t))}

\* Some field of a type, or of one it reaches, has a predicate.
Asks(t) == \E f \in WholeGraph(t) : Has(f, "skip") /\ f.attributes["skip"].k = "Func"

\* Two variants of a union ask: their fields of one name are at one path.
UnionAsksTwice(t) ==
    t.kind = "Union" /\ \E i, j \in DOMAIN t.items : i # j /\ Asks(t.items[i]) /\ Asks(t.items[j])

\* A key with a dot in it, in any dict of a value: its path is also that of the
\* second piece within the first.
RECURSIVE HasDottedKey(_)
HasDottedKey(v) ==
    CASE v.k = "Dict" -> \E n \in DOMAIN v.fields : Len(Pieces[n]) > 1 \/ HasDottedKey(v.fields[n])
      [] v.k = "Tagged" -> HasDottedKey(v.payload)
      [] v.k \in {"Array", "Tuple"} -> \E i \in DOMAIN v.items : HasDottedKey(v.items[i])
      [] OTHER -> FALSE

\* An answer is kept under the text of a path, which is of one field only as
\* long as no key has a dot in it and no two variants of a union ask.
PathsTellFields ==
    /\ ~(Asks(schema) /\ HasDottedKey(request.input))
    /\ \A t \in WholeGraph(schema) : ~UnionAsksTwice(t)

\* Where paths tell the fields apart, stopping at a predicate and starting over
\* with its answer encodes the same as applying every predicate where its field
\* is (continue_json_encode).  Where they do not, a field may get the answer
\* that another was given (vm.rs:6318), against RFC 0036.
EncodesInPlace ==
    (request.operation = "encode" /\ outcome.kind \in {"Ok", "Err"} /\ PathsTellFields) =>
        LET direct == Transform([direction |-> "Encode", decisions |-> <<>>, in_place |-> TRUE],
                                schema, request.input, Root)
        IN  outcome = IF direct.ok THEN Outcome("Ok", direct.value) ELSE Outcome("Err", None)

\* A part of the metadata that forgets what it encodes: an option of what may
\* be null itself, a union, a float, a field left out whose default is another.
Forgets(t) ==
    \/ IsOption(t) /\ Decode(OptionItem(t)[1], None).ok
    \/ t.kind = "Union" /\ ~IsOption(t)
    \/ t.kind = "Float"
    \/ t.kind = "Struct" /\ \E n \in DOMAIN t.fields :
          LET f == t.fields[n]
          IN  /\ Has(f, "skip")
              /\ IF Has(f, "default") THEN f.attributes["skip"] # f.attributes["default"]
                 ELSE f.attributes["skip"] # None \/ ~IsOption(ResolveOnce(f))

Returns(text, back) ==
    text.ok => \/ back.ok /\ back.value = request.input
               \/ ~back.ok /\ \E t \in WholeGraph(schema) : Has(t, "untagged")

\* What is encoded, written as text, read and decoded is what it was, or is
\* refused because several untagged variants claim it (transform_codec in both
\* directions, JsonWriter, the lowering of JSON).
RoundTrips ==
    (Encoded /\ \A t \in WholeGraph(schema) : ~Forgets(t)) =>
        Returns(Reread(outcome.value), Decode(schema, Reread(outcome.value).value))

\* A part whose schema says less or more than decode does: an integer is a
\* number but no Float, a tagged value is described by its payload, an atom by
\* its name as text, and a text form is any text.
Approximated(t) ==
    \/ t.kind \in {"Float", "Tagged"} \/ (t.kind = "Atom" /\ t.tag # "None")
    \/ TextBridge(t) = "yes"

\* A number like 1.0, which a schema takes for an integer.
RECURSIVE HasWholeFloat(_)
HasWholeFloat(v) ==
    CASE v.k = "Float" -> v.n % 2 = 0
      [] v.k = "Dict" -> \E n \in DOMAIN v.fields : HasWholeFloat(v.fields[n])
      [] v.k = "Array" -> \E i \in DOMAIN v.items : HasWholeFloat(v.items[i])
      [] OTHER -> FALSE

TakesInt == \E t \in WholeGraph(schema) : t.kind = "Int"

\* The schema of a type describes what decode accepts (generate_json_schema),
\* with the exceptions of Approximated and one more, against RFC 0033: "integer"
\* accepts 1.0, which decode refuses for an Int (vm.rs:8383, 6928).
SchemaDescribesDecode ==
    request.operation = "decode" /\ outcome.kind \in {"Ok", "Err"} =>
        LET document == JsonSchema(schema)
        IN  (/\ document # NoSchema
             /\ \A t \in WholeGraph(schema) : ~Approximated(t)
             /\ ~(TakesInt /\ HasWholeFloat(request.input))) =>
                (outcome.kind = "Ok" <=> Accepts(document.definitions, document.root, request.input))
=============================================================================
