---------------------------- MODULE ModelTweaks ----------------------------
(***************************************************************************)
(* plugins/plugin-tweak-m4-model.ts, plugin-tweak-model.ts and             *)
(* plugin-tweak-model-azure-v2.ts: what is changed in the code model       *)
(* before commands are made from it.  A model has                          *)
(*   schemas     from ids to schemas,                                      *)
(*   objects     the ids of the object schemas, in their order,            *)
(*   operations  the operations, in their order,                           *)
(*   error       whether a plugin has thrown.                              *)
(* The id of a schema is the name it has at first.                         *)
(***************************************************************************)
EXTENDS VirtualProperties, TLC

CONSTANTS
  NoInline,               \* the models named in no-inline directives
  Azure,                  \* the setting azure
  SubResourcesByReference \* the setting make-sub-resources-byreference

Identity == <<"service", "identity">>

PlainSchema(type, name) ==
  [type |-> type, name |-> name, parents |-> <<>>, props |-> <<>>, element |-> <<>>,
   choices |-> 0, skip |-> "unset", skipInline |-> FALSE, byReference |-> FALSE,
   versions |-> {}, uid |-> "none", cs |-> <<>>, space |-> 0,
   precision |-> 0, discriminator |-> <<>>, kind |-> "none"]

PlainProperty(ser, name, schema) ==
  [ser |-> ser, name |-> name, schema |-> schema, required |-> FALSE, readOnly |-> FALSE,
   constant |-> FALSE, header |-> "none"]

PlainParameter(ser, name, in, schema) ==
  [ser |-> ser, name |-> name, in |-> in, schema |-> schema, required |-> TRUE,
   constant |-> FALSE, fromHost |-> FALSE, apiversion |-> FALSE, completer |-> "none", raw |-> FALSE]

\* A change to every operation of the model.
EachOperation(model, Change(_)) ==
  [model EXCEPT !.operations = [i \in DOMAIN @ |-> Change(@[i])]]

(***************************************************************************)
(* plugin-tweak-m4-model.ts                                                *)
(***************************************************************************)

\* The headers of a response without a schema become a schema of their own.
HeaderSchema(op, response) == op.group \o op.name \o <<response.code, "response", "headers">>

NeedsHeaderSchema(response) == response.schema = <<>> /\ response.headers # <<>>

HeaderProperties(headers) ==
  [i \in DOMAIN headers |->
     [PlainProperty(headers[i], headers[i], <<"string">>) EXCEPT !.header = "Header"]]

\* Those that an operation needs: [id, props].
HeaderSchemas(op) ==
  LET needs == Filtered(op.responses, NeedsHeaderSchema)
  IN [i \in DOMAIN needs |-> [id |-> HeaderSchema(op, needs[i]),
                              props |-> HeaderProperties(needs[i].headers)]]

ReferToHeaders(op) ==
  LET Named(response) ==
        IF NeedsHeaderSchema(response)
        THEN [response EXCEPT !.headerSchema = HeaderSchema(op, response)] ELSE response
  IN [op EXCEPT !.responses = [i \in DOMAIN @ |-> Named(@[i])]]

\* (One that was made with the same name already gets the properties, too.)
AddResponseHeaderSchema(model) ==
  LET made == FlattenSeq([i \in DOMAIN model.operations |-> HeaderSchemas(model.operations[i])])
      All(id) == LET same == Filtered(made, LAMBDA each : each.id = id)
                 IN FlattenSeq([i \in DOMAIN same |-> same[i].props])
      new == {made[i].id : i \in DOMAIN made}
  IN EachOperation([model EXCEPT !.objects = @ \o [i \in DOMAIN made |-> made[i].id],
                                 !.schemas = [id \in DOMAIN @ \cup new |->
                                   IF id \in new THEN [PlainSchema("object", id) EXCEPT !.props = All(id)]
                                   ELSE @[id]]],
                   ReferToHeaders)

VersionsFromObject(schemas, id) ==
  LET props == AllProperties(schemas, id)
      used == {props[i].schema : i \in DOMAIN props}
  IN [d \in DOMAIN schemas |->
        IF d \in used /\ schemas[d].type = "dictionary" /\ schemas[d].versions = {}
        THEN [schemas[d] EXCEPT !.versions = schemas[id].versions] ELSE schemas[d]]

\* A dictionary has the versions of its elements, or of the first object that
\* has a property of it.
AddDictionaryApiVersion(model) ==
  LET Dictionary(id) == model.schemas[id].type = "dictionary" /\ model.schemas[id].versions = {}
      FromElement(id) ==
        IF Dictionary(id) /\ model.schemas[id].element # <<>>
        THEN model.schemas[model.schemas[id].element].versions ELSE model.schemas[id].versions
      elements == [id \in DOMAIN model.schemas |->
                     [model.schemas[id] EXCEPT !.versions = FromElement(id)]]
  IN [model EXCEPT !.schemas = FoldLeft(VersionsFromObject, elements, model.objects)]

HandleNoInline(model) ==
  [model EXCEPT !.schemas = [id \in DOMAIN @ |->
     IF id \in ToSet(model.objects) /\ @[id].name \in NoInline
     THEN [@[id] EXCEPT !.skipInline = TRUE] ELSE @[id]]]

TweakM4(model) == HandleNoInline(AddDictionaryApiVersion(AddResponseHeaderSchema(model)))

(***************************************************************************)
(* plugin-tweak-model.ts                                                   *)
(***************************************************************************)

\* The identity has the parameters in the path of all operations, the first of
\* each name.
UniversalId_Unlisted(model) ==
  [model EXCEPT !.schemas = With(@, Identity, PlainSchema("object", Identity))]
AddToIdentity(props, p) ==
  IF \E i \in DOMAIN props : props[i].name = p.name THEN props
  ELSE Append(props, PlainProperty(p.ser, p.name, p.schema))
UniversalId(model) ==
  LET paths == FlattenSeq([i \in DOMAIN model.operations |->
                 Filtered(model.operations[i].params, LAMBDA p : p.in = "path")])
      id == IF Azure THEN <<PlainProperty(<<"id">>, <<"id">>, <<"string">>)>> ELSE <<>>
      schema == [PlainSchema("object", Identity) EXCEPT
                   !.props = FoldLeft(AddToIdentity, <<>>, paths) \o id,
                   !.uid = "universal-parameter-type"]
  IN [model EXCEPT !.objects = Append(@, Identity), !.schemas = With(@, Identity, schema)]

\* A schema after its ancestors, the way they are gone through: depth first, and
\* an ancestor on two lines twice.
Ancestry(schemas, id) ==
  LET line[each \in DOMAIN schemas] ==
        LET parents == schemas[each].parents
        IN Append(FlattenSeq([i \in DOMAIN parents |-> line[parents[i]]]), each)
  IN line[id]

Lineage(schemas, id) == ToSet(Ancestry(schemas, id))

\* A property is put into the map, or dropped if one like it is in it already.
Look(found, each, p) ==
  LET TypeOf(s) == found.schemas[s].type
      q == found.map[p.ser]
  IN CASE p.ser \notin DOMAIN found.map -> [found EXCEPT !.map = With(@, p.ser, p)]
       [] p.ser \in DOMAIN found.map /\ TypeOf(p.schema) # TypeOf(q.schema) -> found
       [] OTHER ->
            IF TypeOf(q.schema) # "object" \/ p.schema = q.schema
            THEN [found EXCEPT !.schemas[each].props = Filtered(@, LAMBDA r : r.ser # p.ser)]
            ELSE [found EXCEPT !.ok = FALSE]

LookAtAll(found, each) ==
  IF found.ok
  THEN FoldLeft(LAMBDA f, p : Look(f, each, p), found, found.schemas[each].props)
  ELSE found

\* One map goes through all the ancestors of a schema, those on different
\* sides and those met twice included; what is in it already is dropped.
DropDuplicates(found, id) == FoldLeft(LookAtAll, found, Ancestry(found.schemas, id))

DropAllDuplicates_OneMap(model) ==
  LET found == FoldLeft(DropDuplicates, [schemas |-> model.schemas, map |-> <<>>, ok |-> TRUE],
                        model.objects)
  IN [model EXCEPT !.schemas = found.schemas, !.error = ~found.ok]
DropInherited(found, id) ==
  IF found.schemas[id].parents = <<>> THEN found
  ELSE DropDuplicates([found EXCEPT !.map = <<>>], id)
DropAllDuplicates(model) ==
  LET found == FoldLeft(DropInherited, [schemas |-> model.schemas, map |-> <<>>, ok |-> TRUE], model.objects)
  IN [model EXCEPT !.schemas = found.schemas, !.error = ~found.ok]

\* A header of a response with an object schema is a property of that schema;
\* if one of its name is there already, it comes from both.
AddHeaderProperty(schemas, id, header) ==
  LET all == AllProperties(schemas, id)
      named == {i \in DOMAIN all : all[i].name = header}
      p == all[Min(named)]
      Both(q) == IF q = p /\ q.header = "none"
                 THEN [q EXCEPT !.header = "HeaderAndBody"] ELSE q
  IN CASE schemas[id].type # "object" -> schemas
       [] schemas[id].type = "object" /\ named = {} ->
            [schemas EXCEPT ![id].props =
               Append(@, [PlainProperty(header, header, <<"string">>) EXCEPT !.header = "Header"])]
       [] OTHER ->
            [s \in DOMAIN schemas |->
               IF s \notin Lineage(schemas, id) THEN schemas[s]
               ELSE [schemas[s] EXCEPT !.props = [i \in DOMAIN @ |-> Both(@[i])]]]

HeadersOf(response) ==
  IF response.schema = <<>> THEN <<>>
  ELSE [i \in DOMAIN response.headers |-> <<response.schema, response.headers[i]>>]

AddHeaderProperties(model) ==
  LET responses == FlattenSeq([i \in DOMAIN model.operations |-> model.operations[i].responses])
      headers == FlattenSeq([i \in DOMAIN responses |-> HeadersOf(responses[i])])
  IN [model EXCEPT !.schemas =
        FoldLeft(LAMBDA s, each : AddHeaderProperty(s, each[1], each[2]), @, headers)]

\* What is required and has one value only is a constant ...
IsConstant(schemas, each) ==
  /\ each.required
  /\ \/ schemas[each.schema].type = "constant"
     \/ schemas[each.schema].type \in {"choice", "sealed-choice"} /\ schemas[each.schema].choices = 1

\* ... and a sealed choice that only constants have needs no type of its own.
SkipSealed(schemas, members) ==
  LET One(id) == schemas[id].type = "sealed-choice" /\ schemas[id].choices = 1
      Uses(id, required) == \E each \in members : each.schema = id /\ each.required = required
  IN [id \in DOMAIN schemas |->
        IF ~One(id) THEN schemas[id]
        ELSE [schemas[id] EXCEPT !.skip = IF Uses(id, FALSE) THEN "no"
                                          ELSE IF Uses(id, TRUE) THEN "yes" ELSE @]]

MarkConstants(model) ==
  LET schemas == model.schemas
      params == UNION {{[schema |-> p.schema, required |-> p.required] : p \in ToSet(op.params)} :
                         op \in ToSet(model.operations)}
      props == UNION {{[schema |-> p.schema, required |-> p.required] : p \in ToSet(schemas[id].props)} :
                        id \in ToSet(model.objects)}
      Mark(each) == [each EXCEPT !.constant = @ \/ IsConstant(schemas, each)]
      marked == [id \in DOMAIN schemas |->
                   [schemas[id] EXCEPT !.props = [i \in DOMAIN @ |-> Mark(@[i])]]]
  IN EachOperation([model EXCEPT !.schemas = SkipSealed(marked, params \cup props)],
                   LAMBDA op : [op EXCEPT !.params = [i \in DOMAIN @ |-> Mark(@[i])]])

Tweak(model) ==
  LET dropped == DropAllDuplicates(UniversalId(model))
  IN IF dropped.error THEN dropped ELSE MarkConstants(AddHeaderProperties(dropped))

(***************************************************************************)
(* plugin-tweak-model-azure-v2.ts                                          *)
(***************************************************************************)

NoPages == [type |-> "none", item |-> <<>>, link |-> <<>>]

\* x-ms-pageable, or what the schema of a response looks like (the last one
\* that looks like a collection).
Pageable(schemas, op) ==
  LET Array(id) == schemas[id].type = "array"
      Looks(found, response) ==
        LET schema == schemas[response.schema]
            items == SelectSeq(schema.props, LAMBDA p : p.ser # <<"next", "link">>)
            nested == /\ schema.type = "object" /\ schema.parents = <<>> /\ items # <<>>
                      /\ \/ Len(schema.props) = 1
                         \/ Len(schema.props) = 2 /\ Len(items) = 1
                      /\ Array(items[1].schema)
        IN CASE response.schema = <<>> -> found
             [] response.schema # <<>> /\ schema.type = "array" ->
                  [NoPages EXCEPT !.type = "array"]
             [] response.schema # <<>> /\ nested ->
                  [type |-> "nested-array", item |-> items[1].ser,
                   link |-> IF Len(schema.props) = 2 THEN <<"next", "link">> ELSE <<>>]
             [] OTHER -> found
  IN IF op.pageable.type = "pageable"
     THEN IF op.pageable.item = <<>> THEN [op.pageable EXCEPT !.item = <<"value">>] ELSE op.pageable
     ELSE FoldLeft(Looks, NoPages, op.responses)

\* The responses that only start a long running operation are not its own.
LongRunning(op) ==
  IF ~op.lro THEN op
  ELSE [op EXCEPT !.asjob = TRUE,
                  !.responses = Filtered(@, LAMBDA r : r.code \notin {"created", "accepted"})]

\* With one version it is a constant, with several the profile decides.
ApiVersions(op) ==
  LET Version(p) == IF p.ser # <<"api", "version">> \/ op.versions = <<>> THEN p
                    ELSE IF Len(op.versions) = 1 THEN [p EXCEPT !.constant = TRUE]
                    ELSE [p EXCEPT !.constant = FALSE, !.apiversion = TRUE]
  IN [op EXCEPT !.params = [i \in DOMAIN @ |-> Version(@[i])]]

\* (readOnly of the details, which is looked at here, is set by csnamer only.)
ByReference(model) ==
  LET HasId(id) == \E p \in ToSet(AllProperties(model.schemas, id)) : p.ser = <<"id">>
      Put(id) == \E op \in ToSet(model.operations) :
                   op.method = "put" /\ \E r \in ToSet(op.responses) : r.schema = id
  IN IF ~(Azure /\ SubResourcesByReference) THEN model
     ELSE [model EXCEPT !.schemas = [id \in DOMAIN @ |->
             IF id \in ToSet(model.objects) /\ HasId(id) /\ Put(id)
             THEN [@[id] EXCEPT !.byReference = TRUE] ELSE @[id]]]

TweakAzure(model) ==
  ByReference(EachOperation(model, LAMBDA op :
    ApiVersions(LongRunning([op EXCEPT !.pageable = Pageable(model.schemas, op)]))))
=============================================================================
