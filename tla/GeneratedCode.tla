--------------------------- MODULE GeneratedCode ---------------------------
(***************************************************************************)
(* What the generated code does once it runs: its model classes read and   *)
(* write JSON, its cmdlets make bodies of their parameters and its API     *)
(* methods make requests.  The properties hold of the classes at the end   *)
(* of the generation, for payloads that are right for the schemas.         *)
(***************************************************************************)
EXTENDS Generation, Requests

Type(id) == ResolveTypeDeclaration(model.schemas, id, TRUE)

Tokens == [int |-> "small", long |-> "large", float |-> "fraction", double |-> "fraction",
           decimal |-> "fraction"]
Token(clr) == IF clr \in DOMAIN Tokens THEN Tokens[clr] ELSE "text"

\* What a service sends for a schema, with objects so many levels deep, and
\* either with all it may have or with what it must have.
RECURSIVE Payload(_, _, _)
Payload(id, depth, whole) ==
  LET schema == model.schemas[id]
      type == Type(id)
      props == ToSet(AllProperties(model.schemas, id))
      Deep(p) == Type(p.schema).of \in {"class", "array"}
      Sent(p) == /\ p.header # "Header" /\ Type(p.schema).of # "binary"
                 /\ whole \/ p.required
                 /\ Deep(p) => depth > 0 /\ Payload(p.schema, depth - 1, whole) # Empty
      Of(ser) == LET p == CHOOSE each \in props : each.ser = ser /\ Sent(each)
                 IN CASE p.constant -> Leaf("string", "constant")
                      [] ser = schema.discriminator -> Leaf("string", schema.kind)
                      [] OTHER -> Payload(p.schema, depth - 1, whole)
      members == [ser \in {p.ser : p \in {q \in props : Sent(q)}} |-> Of(ser)]
      more == AdditionalPropertiesType(model.schemas, id)
      Kind == IF schema.kind = "none" THEN <<>> ELSE <<"kind">> :> Leaf("string", schema.kind)
      Extra == IF more = <<>> \/ depth = 0 THEN <<>>
               ELSE <<"extra">> :> Payload(more[1].schema, depth - 1, TRUE)
  IN CASE schema.type = "any" -> JsonObject(<<"thing">> :> Leaf("string", "text"))
       [] schema.type \in {"object", "dictionary"} -> JsonObject(Kind @@ Extra @@ members)
       [] type.of = "array" ->
            LET each == Payload(schema.element, depth, whole) IN JsonArray(<<each, each>>)
       [] OTHER -> Leaf(type.json, Token(type.clr))

\* The schemas a payload of this one is made of.
RECURSIVE Parts(_, _)
Parts(id, seen) ==
  LET schema == model.schemas[id]
      element == IF schema.element = <<>> THEN {} ELSE {schema.element}
      next == ({p.schema : p \in ToSet(schema.props)} \cup ToSet(schema.parents)
               \cup element) \ seen
  IN FoldSet(LAMBDA part, found : Parts(part, found), seen \cup next, next)

\* A class whose JSON cannot be read and written back: the known members land in
\* the dictionary too, for the exclusions do not reach the parent that has it;
\* the values of the dictionary are not what ToValue makes of them; bytes in an
\* array; any; a member that is there twice.
Lossy(id) ==
  LET schema == model.schemas[id]
      class == models[id]
      all == AllProperties(model.schemas, id)
  IN CASE schema.type = "array" -> Type(schema.element).of \in {"bytes", "binary", "array"}
       [] schema.type \in {"any", "credential"} -> TRUE
       [] schema.type \in {"object", "dictionary"} ->
            \/ class.dictionary = "own" /\ class.own # <<>>
            \/ \E parent \in ToSet(class.backing) : models[parent].dictionary = "inherited"
            \/ /\ class.dictionary # "none"
               /\ class.valueType[1].clr \notin {"string", "bool", "int", "long", "float", "class"}
            \/ \E i, j \in DOMAIN all : i < j /\ all[i].ser = all[j].ser
       [] OTHER -> FALSE

\* What a service sends for an object is what an instance that is made of it
\* writes, nothing lost and nothing added, also where it is read as an ancestor
\* of which the JSON says what it is.
RoundTrip ==
  LET SaidBy(id) == {id} \cup {base \in Lineage(model.schemas, id) :
                       model.schemas[base].discriminator # <<>> /\ model.schemas[id].kind # "none"}
  IN phase = "done" =>
       \A id \in Objects, whole \in BOOLEAN : \A base \in SaidBy(id) :
         LET json == Payload(id, 3, whole)
         IN \/ ToJson(models, Empty, FromJson(models, base, json), TRUE) = json
            \/ \E part \in Parts(id, {id}) : Lossy(part)

Gen == [schemas |-> model.schemas, virt |-> virt, classes |-> models]

\* A value as a user writes it: objects as tables of their public properties and
\* of what else they hold.
RECURSIVE AsWritten(_, _)
AsWritten(value, exact) ==
  LET public == SelectSeq(VirtualOf(Gen, value.class), LAMBDA v : ~v.private)
      Value(name) == GetProperty(models, value, (CHOOSE v \in ToSet(public) : v.name = name).id)
      names == {name \in {v.name : v \in ToSet(public)} : Value(name) # Null}
  IN CASE value.value = "list" ->
            Items([i \in DOMAIN value.items |-> AsWritten(value.items[i], exact)])
       [] value.value = "instance" ->
            Table(exact, [name \in names |-> AsWritten(Value(name), exact)]
                         @@ Entries(models, value))
       [] OTHER -> value

\* A hashtable of the properties of an object, as users see them, is converted
\* to the same object, whichever way the keys are spelled, and is taken for one
\* that can be converted, as the object itself is.  Exceptions: a property
\* that only the child calls by another name than its parent; other spellings
\* where the class has a dictionary, which takes them for keys of its own; a
\* class that is passed by reference, of which only the id is kept; and the
\* dictionary of a grandparent of what is inlined, which nothing shows any more.
HashtableSets ==
  LET OtherName(id) == \E v \in ToSet(VirtualOf(Gen, id)) :
                       ~v.private /\ VirtualPropertyName(Gen, id, v) # v.name
      Hides(id) == \E v \in ToSet(VirtualOf(Gen, id)) :
                     v.private /\ models[v.prop.schema].dictionary # "none"
      Excepted(id, exact) ==
        id \in DOMAIN models /\
          \/ OtherName(id) \/ Hides(id)
          \/ ~exact /\ models[id].dictionary # "none"
          \/ model.schemas[id].byReference
      Same(id, exact) ==
        LET instance == FromJson(models, id, Payload(id, 3, TRUE))
            written == AsWritten(instance, exact)
        IN /\ CanConvertFrom(Gen, id, written) /\ CanConvertFrom(Gen, id, instance)
           /\ ToJson(models, Empty, ConvertFrom(Gen, id, written), TRUE)
                = ToJson(models, Empty, instance, TRUE)
  IN phase = "done" =>
       \A id \in Objects, exact \in BOOLEAN :
         \/ Same(id, exact)
         \/ \E part \in Parts(id, {id}) : Lossy(part) \/ Excepted(part, exact)

\* A value of a type, as a user passes it.
Sample(id) ==
  IF Type(id).of = "bytes" THEN Scalar("text") ELSE FromNode(models, Type(id), Payload(id, 2, TRUE))

RECURSIVE At(_, _)
At(json, path) ==
  IF path = <<>> THEN json
  ELSE IF json.node # "object" THEN Absent ELSE At(MemberOf(json, path[1]), Tail(path))

\* Whatever users pass for the parameters of an expanded body, each is in the
\* JSON of the request, at the place in the object that its parameter is for.
ParametersAreSent ==
  LET Sent(class, schema) ==
        LET body == class.command.virtual.body
            values == [i \in DOMAIN body |-> Sample(body[i].schema)]
            json == ToNode(models, Type(schema), ExpandedBody(models, schema, body, values), FALSE)
            Expected(i) == ToNode(models, Type(body[i].schema), values[i], FALSE)
        IN \/ \E part \in Parts(schema, {schema}) : Lossy(part)
           \/ \A i \in DOMAIN body : Expected(i) # Empty => At(json, body[i].path) = Expected(i)
  IN phase = "done" =>
       \A i \in DOMAIN classes :
         LET op == Operation(classes[i].command.op)
         IN classes[i].command.drop /\ op.body # <<>> => Sent(classes[i], op.body[1].schema)

\* The identity of the resource an operation is about: its path with values in
\* it, up to the last of them.
ResourceId(op) ==
  LET places == {i \in DOMAIN op.path : ~IsLiteral(op.path[i])}
  IN [i \in 1..Max(places) |-> IF IsLiteral(op.path[i]) THEN op.path[i] ELSE Literal("text")]

\* Every argument is in the request, under the name the service knows and encoded
\* once where it has to be.  By an identity the path is the one that the
\* arguments make.  Two exceptions: types that have no text of their own there
\* (lists, bytes, dates); and a post on the resource itself, or on one where the
\* setting is off, whose path is not what the identity is matched with.
RequestCarries ==
  LET Texts(p) == LET type == OperationParameter(model.schemas, p)
                  IN type.of = "plain" /\ type.clr \notin {"DateTime", "TimeSpan"}
      Args(op) == [ser \in {p.ser : p \in ToSet(op.params)} |->
                     Sample(CHOOSE id \in {p.schema : p \in ToSet(op.params)} :
                              \E p \in ToSet(op.params) : p.ser = ser /\ p.schema = id)]
      Encodings(p, type) == IF p.in = "header" \/ p.raw \/ (p.in = "path" /\ type.clr \in DOMAIN Tokens)
                            THEN 0 ELSE 1
      Piece(p, args) ==
        [name |-> p.ser,
         texts |-> <<Text(<<args[p.ser].data>>, Encodings(p, OperationParameter(model.schemas, p)))>>]
      Place(request, p) == CASE p.in = "path" -> request.path [] p.in = "query" -> request.query
                             [] OTHER -> request.headers
      Said(path) == [i \in DOMAIN path |-> IF IsLiteral(path[i]) THEN path[i]
                                           ELSE [name |-> path[i].name, text |-> path[i].texts[1].tokens]]
      Carries(op) ==
        LET args == Args(op)
            request == Request(model.schemas, models, op, args, <<>>, Null)[1]
            byId == Request(model.schemas, models, op, args, ResourceId(op), Null)
            action == op.method # "post" \/ IsLiteral(Last(op.path)) = IdentityCorrection
        IN /\ \A p \in ToSet(op.params) :
                Texts(p) => Contains(Place(request, p), Piece(p, args))
           /\ In(op, "path") # <<>> /\ (\A p \in ToSet(In(op, "path")) : Texts(p)) /\ action =>
                byId # <<>> /\ Said(byId[1].path) = Said(request.path)
  IN phase = "done" => \A op \in ToSet(model.operations) : Carries(op)
=============================================================================
