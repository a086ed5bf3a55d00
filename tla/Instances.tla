------------------------------ MODULE Instances ------------------------------
(***************************************************************************)
(* llcsharp/model and the JSON runtime: what the instances of the model    *)
(* classes do.  They are read from JSON, written to JSON, and set through  *)
(* the properties a class shows of others (its parents and its inlined     *)
(* objects).  An instance has the parts of its class: back, an instance of *)
(* each parent, own, by serialized names, and more, its dictionary.        *)
(***************************************************************************)
EXTENDS ModelClasses

Member(class, ser) == SelectSeq(class.own, LAMBDA p : p.ser = ser)[1]

(***************************************************************************)
(* JSON.  What is missing or null is Absent; a member that is added twice  *)
(* throws, and so does what it is added to.                                *)
(***************************************************************************)

Absent == [node |-> "absent"]
Thrown == [node |-> "thrown"]
Leaf(json, data) == [node |-> json, data |-> data]
JsonArray(items) == [node |-> "array", items |-> items]
JsonObject(members) == [node |-> "object", members |-> members]
Empty == JsonObject(<<>>)

MemberOf(json, ser) == IF ser \in DOMAIN json.members THEN json.members[ser] ELSE Absent

AddMember(container, ser, node) ==
  IF Thrown \in {container, node} \/ ser \in DOMAIN container.members THEN Thrown
  ELSE JsonObject((ser :> node) @@ container.members)

\* AddIf of Extensions.cs: neither null nor an empty object.
AddIf(container, ser, node) ==
  IF node \in {Absent, Empty} THEN container ELSE AddMember(container, ser, node)

\* The type that ToValue of JsonNode chooses for a node.
ToValue(node) ==
  CASE node.node = "string" -> "string"
    [] node.node = "boolean" -> "bool"
    [] node.node = "number" /\ node.data = "small" -> "int"
    [] node.node = "number" /\ node.data = "large" -> "long"
    [] node.node = "number" /\ node.data \notin {"small", "large"} -> "float"
    [] OTHER -> "none"

(***************************************************************************)
(* Reading                                                                 *)
(***************************************************************************)

RECURSIVE NewInstance(_, _)
NewInstance(classes, id) ==
  LET class == classes[id]
      Initial(p) == IF p.constant THEN Scalar("constant") ELSE DefaultOfType(p.type)
  IN [value |-> "instance", class |-> id,
      back |-> [parent \in ToSet(class.backing) |-> NewInstance(classes, parent)],
      own |-> [ser \in {p.ser : p \in ToSet(class.own)} |-> Initial(Member(class, ser))],
      more |-> <<>>]

RECURSIVE FromNode(_, _, _), FromJson(_, _, _), FromObject(_, _, _, _)

\* An element of an array, or the value itself.
FromNode(classes, type, node) ==
  CASE type.of \in {"bytes", "binary"} -> Null
    [] type.of = "class" -> FromJson(classes, type.schema, node)
    [] type.of = "array" ->
         IF node.node # "array" THEN Null
         ELSE Items([i \in DOMAIN node.items |-> FromNode(classes, type.element[1], node.items[i])])
    [] OTHER -> IF node.node = type.json THEN Scalar(node.data) ELSE DefaultOfType(type)

\* A member, where what is not there or of another type leaves the property as
\* it is.
FromMember(classes, type, node, current) ==
  CASE type.of = "binary" -> Null
    [] type.of = "bytes" -> IF node.node = "string" THEN Scalar(node.data) ELSE Null
    [] OTHER -> IF node.node # type.json THEN current ELSE FromNode(classes, type, node)

\* JsonSerializable.FromJson: what cannot be cast to the type of the values is
\* skipped, and so is what throws.
FromDictionary(classes, json, type, exclusions) ==
  LET Value(node) ==
        CASE type.of = "class" /\ classes[type.schema].any -> [value |-> "raw", node |-> node]
          [] type.of = "class" /\ ~classes[type.schema].any -> FromJson(classes, type.schema, node)
          [] OTHER -> IF ToValue(node) = type.clr THEN Scalar(node.data) ELSE Null
      kept == {ser \in DOMAIN json.members \ exclusions : Value(json.members[ser]) # Null}
  IN [ser \in kept |-> Value(json.members[ser])]

\* The constructor that takes JSON: the dictionary, the parents, its own.
FromObject(classes, id, json, exclusions) ==
  LET class == classes[id]
      new == NewInstance(classes, id)
      Of(parent) == IF classes[parent].dictionary = "own" THEN class.excludes ELSE {}
      Read(ser) == LET p == Member(class, ser)
                   IN IF p.header = "Header" THEN new.own[ser]
                      ELSE FromMember(classes, p.type, MemberOf(json, ser), new.own[ser])
  IN [new EXCEPT
        !.more = IF class.dictionary # "own" THEN <<>>
                 ELSE FromDictionary(classes, json, class.valueType[1], exclusions),
        !.back = [parent \in DOMAIN @ |-> FromObject(classes, parent, json, Of(parent))],
        !.own = [ser \in DOMAIN @ |-> Read(ser)]]

\* A polymorphic class is read as what its discriminator says; the exclusions
\* are passed on by such a class only.
FromJson(classes, id, node) ==
  LET class == classes[id]
      said == MemberOf(node, class.discriminator)
  IN CASE node.node # "object" -> Null
       [] node.node = "object" /\ class.discriminator = <<>> -> FromObject(classes, id, node, {})
       [] OTHER ->
            IF said.node = "string" /\ said.data \in DOMAIN class.children
            THEN FromObject(classes, class.children[said.data], node, {})
            ELSE FromObject(classes, id, node, class.excludes)

(***************************************************************************)
(* Writing                                                                 *)
(***************************************************************************)

RECURSIVE ToNode(_, _, _, _), ToJson(_, _, _, _)

\* As an element of an array: bytes throw if there are none.
ToNode(classes, type, value, all) ==
  CASE type.of = "binary" -> Absent
    [] type.of = "bytes" /\ value = Null -> Thrown
    [] type.of # "binary" /\ type.of # "bytes" /\ value = Null -> Absent
    [] OTHER ->
         CASE value.value = "list" ->
                LET nodes == [i \in DOMAIN value.items |->
                                ToNode(classes, type.element[1], value.items[i], all)]
                IN IF Contains(nodes, Thrown) THEN Thrown
                   ELSE JsonArray(SelectSeq(nodes, LAMBDA node : node \notin {Absent, Empty}))
           [] value.value = "instance" -> ToJson(classes, Empty, value, all)
           [] value.value = "raw" -> value.node
           [] OTHER -> Leaf(type.json, value.data)

\* ToJson of an instance adds to the container: the dictionary, the parents,
\* its own properties, those that are read only if all are wanted
\* (IncludeReadOnly).
ToJson(classes, container, instance, all) ==
  LET class == classes[instance.class]
      More(json, ser) ==
        AddMember(json, ser, ToNode(classes, class.valueType[1], instance.more[ser], all))
      Parent(json, parent) ==
        IF json = Thrown THEN Thrown ELSE ToJson(classes, json, instance.back[parent], all)
      Own(json, p) ==
        LET value == instance.own[p.ser]
        IN CASE json = Thrown -> Thrown
             [] value = Null -> json
             [] p.header = "Header" \/ (p.readOnly /\ ~all) -> json
             [] p.type.of = "array" -> AddMember(json, p.ser, ToNode(classes, p.type, value, all))
             [] OTHER -> AddIf(json, p.ser, ToNode(classes, p.type, value, all))
      more == FoldLeft(More, container, SetToSeq(DOMAIN instance.more))
  IN FoldLeft(Own, FoldLeft(Parent, more, class.backing), class.own)

(***************************************************************************)
(* Setting a virtual property.  Its id names, for every step of the way to *)
(* it, the schema that has the member and the member.                      *)
(***************************************************************************)

RECURSIVE DerivesFrom(_, _, _)
DerivesFrom(classes, id, ancestor) ==
  \/ id = ancestor
  \/ \E parent \in ToSet(classes[id].backing) : DerivesFrom(classes, parent, ancestor)

\* The way to it: the backing field of an inherited one, or the object that holds
\* an inlined one, which the getter creates.
BackingOf(classes, instance, id) ==
  SelectSeq(classes[instance.class].backing, LAMBDA each : DerivesFrom(classes, each, id[1]))[1]
Holder(classes, instance, ser) ==
  IF instance.own[ser] # Null THEN instance.own[ser]
  ELSE NewInstance(classes, Member(classes[instance.class], ser).type.schema)
Rest(id) == SubSeq(id, 3, Len(id))

RECURSIVE GetProperty(_, _, _)
GetProperty(classes, instance, id) ==
  IF id[1] # instance.class
  THEN GetProperty(classes, instance.back[BackingOf(classes, instance, id)], id)
  ELSE IF Len(id) = 2 THEN instance.own[id[2]]
  ELSE GetProperty(classes, Holder(classes, instance, id[2]), Rest(id))

RECURSIVE SetProperty(_, _, _, _)
SetProperty(classes, instance, id, value) ==
  LET Inner == SetProperty(classes, Holder(classes, instance, id[2]), Rest(id), value)
  IN IF id[1] # instance.class
     THEN [instance EXCEPT !.back[BackingOf(classes, instance, id)] =
                             SetProperty(classes, @, id, value)]
     ELSE IF Len(id) = 2 THEN [instance EXCEPT !.own[id[2]] = value]
     ELSE [instance EXCEPT !.own[id[2]] = Inner]
=============================================================================
