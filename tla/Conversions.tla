---------------------------- MODULE Conversions ----------------------------
(***************************************************************************)
(* models/model-extensions.ts and TypeConverterExtensions.cs: how what a   *)
(* user passes where a model class is expected (a hashtable, an id, an     *)
(* object of another class) becomes an instance.                           *)
(*                                                                         *)
(* A table is a hashtable or a PSObject: its entries, by names of          *)
(* properties, and whether the keys are spelled exactly as those are.      *)
(* gen is what the generator knows: [schemas, virt, classes].              *)
(***************************************************************************)
EXTENDS Instances, ModelTweaks

Table(exact, entries) == [value |-> "table", exact |-> exact, entries |-> entries]

\* A conversion that throws.
Failure == [value |-> "failure"]

VirtualOf_NotInherited(gen, id) ==
  IF id \in DOMAIN gen.virt THEN gen.virt[id].owned \o gen.virt[id].inlined ELSE <<>>
VirtualOf(gen, id) == IF id \in DOMAIN gen.virt THEN AllVirtual(gen.virt[id]) ELSE <<>>

\* getVirtualPropertyName: the key of a virtual property in a table is its name,
\* but an inherited one that is not the parent's own has the parent's name.
RECURSIVE VirtualPropertyName(_, _, _)
VirtualPropertyName(gen, id, v) ==
  LET Same(each) == each.id = v.id
      Shares(parent) == SelectSeq(VirtualOf(gen, parent), Same) # <<>>
      parent == SelectSeq(gen.schemas[id].parents, Shares)[1]
      copy == SelectSeq(VirtualOf(gen, parent), Same)[1]
  IN IF v.id[1] = id \/ Contains(gen.virt[parent].owned, copy) THEN v.name
     ELSE VirtualPropertyName(gen, parent, copy)

\* The dictionary of an instance may be that of a parent (of the last that has one).
OwnerOf(classes, class) ==
  Last(SelectSeq(class.backing, LAMBDA parent : classes[parent].dictionary # "none"))

RECURSIVE Entries(_, _), CopyFrom(_, _, _)
Entries(classes, instance) ==
  LET class == classes[instance.class]
  IN CASE class.dictionary = "none" -> <<>>
       [] class.dictionary = "own" -> instance.more
       [] OTHER -> Entries(classes, instance.back[OwnerOf(classes, class)])

CopyFrom(classes, instance, more) ==
  LET class == classes[instance.class]
  IN IF class.dictionary = "own" THEN [instance EXCEPT !.more = more]
     ELSE [instance EXCEPT !.back[OwnerOf(classes, class)] = CopyFrom(classes, @, more)]

\* A string, an enumeration and what else can be made of any object's text.
OfText(type, item) ==
  CASE type.clr \in {"string", "enum"} /\ item.value # "scalar" -> Scalar("text of an object")
    [] item.value = "scalar" -> item
    [] OTHER -> Failure

RECURSIVE Convert(_, _, _), ConvertFrom(_, _, _), Deserialize(_, _, _)

\* convertObjectMethod of the declarations.  An array leaves out the elements
\* that cannot be converted (SelectToArray); a single value is an array of one,
\* but a hashtable is taken for the collection of its entries.
Convert(gen, type, item) ==
  LET element == type.element[1]
      Each(items) == SelectSeq([i \in DOMAIN items |-> Convert(gen, element, items[i])],
                               LAMBDA value : value # Failure)
      Entry == IF element.of = "class" THEN Null ELSE OfText(element, Items(<<>>))
  IN CASE type.of = "class" -> ConvertFrom(gen, type.schema, item)
       [] type.of = "array" ->
            CASE item = Null -> Null
              [] item.value = "list" -> Items(Each(item.items))
              [] item.value = "table" ->
                   Items(SelectSeq([i \in 1..Cardinality(DOMAIN item.entries) |-> Entry],
                                   LAMBDA value : value # Failure))
              [] OTHER -> Items(Each(<<item>>))
       [] type.of \in {"bytes", "binary", "password"} ->
            IF item.value \in {"null", "scalar"} THEN item ELSE Failure
       [] type.of = "plain" -> OfText(type, item)

\* ConvertFrom of the type converter of a class: ids first, then what can be
\* assigned, then JSON, then tables.
ConvertFrom(gen, id, item) ==
  LET schema == gen.schemas[id]
      ids == SelectSeq(VirtualOf(gen, id), LAMBDA v : v.name = <<"id">>)
      WithId(value) == SetProperty(gen.classes, NewInstance(gen.classes, id), ids[1].id, value)
      json == ToJson(gen.classes, Empty, item, TRUE)
  IN CASE item.value = "null" -> Null
       [] item.value = "scalar" ->
            IF schema.byReference \/ (Azure /\ schema.uid = "universal-parameter-type")
            THEN WithId(item) ELSE Null
       [] item.value = "list" -> Null
       [] item.value = "raw" -> FromJson(gen.classes, id, item.node)
       [] item.value = "table" -> Deserialize(gen, id, item)
       [] item.value = "instance" ->
            LET held == SelectSeq(VirtualOf(gen, item.class), LAMBDA v : v.name = <<"id">>)
            IN IF schema.byReference /\ held # <<>>
               THEN WithId(GetProperty(gen.classes, item, held[1].id))
               ELSE IF DerivesFrom(gen.classes, item.class, id) THEN item
               ELSE IF json = Thrown THEN Null ELSE FromJson(gen.classes, id, json)

\* PowerShell asks this first: a string is for what has an id, other things are
\* asked for their JSON.
CanConvertFrom(gen, id, item) ==
  LET schema == gen.schemas[id]
  IN \/ item.value \in {"null", "table", "raw"}
     \/ item.value = "scalar" /\ (schema.byReference \/ schema.uid # "none")
     \/ item.value = "instance" /\ ToJson(gen.classes, Empty, item, TRUE) # Thrown

\* DeserializeFromDictionary: every virtual property, private ones too, gets what
\* the table has for it in any spelling, or what it has already if that cannot be
\* converted.  What else the table has goes to the dictionary, if there is one;
\* there the names of the properties are left out as they are spelled.
Deserialize(gen, id, table) ==
  LET virtual == VirtualOf(gen, id)
      Set(instance, v) ==
        LET type == ResolveTypeDeclaration(gen.schemas, v.prop.schema, v.prop.required)
            key == VirtualPropertyName(gen, id, v)
            current == GetProperty(gen.classes, instance, v.id)
            value == IF key \in DOMAIN table.entries THEN Convert(gen, type, table.entries[key])
                     ELSE current
        IN SetProperty(gen.classes, instance, v.id, IF value = Failure THEN current ELSE value)
      properties == FoldLeft(Set, NewInstance(gen.classes, id), virtual)
      exclusions == IF table.exact THEN {v.name : v \in ToSet(virtual)} ELSE {}
      kept == {key \in DOMAIN table.entries \ exclusions : table.entries[key] # Null}
      more == [key \in kept |-> Convert(gen, gen.classes[id].valueType[1], table.entries[key])]
  IN CASE gen.classes[id].dictionary = "none" -> properties
       [] gen.classes[id].dictionary # "none" /\ \E key \in kept : more[key] = Failure -> Failure
       [] OTHER -> CopyFrom(gen.classes, properties, more)
=============================================================================
