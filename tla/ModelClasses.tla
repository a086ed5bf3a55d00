---------------------------- MODULE ModelClasses ----------------------------
(***************************************************************************)
(* llcsharp/model: the model classes of the schemas.  A class has backing  *)
(* fields (an instance of each parent), properties of its own, and a       *)
(* dictionary for what else its JSON holds, which is its own or that of a  *)
(* parent.                                                                 *)
(***************************************************************************)
EXTENDS TypeDeclarations, VirtualProperties

HasDictionary(schemas, id) ==
  \/ schemas[id].type = "dictionary"
  \/ \E parent \in ToSet(schemas[id].parents) : schemas[parent].type = "dictionary"

DictionaryOf(schemas, id) ==
  IF schemas[id].type = "dictionary" THEN id
  ELSE SelectSeq(schemas[id].parents, LAMBDA parent : schemas[parent].type = "dictionary")[1]

\* The type of the values of the dictionary of a schema or of its ancestors.
AdditionalPropertiesType(schemas, id) ==
  LET type[each \in DOMAIN schemas] ==
        LET parents == schemas[each].parents
            found == {i \in DOMAIN parents : type[parents[i]] # <<>>}
        IN CASE HasDictionary(schemas, each) ->
                  <<ResolveTypeDeclaration(schemas, schemas[DictionaryOf(schemas, each)].element, TRUE)>>
             [] ~HasDictionary(schemas, each) /\ found # {} -> type[parents[Min(found)]]
             [] OTHER -> <<>>
  IN type[id]

\* handleAllOf: a backing field for each parent; a dictionary that one of them
\* has is used instead of one of its own.
HandleAllOf(schemas, id) ==
  LET backing == SelectSeq(schemas[id].parents, LAMBDA parent : schemas[parent].type # "dictionary")
      types == SelectSeq([i \in DOMAIN backing |-> AdditionalPropertiesType(schemas, backing[i])],
                         LAMBDA type : type # <<>>)
  IN [backing |-> backing,
      dictionary |-> CASE types # <<>> -> "inherited"
                       [] types = <<>> /\ HasDictionary(schemas, id) -> "own"
                       [] OTHER -> "none",
      valueType |-> IF types # <<>> THEN Last(types) ELSE AdditionalPropertiesType(schemas, id)]

AllParents(schemas, id) ==
  LET all[each \in DOMAIN schemas] ==
        LET parents == schemas[each].parents
        IN FlattenSeq([i \in DOMAIN parents |-> <<parents[i]>> \o all[parents[i]]])
  IN all[id]

Discriminators_Direct(schemas, ids, id) ==
  LET children == SelectSeq(ids, LAMBDA child : Contains(schemas[child].parents, id))
  IN IF schemas[id].discriminator = <<>> THEN <<>>
     ELSE [kind \in {schemas[child].kind : child \in ToSet(children)} |->
             SelectSeq(children, LAMBDA child : schemas[child].kind = kind)[1]]

\* handleDiscriminator: every class with a value tells its polymorphic ancestors
\* (which tell theirs); of two with the same value the last one is known.
Discriminators(schemas, ids, id) ==
  LET Tells(child) == schemas[child].kind # "none" /\ Contains(AllParents(schemas, child), id)
      Tell(known, child) == (schemas[child].kind :> child) @@ known
  IN IF schemas[id].discriminator = <<>> THEN <<>>
     ELSE FoldLeft(Tell, <<>>, SelectSeq(ids, Tells))

\* createProperties: those of the schema itself, whether shown or only used to
\* get at what is inlined.
OwnedProperties(schemas, owned) ==
  [i \in DOMAIN owned |->
     [ser |-> owned[i].prop.ser, private |-> owned[i].private, readOnly |-> owned[i].prop.readOnly,
      constant |-> owned[i].prop.constant, header |-> owned[i].prop.header,
      type |-> ResolveTypeDeclaration(schemas, owned[i].prop.schema, owned[i].prop.required)]]

ModelClass(schemas, virt, ids, id) ==
  LET all == HandleAllOf(schemas, id)
      props == AllProperties(schemas, id)
  IN [schema |-> id, backing |-> all.backing, dictionary |-> all.dictionary,
      valueType |-> all.valueType, any |-> schemas[id].type = "any",
      discriminator |-> schemas[id].discriminator,
      children |-> Discriminators(schemas, ids, id),
      own |-> IF id \in DOMAIN virt THEN OwnedProperties(schemas, virt[id].owned) ELSE <<>>,
      excludes |-> {props[i].ser : i \in DOMAIN props}]

\* ModelsNamespace: the objects first, then the dictionaries and the others.
ModelClasses(schemas, virt, objects) ==
  LET ids == {id \in DOMAIN schemas : schemas[id].type \in {"object", "dictionary", "any"}}
  IN [id \in ids |-> ModelClass(schemas, virt, objects, id)]
=============================================================================
