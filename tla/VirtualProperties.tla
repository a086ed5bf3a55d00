------------------------- MODULE VirtualProperties -------------------------
(***************************************************************************)
(* plugins/plugin-create-inline-properties.ts and                          *)
(* utils/resolve-conflicts.ts: the virtual properties of a model class     *)
(* (its own, those of its parents, and those of its object properties,     *)
(* inlined) and the virtual parameters of a command that are made of them. *)
(*                                                                         *)
(* A schema has a type, a name, parents, properties and marks; a property  *)
(* a serialized name, a name, a schema and flags.  virt maps the object    *)
(* schemas to what is created for them.  The members through which a       *)
(* virtual property is reached (accessViaProperty, accessViaMember and so  *)
(* on) are its path, and those that share a name have one id.              *)
(***************************************************************************)
EXTENDS Names

CONSTANT Threshold \* the setting inlining-threshold

AllProperties(schemas, id) ==
  LET all[each \in DOMAIN schemas] ==
        LET parents == schemas[each].parents
        IN IF schemas[each].type # "object" THEN <<>>
           ELSE FlattenSeq([i \in DOMAIN parents |-> all[parents[i]]]) \o schemas[each].props
  IN all[id]

Unique(seq) ==
  FoldLeft(LAMBDA kept, each : IF Contains(kept, each) THEN kept ELSE Append(kept, each), <<>>, seq)

\* The whole path first (slice(-0)), then ever longer ends of it, then the
\* name of the type before the last part.
NameOptions(type, components) ==
  LET n == Len(components)
      Ending(i) == FlattenSeq(RemoveSequentialDuplicates(SubSeq(components, n - i + 1, n)))
  IN Unique(<<Ending(n)>> \o [i \in 1..n - 1 |-> Ending(i)]
            \o <<RemoveSequentialDuplicates(type \o components[n])>>)

InConflict == [conflict |-> TRUE, owned |-> <<>>, inherited |-> <<>>, inlined |-> <<>>]

AllVirtual(v) == v.owned \o v.inherited \o v.inlined

Owned(schema, id, p, private) ==
  [name |-> p.name, prop |-> p, private |-> private, comps |-> <<p.name>>,
   opts |-> IF private THEN NameOptions(schema.name, <<p.name>>) ELSE <<p.name>>,
   path |-> <<p.ser>>, readOnly |-> ~private /\ p.readOnly, required |-> p.required,
   id |-> <<id, p.ser>>, alias |-> {}, shown |-> TRUE]

\* What the parent has, as it is: the copies share its name with it.
Copies_NotInlined(parent) == parent.inherited \o parent.owned
Copies(parent) == parent.inherited \o parent.inlined \o parent.owned

\* The virtual properties of the child, prefixed with the name of the property
\* unless they were inlined there already.
Inlined(schemas, id, p, v) ==
  LET Copy(each, prefix) ==
        LET components == RemoveSequentialDuplicates(<<p.name>> \o each.comps)
        IN [each EXCEPT !.name = prefix \o @, !.comps = components,
                        !.opts = NameOptions(schemas[each.prop.schema].name, components),
                        !.path = <<p.ser>> \o @,
                        !.readOnly = @ \/ p.readOnly, !.required = @ /\ p.required,
                        !.id = <<id, p.ser>> \o @, !.alias = {}]
      prefix == IF p.name \in {<<"properties">>, <<"error">>} THEN <<>>
                ELSE [i \in DOMAIN p.name |-> Singularize(p.name[i])]
      direct == v.inherited \o v.owned
  IN [i \in DOMAIN direct |-> Copy(direct[i], prefix)]
     \o [i \in DOMAIN v.inlined |-> Copy(v.inlined[i], <<>>)]

\* Names that occur twice are replaced in the inlined ones, those with the
\* fewest options first.
ResolveCollisions(v) ==
  LET all == AllVirtual(v)
      names == {all[i].name : i \in DOMAIN all}
      Twice(name) == Cardinality({i \in DOMAIN all : all[i].name = name}) > 1
      most == Max({1} \cup {Len(each.opts) : each \in ToSet(v.inlined)})
      sorted == FlattenSeq([n \in 1..most |-> Filtered(v.inlined, LAMBDA each : Len(each.opts) = n)])
      Rename(done, each) ==
        LET name == IF Twice(each.name) THEN SelectName(each.opts, done.used) ELSE each.name
        IN [used |-> done.used \cup {name}, seq |-> Append(done.seq, [each EXCEPT !.name = name])]
  IN [v EXCEPT !.inlined = FoldLeft(Rename, [used |-> names, seq |-> <<>>], sorted).seq]

\* A property of an object that has properties, unless one of the two is marked.
Inlinable(schemas, schema, p) ==
  /\ ~schema.skipInline /\ ~schemas[p.schema].skipInline
  /\ schemas[p.schema].type = "object" /\ AllProperties(schemas, p.schema) # <<>>

\* It is inlined if there are not too many of them.
IsInlined(schemas, p, v) ==
  /\ ~schemas[p.schema].byReference
  /\ \A parent \in ToSet(schemas[p.schema].parents) : schemas[parent].type # "dictionary"
  /\ Len(AllVirtual(v)) < Threshold \/ p.name = <<"properties">>

\* createVirtualProperties: the parents first, then the properties that are
\* objects, then the others.  The stack has the schemas that are in progress; one
\* that is met again is a conflict, and the generation ends with it.
CreateFrom(schemas, stack, create) ==
  LET current == Last(stack)
      schema == schemas[current]
      parents == Filtered(schema.parents, LAMBDA q : schemas[q].type = "object")
      objects == Filtered(schema.props, LAMBDA p : Inlinable(schemas, schema, p))
      above == [i \in DOMAIN parents |-> create[Append(stack, parents[i])]]
      below == [i \in DOMAIN objects |-> create[Append(stack, objects[i].schema)]]
      at == Filtered([i \in DOMAIN objects |-> i], LAMBDA i : IsInlined(schemas, objects[i], below[i]))
      straight == Filtered(schema.props, LAMBDA p : ~Inlinable(schemas, schema, p))
                  \o Filtered(objects, LAMBDA p : ~\E i \in ToSet(at) : objects[i] = p)
  IN IF Contains(Front(stack), current) THEN InConflict
     ELSE ResolveCollisions(
       [conflict |-> \E v \in ToSet(above \o below) : v.conflict,
        owned |-> [i \in DOMAIN at |-> Owned(schema, current, objects[at[i]], TRUE)]
                  \o [i \in DOMAIN straight |-> Owned(schema, current, straight[i], FALSE)],
        inherited |-> FlattenSeq([i \in DOMAIN above |-> Copies(above[i])]),
        inlined |-> FlattenSeq([i \in DOMAIN at |->
                      Inlined(schemas, current, objects[at[i]], below[at[i]])])])

CreateVirtualProperties(schemas, id) ==
  LET create[stack \in Seq(DOMAIN schemas) \ {<<>>}] == CreateFrom(schemas, stack, create)
  IN create[<<id>>]

CreateVirtuals(schemas) ==
  [id \in {i \in DOMAIN schemas : schemas[i].type = "object"} |-> CreateVirtualProperties(schemas, id)]

(***************************************************************************)
(* The names of parameters and properties, made distinct.                  *)
(***************************************************************************)

\* resolvePropertyNames: the first one keeps its name.
ResolvePropertyNames(reserved, v) ==
  LET Rename(done, each) ==
        LET name == IF each.name \in done.used THEN SelectName(each.opts, done.used) ELSE each.name
        IN [used |-> done.used \cup {name}, seq |-> Append(done.seq, [each EXCEPT !.name = name])]
      all == FoldLeft(Rename, [used |-> reserved, seq |-> <<>>], AllVirtual(v)).seq
      o == Len(v.owned)
      h == o + Len(v.inherited)
  IN [v EXCEPT !.owned = SubSeq(all, 1, o), !.inherited = SubSeq(all, o + 1, h),
               !.inlined = SubSeq(all, h + 1, Len(all))]

\* All that can keep their names do, before the others get new ones.
ResolveParameters(used, params) ==
  LET Kept(i) == params[i].name \notin used /\ \A j \in 1..i - 1 : params[j].name # params[i].name
      kept == {params[i].name : i \in {k \in DOMAIN params : Kept(k)}}
      Rename(done, i) ==
        LET name == IF Kept(i) THEN params[i].name ELSE SelectName(params[i].opts, done.used)
        IN [used |-> done.used \cup {name},
            seq |-> Append(done.seq, [params[i] EXCEPT !.name = name])]
  IN FoldLeft(Rename, [used |-> used \cup kept, seq |-> <<>>], [i \in DOMAIN params |-> i])

\* resolveParameterNames: the parameters of the operation, then those of the body.
ResolveParameterNames_Apart(vps) ==
  [operation |-> ResolveParameters({}, vps.operation).seq,
   body |-> ResolveParameters({}, vps.body).seq]
ResolveParameterNames(vps) ==
  LET operation == ResolveParameters({}, vps.operation)
  IN [operation |-> operation.seq, body |-> ResolveParameters(operation.used, vps.body).seq]

VirtualParameter(name, opts, required, schema, in, path, id) ==
  [name |-> name, opts |-> opts, required |-> required, schema |-> schema, in |-> in,
   path |-> path, id |-> id, alias |-> {}, completer |-> "none", preview |-> FALSE, breaking |-> FALSE]

\* createVirtualParameters: a dropped body is replaced by what can be written in
\* it.  (The properties are looked up without an argument for "all are optional",
\* so what is required stays required.)
CreateVirtualParameters(command, virt) ==
  LET shown == SelectSeq(command.params, LAMBDA p : ~(p.constant \/ p.fromHost \/ p.apiversion))
      dropped == SelectSeq(shown, LAMBDA p : command.drop /\ p.in = "body")
      kept == SelectSeq(shown, LAMBDA p : ~(command.drop /\ p.in = "body"))
      Settable(v) == ~(v.private \/ v.readOnly \/ v.prop.readOnly \/ v.prop.constant
                       \/ v.prop.header = "Header")
      Properties(p) ==
        IF p.schema \notin DOMAIN virt THEN <<>>
        ELSE SelectSeq(virt[p.schema].inherited \o virt[p.schema].owned \o virt[p.schema].inlined,
                       Settable)
      properties == FlattenSeq([i \in DOMAIN dropped |-> Properties(dropped[i])])
  IN ResolveParameterNames(
       [operation |-> [i \in DOMAIN kept |->
          VirtualParameter(kept[i].name, <<kept[i].name>>, kept[i].in = "body" \/ kept[i].required,
                           kept[i].schema, kept[i].in, <<kept[i].ser>>, <<>>)],
        body |-> [i \in DOMAIN properties |->
          VirtualParameter(properties[i].name, properties[i].opts, properties[i].required,
                           properties[i].prop.schema, "property", properties[i].path,
                           properties[i].id)]])
=============================================================================
