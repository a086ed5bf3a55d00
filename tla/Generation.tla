----------------------------- MODULE Generation -----------------------------
(***************************************************************************)
(* The plugins that turn a code model into cmdlet classes, one after the   *)
(* other (autorest-configuration.md says which one reads whose output):    *)
(*   tweakm4, tweak, azure   change the model (ModelTweaks)                *)
(*   commands                makes the variants (CommandCreation)          *)
(*   virtual                 makes virtual properties and parameters       *)
(*   csnamer, psnamer        name things in C# and PowerShell (Namers)     *)
(*   modifiers               applies the directives (Directives)           *)
(*   llcsharp                makes the model classes (ModelClasses) and    *)
(*                           the API methods (Requests)                    *)
(*   completers, classes     make the cmdlet classes (CmdletParameters)    *)
(* A plugin passes nothing but the model on, so each is one step, but for  *)
(* those that work through a list while what they have done so far decides *)
(* what comes next: the operations and the directives.                     *)
(***************************************************************************)
EXTENDS CommandCreation, ModelClasses, CmdletParameters

CONSTANTS
  Inputs \* models and directives: [model, directives]

\* What is assumed of them.  Names are sequences of words; what a model refers to is in
\* it, since references are objects in the code; only objects have properties and parents.
IsOperation(op) == "name" \in DOMAIN op /\ op.name \in Seq(STRING)

HasOperations(m) ==
  /\ "operations" \in DOMAIN m /\ m.operations \in Seq(ToSet(m.operations))
  /\ \A op \in ToSet(m.operations) : IsOperation(op)

AreDirectives(seq) ==
  /\ seq \in Seq(ToSet(seq))
  /\ \A d \in ToSet(seq) : /\ d.where.variant \in [text : Seq(STRING), whole : BOOLEAN]
                          /\ d.set.variant \in Seq(STRING)

IsSchema(s, ids) ==
  /\ DOMAIN s = DOMAIN PlainSchema("any", <<>>)
  /\ s.parents \in Seq(ids)
  /\ s.props \in Seq(ToSet(s.props))
  /\ \A p \in ToSet(s.props) : {"ser", "schema"} \subseteq DOMAIN p /\ p.schema \in ids
  /\ s.type # "object" => s.parents = <<>> /\ s.props = <<>>

IsResponse(r, ids) ==
  /\ {"schema", "headerSchema", "headers"} \subseteq DOMAIN r
  /\ {r.schema, r.headerSchema} \subseteq ids \cup {<<>>}
  /\ r.headers \in Seq(ToSet(r.headers))

\* An operation as far as the schemas it refers to go ...
IsCall(op, ids) ==
  /\ {"id", "responses", "exceptions", "params"} \subseteq DOMAIN op
  /\ \A seq \in {op.responses, op.exceptions} :
       seq \in Seq(ToSet(seq)) /\ \A r \in ToSet(seq) : IsResponse(r, ids)

\* ... and its parameters.
IsParameterized(op, ids) ==
  /\ op.params \in Seq(ToSet(op.params))
  /\ \A p \in ToSet(op.params) : p.schema \in ids

IsModel(m) ==
  LET ids == DOMAIN m.schemas
  IN /\ {"schemas", "objects", "others", "operations", "error"} \subseteq DOMAIN m
     /\ m.schemas \in [ids -> {m.schemas[id] : id \in ids}] /\ <<"string">> \in ids
     /\ \A id \in ids : IsSchema(m.schemas[id], ids)
     /\ m.objects \in Seq(ids) /\ ToSet(m.objects) = {id \in ids : m.schemas[id].type = "object"}
     /\ m.others \in Seq(ids)
     /\ m.operations \in Seq(ToSet(m.operations))
     /\ \A op \in ToSet(m.operations) : IsCall(op, ids)

\* No object is its own ancestor: there is one in every set that has no parent in it.
\* (getAllProperties would not return.)
Rooted(m) ==
  \A set \in SUBSET ToSet(m.objects) :
    set # {} => \E id \in set : ToSet(m.schemas[id].parents) \cap set = {}

ASSUME InputsAssumption ==
  \A input \in Inputs :
    /\ HasOperations(input.model) /\ AreDirectives(input.directives)
    /\ IsModel(input.model) /\ Rooted(input.model)
    /\ \A op \in ToSet(input.model.operations) : IsParameterized(op, DOMAIN input.model.schemas)

\* The schemas that the plugins make, for headers and for the identity, are none of those
\* that were there: in the code they are new objects.
HeaderNames(m) ==
  UNION {{HeaderSchema(op, r) : r \in {x \in ToSet(op.responses) : NeedsHeaderSchema(x)}} :
           op \in ToSet(m.operations)}

ASSUME NewSchemasAssumption ==
  \A input \in Inputs :
    LET m == input.model
    IN /\ HeaderNames(m) \cap DOMAIN m.schemas = {}
       /\ Identity \notin HeaderNames(m) \cup DOMAIN m.schemas

\* The keys of an object are distinct in a definition.
OnceEach(props) == \A i, j \in DOMAIN props : i # j => props[i].ser # props[j].ser

ASSUME KeysAssumption ==
  \A input \in Inputs : \A id \in DOMAIN input.model.schemas : OnceEach(input.model.schemas[id].props)

VARIABLES
  phase,      \* the plugin that is next, "done" or "failed"
  model,      \* the code model
  inferred,   \* how many operations have been looked at
  inferrer,   \* the identities and commands so far
  commands,   \* the commands of the model
  virt,       \* the virtual properties of the object schemas
  directives, \* those of the configuration
  applied,    \* how many of them have been applied
  models,     \* the model classes
  classes     \* the cmdlet classes

vars == <<phase, model, inferred, inferrer, commands, virt, directives, applied, models, classes>>

Init ==
  \E input \in Inputs :
    /\ phase = "tweakm4"
    /\ model = input.model
    /\ inferred = 0
    /\ inferrer = Inferrer
    /\ commands = <<>>
    /\ virt = <<>>
    /\ directives = input.directives
    /\ applied = 0
    /\ models = <<>>
    /\ classes = <<>>

RunTweakM4 ==
  /\ phase = "tweakm4"
  /\ phase' = "tweak"
  /\ model' = TweakM4(model)
  /\ UNCHANGED <<inferred, inferrer, commands, virt, directives, applied, models, classes>>

RunTweak ==
  /\ phase = "tweak"
  /\ model' = Tweak(model)
  /\ phase' = IF model'.error THEN "failed" ELSE "azure"
  /\ UNCHANGED <<inferred, inferrer, commands, virt, directives, applied, models, classes>>

RunTweakAzure ==
  /\ phase = "azure"
  /\ phase' = "commands"
  /\ model' = TweakAzure(model)
  /\ UNCHANGED <<inferred, inferrer, commands, virt, directives, applied, models, classes>>

Expandable(op) ==
  op.body # <<>> /\ model.schemas[op.body[1].schema].type \in {"object", "dictionary", "any"}

InferOperation ==
  LET op == model.operations[inferred + 1]
  IN /\ phase = "commands"
     /\ inferred < Len(model.operations)
     /\ Missing \notin ToSet(InferCommandNames(op))
     /\ inferred' = inferred + 1
     /\ inferrer' = CreateCommands(inferrer, op, Expandable(op))
     /\ UNCHANGED <<phase, model, commands, virt, directives, applied, models, classes>>

InferNothing ==
  /\ phase = "commands"
  /\ inferred < Len(model.operations)
  /\ Missing \in ToSet(InferCommandNames(model.operations[inferred + 1]))
  /\ phase' = "failed"
  /\ UNCHANGED <<model, inferred, inferrer, commands, virt, directives, applied, models, classes>>

CommandsCreated ==
  /\ phase = "commands"
  /\ inferred = Len(model.operations)
  /\ phase' = "virtual"
  /\ commands' = inferrer.commands
  /\ UNCHANGED <<model, inferred, inferrer, virt, directives, applied, models, classes>>

CreateInlinedProperties ==
  /\ phase = "virtual"
  /\ virt' = CreateVirtuals(model.schemas)
  /\ IF \E id \in DOMAIN virt' : virt'[id].conflict
     THEN /\ phase' = "failed"
          /\ UNCHANGED commands
     ELSE /\ phase' = "csnamer"
          /\ commands' = [i \in DOMAIN commands |->
               [commands[i] EXCEPT !.virtual = CreateVirtualParameters(commands[i], virt')]]
  /\ UNCHANGED <<model, inferred, inferrer, directives, applied, models, classes>>

RunCsNamer ==
  /\ phase = "csnamer"
  /\ phase' = "psnamer"
  /\ model' = CsName(model)
  /\ UNCHANGED <<inferred, inferrer, commands, virt, directives, applied, models, classes>>

RunPsNamer ==
  /\ phase = "psnamer"
  /\ phase' = "modifiers"
  /\ commands' = PsNameCommands(commands)
  /\ virt' = PsNameProperties(virt, model.schemas, model.objects)
  /\ UNCHANGED <<model, inferred, inferrer, directives, applied, models, classes>>

ApplyDirective ==
  LET changed == Apply(directives[applied + 1],
                       [commands |-> commands, schemas |-> model.schemas, virt |-> virt])
  IN /\ phase = "modifiers"
     /\ applied < Len(directives)
     /\ ~\E d \in ToSet(directives) : Incorrect(d)
     /\ applied' = applied + 1
     /\ commands' = changed.commands
     /\ model' = [model EXCEPT !.schemas = changed.schemas]
     /\ virt' = changed.virt
     /\ UNCHANGED <<phase, inferred, inferrer, directives, models, classes>>

\* All directives are looked at before the first is applied.
IncorrectDirective ==
  /\ phase = "modifiers"
  /\ \E d \in ToSet(directives) : Incorrect(d)
  /\ phase' = "failed"
  /\ UNCHANGED <<model, inferred, inferrer, commands, virt, directives, applied, models, classes>>

DirectivesApplied ==
  /\ phase = "modifiers"
  /\ applied = Len(directives)
  /\ phase' = "llcsharp"
  /\ commands' = Renumber(commands)
  /\ UNCHANGED <<model, inferred, inferrer, virt, directives, applied, models, classes>>

CreateModelClasses ==
  /\ phase = "llcsharp"
  /\ phase' = "completers"
  /\ models' = ModelClasses(model.schemas, virt, model.objects)
  /\ UNCHANGED <<model, inferred, inferrer, commands, virt, directives, applied, classes>>

CompleterOf(p) ==
  CASE p.name \in {<<"resource", "group", "name">>, <<"resource", "group">>} -> "ResourceGroup"
    [] p.name = <<"subscription", "id">> -> "SubscriptionId"
    [] p.name = <<"location">> -> "Location"
    [] OTHER -> p.completer

AddCompleters ==
  /\ phase = "completers"
  /\ phase' = "classes"
  /\ commands' = [i \in DOMAIN commands |-> [commands[i] EXCEPT !.params =
       [j \in DOMAIN @ |-> [@[j] EXCEPT !.completer = CompleterOf(commands[i].params[j])]]]]
  /\ UNCHANGED <<model, inferred, inferrer, virt, directives, applied, models, classes>>

Operation(id) == SelectSeq(model.operations, LAMBDA op : op.id = id)[1]

CreateClasses ==
  /\ phase = "classes"
  /\ phase' = "done"
  /\ classes' = [i \in DOMAIN commands |->
       CmdletClass(model.schemas, virt, commands[i], Operation(commands[i].op))]
  /\ UNCHANGED <<model, inferred, inferrer, commands, virt, directives, applied, models>>

Next ==
  \/ RunTweakM4 \/ RunTweak \/ RunTweakAzure
  \/ InferOperation \/ InferNothing \/ CommandsCreated
  \/ CreateInlinedProperties \/ RunCsNamer \/ RunPsNamer
  \/ IncorrectDirective \/ ApplyDirective \/ DirectivesApplied
  \/ CreateModelClasses \/ AddCompleters \/ CreateClasses

Spec == Init /\ [][Next]_vars

(***************************************************************************)
(* Properties                                                              *)
(***************************************************************************)

Phases == {"tweakm4", "tweak", "azure", "commands", "virtual", "csnamer", "psnamer",
           "modifiers", "llcsharp", "completers", "classes", "done", "failed"}

Objects == ToSet(model.objects)

\* The types, and that the model is closed: whatever schema is referred to,
\* those the plugins make up included, is in it, and so is the operation of
\* every command.
TypeOK ==
  LET ids == DOMAIN model.schemas
      Known(op) == \A r \in ToSet(op.responses \o op.exceptions) :
                     {r.schema, r.headerSchema} \subseteq ids \cup {<<>>}
  IN /\ phase \in Phases
     /\ inferred \in 0..Len(model.operations) /\ applied \in 0..Len(directives)
     /\ Objects = {id \in ids : model.schemas[id].type = "object"}
     /\ \A id \in ids : {p.schema : p \in ToSet(model.schemas[id].props)} \subseteq ids
     /\ \A op \in ToSet(model.operations) : Known(op)
     /\ {c.op : c \in ToSet(commands)} \subseteq {op.id : op \in ToSet(model.operations)}
     /\ DOMAIN models \subseteq ids
     /\ DOMAIN classes \subseteq DOMAIN commands

Renamed(key) == \E i \in 1..applied : directives[i].set[key] # Unset

Key(c) == <<c.verb, c.subject, c.name>>

\* When the directives have been applied, no two commands of a verb and a
\* subject have the same variant name, whatever was renamed; but for a name that
\* had a number at its end and was kept, which the last check does not see when
\* it puts that number on another one, before or after it.
VariantsDistinct ==
  [][phase' = "llcsharp" /\ phase = "modifiers" =>
       \A i, j \in DOMAIN commands' :
         i # j /\ Key(commands'[i]) = Key(commands'[j]) =>
           \E k \in {i, j} : /\ commands'[k] = commands[k]
                             /\ \E n \in 1..Len(commands) : Last(commands[k].name) = ToString(n)]_vars

\* What a cmdlet class calls its operation with is complete: every parameter
\* that has no constant value comes from a parameter of the cmdlet or from the
\* identity, a required one from a parameter users cannot leave out, and a body
\* is passed if there is one.  The copy of the cmdlet that a job runs has all of
\* these, but for the identity: a job of such a variant has no path.  Two more
\* exceptions: the name of a variant, by which the class is known to take an
\* identity, was changed by a directive or cut off; and the identity has a
\* parameter of that name from another operation, which is called something
\* else on the wire.
ArgumentsSupplied ==
  LET NameLost(c) == Renamed("variant") \/ Len(c.command.name) >= MaxWords
      OtherWire(p) == \E op \in ToSet(model.operations) : \E q \in ToSet(op.params) :
                        q.name = p.name /\ q.ser # p.ser /\ q.in = "path"
      Insists(c, p) == \E q \in ToSet(c.props) : q.definition = p.ser /\ (q.mandatory \/ q.hidden)
      Complete(c, op) ==
        LET params == SelectSeq(op.params, LAMBDA p : ~p.constant)
            passed == {p.name : p \in ToSet(c.body)}
                      \cup {a.name : a \in {b \in ToSet(c.args) : b.source \in {"parameter", "bound parameter"}}}
        IN /\ op.body # <<>> => c.body # <<>>
           /\ op.asjob => passed \subseteq c.clone
           /\ \A i \in DOMAIN params :
                CASE c.args[i].source = "parameter" -> Insists(c, params[i])
                  [] c.args[i].source = "bound parameter" -> ~params[i].required
                  [] c.args[i].source = "identity" -> TRUE
                  [] c.args[i].source = "guess" -> OtherWire(params[i])
                  [] c.args[i].source = "null" -> NameLost(c)
  IN phase = "done" =>
       \A i \in DOMAIN classes : Complete(classes[i], Operation(classes[i].command.op))

\* The parameters that a user sees, those every cmdlet has, those of the operation,
\* those that are made of the properties of its body and the hashtable for what
\* else it may hold, have distinct names, unless a directive renamed parameters.
\* One exception: nothing renames a parameter of an operation that is called as
\* one that every cmdlet, or every one that can be a job, has.
ParametersDistinct ==
  phase = "done" /\ ~Renamed("parameter") =>
    \A i \in DOMAIN classes : \A j, k \in DOMAIN classes[i].props :
      LET p == classes[i].props[j]  q == classes[i].props[k]
      IN j < k /\ ~p.hidden /\ ~q.hidden /\ p.name = q.name =>
           p.name \in ToSet(CommonNames \o JobNames) /\ NoDefinition \in {p.definition, q.definition}

Members(schemas, id) == {p.ser : p \in ToSet(AllProperties(schemas, id))}

WithProperties == {"csnamer", "psnamer", "modifiers", "llcsharp", "completers", "classes", "done"}

\* What the JSON of an object holds, in its own members or in inherited ones, can
\* be reached by a public property of its class,
PropertiesReached ==
  phase \in WithProperties =>
    \A id \in Objects : \A ser \in Members(model.schemas, id) :
      \E v \in ToSet(AllVirtual(virt[id])) : ~v.private /\ v.path[1] = ser

\* and the properties of a class have names of their own, which are not the name of
\* the class, until a directive renames something.
PropertiesNamed ==
  phase \in WithProperties \ {"csnamer", "psnamer"} /\ ~Renamed("property") /\ ~Renamed("model") =>
    \A id \in Objects : \A i, j \in DOMAIN AllVirtual(virt[id]) :
      /\ i # j => AllVirtual(virt[id])[i].name # AllVirtual(virt[id])[j].name
      /\ AllVirtual(virt[id])[i].name # model.schemas[id].cs

\* Both of these; and what can be reached is reached by one public property only,
\* but for a member that is redefined with another type.
PropertiesOnce ==
  LET Public(id) == SelectSeq(AllVirtual(virt[id]), LAMBDA v : ~v.private)
      Type(v) == model.schemas[v.prop.schema].type
      Once(v, w) == IsPrefix(v.path, w.path) => v.path = w.path /\ Type(v) # Type(w)
  IN /\ PropertiesReached
     /\ PropertiesNamed
     /\ phase \in WithProperties =>
          \A id \in Objects : \A i, j \in DOMAIN Public(id) :
            i # j => Once(Public(id)[i], Public(id)[j])

\* A schema that has two parents with an ancestor or a property in common.
Joins(schemas, id) ==
  LET parents == schemas[id].parents
  IN \E i, j \in DOMAIN parents :
       /\ i < j
       /\ \/ Lineage(schemas, parents[i]) \cap Lineage(schemas, parents[j]) # {}
          \/ Members(schemas, parents[i]) \cap Members(schemas, parents[j]) # {}

\* No plugin takes a member from what a schema has, its own or inherited ones:
\* what is dropped from a child is still there in a parent.
NothingLost ==
  [][\A id \in Objects : Members(model.schemas, id) \subseteq Members(model'.schemas, id)]_vars

\* The same, but for the ancestors of a schema where two lines of inheritance
\* meet (and what else is derived from them): there the second line loses what
\* the first one has, even if it is the same ancestor on both.
LostOnlyWhereLinesMeet ==
  [][\A id \in Objects :
       \/ Members(model.schemas, id) \subseteq Members(model'.schemas, id)
       \/ \E d \in Objects :
            /\ Joins(model.schemas, d)
            /\ Lineage(model.schemas, id) \cap Lineage(model.schemas, d) # {}]_vars
=============================================================================
