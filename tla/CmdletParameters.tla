-------------------------- MODULE CmdletParameters --------------------------
(***************************************************************************)
(* cmdlets/class.ts: the attributes and the parameters of the cmdlet class *)
(* that is generated for a command, and where the arguments of its call of *)
(* the operation come from.                                                *)
(*                                                                         *)
(* A property of the class has the name users know, the attributes that    *)
(* matter, and the serialized name of the operation's parameter it is the  *)
(* definition of (parameterDefinition), if it is one.                      *)
(***************************************************************************)
EXTENDS Directives

CONSTANT ModulePrefix \* project.prefix

NoDefinition == <<"no", "definition">>

Property(name, definition) ==
  [name |-> name, definition |-> definition, mandatory |-> FALSE, pipeline |-> FALSE,
   hidden |-> FALSE, type |-> "plain", completer |-> "none", alias |-> {},
   attributes |-> {}, path |-> <<>>]

Writable(op) == op.method \in {"put", "post", "delete", "patch"} \* NewIsWritableCmdlet

VariantName(command) ==
  [noun |-> ModulePrefix \o command.prefix \o command.subject, variant |-> command.name]

\* variantName.indexOf('ViaIdentity') > 0
IsViaIdentity(command) ==
  LET name == VariantName(command).noun \o VariantName(command).variant
  IN \E i \in 2..Len(name) : IsPrefix(<<"via", "identity">>, SubSeq(name, i, Len(name)))

(***************************************************************************)
(* addCommonStuff, and what NewImplementProcessRecord adds for jobs        *)
(***************************************************************************)

CommonNames ==
  << <<"invocation", "information">>, <<"pipeline">>, <<"client">>, <<"break">>,
     <<"http", "pipeline", "prepend">>, <<"http", "pipeline", "append">>,
     <<"proxy", "credential">>, <<"proxy", "use", "default", "credentials">>, <<"proxy">> >>
  \o (IF Azure THEN << <<"default", "profile">> >> ELSE <<>>)

JobNames == << <<"as", "job">>, <<"no", "wait">> >>

\* What every cmdlet has, whatever its operation.
CommonProperties == [i \in DOMAIN CommonNames |-> Property(CommonNames[i], NoDefinition)]

JobProperties(op) ==
  IF op.asjob THEN [i \in DOMAIN JobNames |-> Property(JobNames[i], NoDefinition)] ELSE <<>>

(***************************************************************************)
(* NewAddClassAttributes                                                   *)
(***************************************************************************)

\* A class that only wraps one property is that property.
ResultSchema(schemas, id) ==
  LET props == AllProperties(schemas, id) IN IF Len(props) = 1 THEN props[1].schema ELSE id

\* The types of what is written for a response, per result or per page.
OutputTypes(schemas, op) ==
  LET Item(id) ==
        LET items == SelectSeq(schemas[id].props, LAMBDA p : p.ser = op.pageable.item)
        IN IF items = <<>> THEN <<"error">> ELSE schemas[items[1].schema].element
      OnlyBoolean(id) == \* a choice of booleans that has one value
        /\ schemas[id].type \in {"choice", "sealed-choice"} /\ schemas[id].choices = 1
        /\ schemas[id].element # <<>> /\ schemas[schemas[id].element].type = "boolean"
      Type(response) ==
        LET id == ResultSchema(schemas, response.schema)
        IN CASE response.binary -> <<"bool">>
             [] ~response.binary /\ schemas[id].type \in {"boolean", "binary"} -> <<"bool">>
             [] ~response.binary /\ OnlyBoolean(id) -> <<"bool">>
             [] ~response.binary /\ schemas[id].type = "array" -> schemas[id].element
             [] OTHER -> IF op.pageable.type = "pageable" THEN Item(id) ELSE id
      types == {Type(op.responses[i]) : i \in {j \in DOMAIN op.responses :
                  op.responses[j].binary \/ op.responses[j].schema # <<>>}}
  IN IF types = {} THEN {<<"bool">>} ELSE types

StreamOutput(schemas, op) ==
  \E r \in ToSet(op.responses) :
    \/ r.binary
    \/ /\ r.schema # <<>>
       /\ schemas[ResultSchema(schemas, r.schema)].type = "binary"

\* If any response returns nothing, the user may ask for a result.
PassThru(schemas, op) ==
  StreamOutput(schemas, op) \/ \E r \in ToSet(op.responses \o op.exceptions) : r.schema = <<>>

\* Announcements of breaking changes to the cmdlet, its variant and its output.
BreakingChanges(command) ==
  LET attribute == [cmdlet |-> "CmdletBreakingChange", variant |-> "ParameterSetBreakingChange",
                    output |-> "OutputBreakingChange"]
  IN {attribute[change] : change \in command.breaking}

ClassAttributes(schemas, command, op) ==
  (IF Writable(op) THEN {"SupportsShouldProcess"} ELSE {})
  \cup (IF command.hidden THEN {"InternalExport"} ELSE {})
  \cup (IF command.alias # {} THEN {"Alias"} ELSE {})
  \cup (IF command.preview THEN {"PreviewMessage"} ELSE {})
  \cup BreakingChanges(command)

AttributeProperties(schemas, op) ==
  (IF PassThru(schemas, op) THEN <<Property(<<"pass", "thru">>, NoDefinition)>> ELSE <<>>)
  \o (IF StreamOutput(schemas, op)
      THEN <<[Property(<<"out", "file">>, NoDefinition) EXCEPT !.mandatory = TRUE]>> ELSE <<>>)

(***************************************************************************)
(* NewAddPowershellParameters                                              *)
(***************************************************************************)

ParameterAttributes(p) ==
  (IF p.preview THEN {"PreviewMessage"} ELSE {})
  \cup (IF p.breaking THEN {"ParameterBreakingChange"} ELSE {})

IsDictionary(schemas, id) ==
  \/ schemas[id].type = "dictionary"
  \/ /\ schemas[id].type = "object"
     /\ \E parent \in ToSet(schemas[id].parents) : schemas[parent].type = "dictionary"

\* What is exported instead of the type of the parameter.
ExportedAs(schemas, id) ==
  CASE schemas[id].type = "array" -> "array"
    [] IsDictionary(schemas, id) /\ schemas[id].props = <<>> -> "hashtable"
    [] schemas[id].type = "sealed-choice" /\ schemas[id].skip # "yes" -> "enum"
    [] OTHER -> "plain"

\* A parameter of an expanded body sets a property of the hidden body; bytes
\* are read from a file instead.
BodyProperty(schemas, p) ==
  LET shown == [Property(p.name, NoDefinition) EXCEPT
                  !.mandatory = p.required, !.type = ExportedAs(schemas, p.schema),
                  !.completer = p.completer, !.alias = p.alias,
                  !.attributes = ParameterAttributes(p), !.path = p.path]
  IN IF schemas[p.schema].type # "byte-array" THEN <<shown>>
     ELSE <<[shown EXCEPT !.name = IF p.name = <<"value">> THEN <<"input", "file">>
                                   ELSE p.name \o <<"input", "file">>,
                          !.type = "file", !.completer = "none", !.attributes = {}, !.alias = {}],
            [shown EXCEPT !.hidden = TRUE, !.mandatory = FALSE, !.completer = "none",
                          !.attributes = {}]>>

\* A hashtable for what an expanded dictionary holds besides its properties.
AdditionalProperties(schemas, id, props) ==
  LET options == << <<"additional", "properties">>, <<"more", "properties">>,
                   <<"extended", "properties">>, <<"properties">> >>
      free == SelectSeq(options, LAMBDA n : ~\E p \in ToSet(props) : p.name = n)
  IN IF ~IsDictionary(schemas, id) THEN <<>>
     ELSE <<[Property(IF free = <<>> THEN <<>> ELSE free[1], NoDefinition) EXCEPT !.type = "hashtable"]>>

\* The parameters of the command that users do not set themselves.
CommandProperty(schemas, command, props, p) ==
  CASE p.constant -> props
    [] ~p.constant /\ p.fromHost ->
         Append(props, [Property(p.name, p.ser) EXCEPT !.hidden = TRUE])
    [] ~p.constant /\ ~p.fromHost /\ p.apiversion ->
         Append(props, [Property(p.name, p.ser) EXCEPT !.hidden = TRUE])
    [] OTHER ->
         IF ~(command.drop /\ p.in = "body") THEN props
         ELSE LET body == command.virtual.body
                  hidden == [Property(p.name, NoDefinition) EXCEPT !.hidden = TRUE, !.type = "body"]
                  all == Append(props, hidden)
                         \o FlattenSeq([i \in DOMAIN body |-> BodyProperty(schemas, body[i])])
              IN all \o AdditionalProperties(schemas, p.schema, all)

InputObject ==
  [Property(<<"input", "object">>, NoDefinition) EXCEPT
     !.mandatory = TRUE, !.pipeline = TRUE, !.type = "identity"]

\* SubscriptionId of a Get is an array: one call for each of them.
OperationProperty(schemas, command, p) ==
  [Property(p.name, IF p.in = "body" THEN NoDefinition ELSE p.path[1]) EXCEPT
     !.mandatory = p.required, !.pipeline = p.in = "body",
     !.type = IF Azure /\ p.name = <<"subscription", "id">> /\ command.verb = "Get" THEN "array"
              ELSE IF p.in = "body" THEN "body" ELSE ExportedAs(schemas, p.schema),
     !.completer = p.completer, !.alias = p.alias, !.attributes = ParameterAttributes(p)]

PowershellParameters(schemas, command, op) ==
  LET own == FoldLeft(LAMBDA props, p : CommandProperty(schemas, command, props, p),
                      CommonProperties \o AttributeProperties(schemas, op), command.params)
      identity == IF IsViaIdentity(command) THEN <<InputObject>> ELSE <<>>
      shown == SelectSeq(command.virtual.operation, LAMBDA p : p.name # <<"host">>)
  IN own \o identity
     \o [i \in DOMAIN shown |-> OperationProperty(schemas, command, shown[i])]
     \o JobProperties(op)

(***************************************************************************)
(* The call in ProcessRecordAsync                                          *)
(***************************************************************************)

\* The property of the class that defines the parameter, if there is one.
Definition_ByName(props, p) == SelectSeq(props, LAMBDA each : each.name = p.name)
Definition(props, p) == SelectSeq(props, LAMBDA each : each.definition = p.ser)

\* Where the argument comes from: the parameter, if bound or mandatory, a
\* property of the identity, or null.  A property that the identity does not
\* have is guessed.  By its id, an identity needs no more.
Argument(schemas, virt, command, props, p) ==
  LET found == Definition(props, p)
      matches == SelectSeq(AllVirtual(virt[Identity]), LAMBDA v : ~v.private /\ v.prop.ser = p.ser)
  IN CASE IsViaIdentity(command) /\ p.in = "path" ->
            IF matches = <<>> THEN [source |-> "guess", name |-> p.ser]
            ELSE [source |-> "identity", name |-> matches[1].name]
       [] found # <<>> /\ ~(IsViaIdentity(command) /\ p.in = "path") ->
            [source |-> IF p.required THEN "parameter" ELSE "bound parameter",
             name |-> found[1].name]
       [] OTHER -> [source |-> "null", name |-> p.ser]

CallArguments(schemas, virt, command, props, op) ==
  LET params == SelectSeq(op.params, LAMBDA p : ~p.constant)
  IN [i \in DOMAIN params |-> Argument(schemas, virt, command, props, params[i])]

\* The body the call is given: the hidden one, or the last parameter that is one.
Body(props) ==
  LET bodies == SelectSeq(props, LAMBDA p : p.type = "body")
  IN IF bodies = <<>> THEN <<>> ELSE <<Last(bodies)>>

\* The parameters that the copy of the cmdlet a job runs has the values of: those
\* every cmdlet has (the client is the one of the module), those of the operation
\* (the version is computed), its body and AsJob.  NoWait, the identity, the file
\* for what is received, and the hashtable for what else a body holds are not.
Clone(props) ==
  {JobNames[1]} \cup (ToSet(CommonNames) \ {<<"client">>})
  \cup {p.name : p \in {q \in ToSet(props) : q.type = "body" \/ q.definition # NoDefinition}}

CmdletClass(schemas, virt, command, op) ==
  LET props == PowershellParameters(schemas, command, op)
  IN [name |-> VariantName(command), verb |-> command.verb, command |-> command,
      attributes |-> ClassAttributes(schemas, command, op),
      outputs |-> OutputTypes(schemas, op), props |-> props,
      args |-> CallArguments(schemas, virt, command, props, op), body |-> Body(props),
      clone |-> IF op.asjob THEN Clone(props) ELSE {}]
=============================================================================
