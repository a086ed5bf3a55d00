------------------------------- MODULE Namers -------------------------------
(***************************************************************************)
(* plugins/cs-namer-v2.ts and ps-namer-v2.ts: the names that schemas and   *)
(* operations have in C#, and the names that commands, their parameters    *)
(* and the properties of the models have in PowerShell.                    *)
(***************************************************************************)
EXTENDS ModelTweaks

CONSTANT SanitizeNames \* the setting sanitize-names

(***************************************************************************)
(* cs-namer-v2.ts                                                          *)
(***************************************************************************)

Base == 0 \* the namespace of schemas without a version

\* In Azure a schema is in the namespace of its lowest version.
NamespaceOf(schema) ==
  IF Azure /\ schema.uid # "universal-parameter-type" /\ schema.versions # {}
  THEN Min(schema.versions) ELSE Base

HasClass(schema) == schema.type \in {"object", "dictionary", "any", "choice", "sealed-choice"}

NameSchema(done, id) ==
  LET schema == done.schemas[id]
      space == NamespaceOf(schema)
      used == {taken[2] : taken \in {t \in done.used : t[1] = space}}
      name == IF schema.name \in used THEN Numbered(schema.name, used) ELSE schema.name
  IN [schemas |-> [done.schemas EXCEPT ![id].cs = name, ![id].space = space],
      used |-> IF HasClass(schema) THEN done.used \cup {<<space, name>>} ELSE done.used]

SetSchemaNames(model) ==
  FoldLeft(NameSchema, [schemas |-> model.schemas, used |-> {}], model.objects \o model.others).schemas

NameOperation(done, op) ==
  LET name == op.group \o op.name
      cs == IF name \in done.used THEN Numbered(name, done.used) ELSE name
  IN [used |-> done.used \cup {cs}, seq |-> Append(done.seq, [op EXCEPT !.cs = cs])]

SetOperationNames(operations) ==
  FoldLeft(NameOperation, [used |-> {}, seq |-> <<>>], operations).seq

CsName(model) ==
  [model EXCEPT !.schemas = SetSchemaNames(model), !.operations = SetOperationNames(@)]

(***************************************************************************)
(* ps-namer-v2.ts                                                          *)
(***************************************************************************)

\* What the subject repeats of the prefix is the subject's.
DeduplicatedNoun(prefix, subject) ==
  LET deduped == RemoveSequentialDuplicates(subject)
      merged == RemoveSequentialDuplicates(RemoveSequentialDuplicates(prefix) \o deduped)
      Same(n) == SubSeq(merged, Len(merged) - n + 1, Len(merged))
                 = SubSeq(deduped, Len(deduped) - n + 1, Len(deduped))
      n == Max({k \in 0..Min({Len(merged), Len(deduped)}) : Same(k)})
  IN [prefix |-> SubSeq(merged, 1, Len(merged) - n),
      subject |-> SubSeq(merged, Len(merged) - n + 1, Len(merged))]

\* A parameter is singular; one in the path does not repeat the subject, and
\* has the name it had as an alias.
SanitizeParameters(params, subject) ==
  LET Sanitize(seq, i) ==
        LET p == seq[i]
            others == {seq[j].name : j \in DOMAIN seq} \ {p.name}
            singular == SingularName(p.name)
            name == IF p.in = "path" THEN RemoveProhibitedPrefix(singular, subject, others)
                    ELSE singular
        IN [seq EXCEPT ![i].name = name,
                       ![i].alias = IF name = singular THEN @ ELSE @ \cup {singular}]
  IN FoldLeft(Sanitize, params, [i \in DOMAIN params |-> i])

SanitizeCommand(command) ==
  LET noun == DeduplicatedNoun(command.prefix, command.subject)
      n == Len(command.virtual.operation)
      all == SanitizeParameters(command.virtual.operation \o command.virtual.body, noun.subject)
  IN [command EXCEPT !.prefix = noun.prefix, !.subject = noun.subject,
        !.virtual = [operation |-> SubSeq(all, 1, n), body |-> SubSeq(all, n + 1, Len(all))]]

\* A property is singular and does not repeat the name of its class; then those
\* that share it have the new name, too.
SanitizeProperty(virt, class, id, kind, i) ==
  LET each == virt[id][kind][i]
      others == {v.name : v \in ToSet(AllVirtual(virt[id]))} \ {each.name}
      singular == SingularName(each.name)
      name == RemoveProhibitedPrefix(singular, class, others)
      renamed == [virt EXCEPT ![id][kind][i].name = name,
                              ![id][kind][i].alias = @ \cup ({singular} \ {name})]
      Shared(v) == IF v.id = each.id /\ v.name # name
                   THEN [v EXCEPT !.name = name, !.alias = @ \cup {v.name}] ELSE v
      SharedAll(seq) == [j \in DOMAIN seq |-> Shared(seq[j])]
  IN IF name = singular THEN renamed
     ELSE [s \in DOMAIN renamed |->
             [renamed[s] EXCEPT !.owned = SharedAll(@), !.inherited = SharedAll(@),
                                !.inlined = SharedAll(@)]]

SanitizeProperties(virt, schemas, ids) ==
  LET Kind(v, id, kind) ==
        FoldLeft(LAMBDA w, i : SanitizeProperty(w, schemas[id].cs, id, kind, i),
                 v, [i \in DOMAIN v[id][kind] |-> i])
      Class(v, id) == Kind(Kind(Kind(v, id, "owned"), id, "inherited"), id, "inlined")
  IN FoldLeft(Class, virt, ids)

PsNameCommands(commands) ==
  LET Name(command) == IF SanitizeNames THEN SanitizeCommand(command) ELSE command
  IN [i \in DOMAIN commands |->
        [Name(commands[i]) EXCEPT !.virtual = ResolveParameterNames(@)]]

PsNameProperties(virt, schemas, ids) ==
  LET named == IF SanitizeNames THEN SanitizeProperties(virt, schemas, ids) ELSE virt
  IN [id \in DOMAIN virt |-> ResolvePropertyNames({schemas[id].cs}, named[id])]
=============================================================================
