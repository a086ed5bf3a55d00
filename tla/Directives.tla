----------------------------- MODULE Directives -----------------------------
(***************************************************************************)
(* plugins/modifiers-v2.ts: the directives of a configuration, applied in  *)
(* their order to the commands, the models and the enumerations, and the   *)
(* names that are made distinct after them.                                *)
(*                                                                         *)
(* A directive has what it selects, where it applies (for each key a       *)
(* pattern, or AnyName) and what it sets (for each key a value, or Unset).     *)
(* A selector of letters and digits stands for the whole name, any other   *)
(* is a regular expression that is found in it.                            *)
(***************************************************************************)
EXTENDS Namers

Unset == <<"unset">>
AnyName == [text |-> <<>>, whole |-> FALSE]
Whole(text) == [text |-> text, whole |-> TRUE]
Part(text) == [text |-> text, whole |-> FALSE]

CommandKeys == {"subject", "prefix", "verb", "variant", "parameter"}
NoFormat == [suppress |-> FALSE, include |-> {}, exclude |-> {}] \* suppress-format, format-table

NoWhere == [key \in CommandKeys \cup {"model", "property", "enum"} |-> AnyName]
NoSet == [subject |-> Unset, prefix |-> Unset, verb |-> Unset, variant |-> Unset,
          parameter |-> Unset, model |-> Unset, property |-> Unset, enum |-> Unset,
          alias |-> {}, completer |-> "none", preview |-> FALSE, breaking |-> "none",
          format |-> NoFormat]
Directive == [select |-> "none", where |-> NoWhere, set |-> NoSet, remove |-> FALSE,
              hide |-> "unset", clearAlias |-> FALSE]

Matches(pattern, name) ==
  IF pattern.whole THEN pattern.text = name ELSE Has(name, pattern.text) \/ pattern.text = <<>>

\* Every place is replaced that does not overlap one before it.
ReplaceIn(name, text, new) ==
  LET replace[rest \in Seq(STRING)] ==
        IF Len(rest) < Len(text) THEN rest
        ELSE IF IsPrefix(text, rest)
             THEN new \o replace[SubSeq(rest, Len(text) + 1, Len(rest))]
             ELSE <<Head(rest)>> \o replace[Tail(rest)]
  IN replace[name]

\* x.replace(regex, replacer), or the replacer where there is no selector.
Replaced(pattern, name, replacer) ==
  CASE replacer = Unset -> name
    [] replacer # Unset /\ pattern = AnyName -> replacer
    [] replacer # Unset /\ pattern.whole -> IF name = pattern.text THEN replacer ELSE name
    [] OTHER -> ReplaceIn(name, pattern.text, replacer)

\* Which kind of directive one is; what fits none of them is ignored.
Filters(d, keys) == \E key \in keys : d.where[key] # AnyName
Sets(d, keys) == \E key \in keys : d.set[key] # Unset

IsWhereCommand(d) ==
  /\ ~d.remove
  /\ Filters(d, CommandKeys) \/ d.hide = "yes" \/ d.select \in {"command", "parameter"} \/ d.clearAlias
IsWhereModel(d) == d.set # NoSet /\ (Filters(d, {"model", "property"}) \/ d.select = "model")
IsWhereEnum(d) == d.set # NoSet /\ (Filters(d, {"enum"}) \/ d.select = "enum")
IsRemoveCommand(d) ==
  d.remove /\ d.select # "parameter" /\ (Filters(d, CommandKeys) \/ d.select = "command")

\* A directive of one kind that filters by or sets what only others have is an
\* error.  (The name of a model is looked for with a blank before it, so a
\* directive about commands may set it.)
SetsCompleter(d) == d.set.completer # "none"
Incorrect(d) ==
  CASE IsWhereCommand(d) -> Filters(d, {"model", "property", "enum"}) \/ Sets(d, {"property", "enum"})
    [] ~IsWhereCommand(d) /\ IsWhereModel(d) ->
         Filters(d, CommandKeys \cup {"enum"}) \/ Sets(d, CommandKeys \cup {"enum"}) \/ SetsCompleter(d)
    [] ~IsWhereCommand(d) /\ ~IsWhereModel(d) /\ IsWhereEnum(d) ->
         Filters(d, CommandKeys) \/ Sets(d, CommandKeys \cup {"model", "property"}) \/ SetsCompleter(d)
    [] OTHER -> FALSE

VirtualParameters(command) == command.virtual.operation \o command.virtual.body

\* The commands a directive is about; the name of a parameter selects commands
\* only when commands are asked for.
Selected(d, command) ==
  /\ Matches(d.where.subject, command.subject) /\ Matches(d.where.prefix, command.prefix)
  /\ Matches(d.where.verb, <<command.verb>>) /\ Matches(d.where.variant, command.name)
  /\ d.where.parameter # AnyName /\ d.select = "command" =>
       \E p \in ToSet(VirtualParameters(command)) : Matches(d.where.parameter, p.name)

ModifyParameter(d, p) ==
  IF ~Matches(d.where.parameter, p.name) THEN p
  ELSE [p EXCEPT !.name = Replaced(d.where.parameter, @, d.set.parameter),
                 !.completer = IF d.set.completer = "none" THEN @ ELSE d.set.completer,
                 !.alias = (IF d.clearAlias THEN {} ELSE @) \cup d.set.alias,
                 !.preview = d.set.preview,
                 !.breaking = @ \/ d.set.breaking # "none"]

\* Which of the three announcements of a breaking change is made.
Breaking(d, command) ==
  CASE d.set.breaking = "none" -> command.breaking
    [] d.set.breaking # "none" /\ d.where.variant # AnyName -> command.breaking \cup {"variant"}
    [] OTHER -> command.breaking \cup {IF d.set.breaking = "output" THEN "output" ELSE "cmdlet"}

ModifyCommand(d, command) ==
  LET set == d.set
      verb == Replaced(d.where.verb, <<command.verb>>, set.verb)
  IN [command EXCEPT
        !.subject = Replaced(d.where.subject, @, set.subject),
        !.prefix = Replaced(d.where.prefix, @, set.prefix),
        !.verb = verb[1],
        !.name = Replaced(d.where.variant, @, set.variant),
        !.hidden = IF d.hide = "unset" THEN @ ELSE d.hide = "yes",
        !.breaking = Breaking(d, command),
        !.preview = set.preview,
        !.alias = (IF d.clearAlias THEN {} ELSE @) \cup set.alias]

\* The parameters of the selected commands, or the commands themselves.
WhereCommand(d, commands) ==
  LET ofParameters == d.where.parameter # AnyName /\ d.select \in {"none", "parameter"}
      Each(params) == [i \in DOMAIN params |-> ModifyParameter(d, params[i])]
      Modified(command) ==
        IF ofParameters
        THEN [command EXCEPT !.virtual.operation = Each(@), !.virtual.body = Each(@)]
        ELSE ModifyCommand(d, command)
  IN [i \in DOMAIN commands |->
        IF Selected(d, commands[i]) THEN Modified(commands[i]) ELSE commands[i]]

ModelSelected(d, schema, v) ==
  /\ Matches(d.where.model, schema.cs)
  /\ d.where.property # AnyName /\ d.select = "model" =>
       \E p \in ToSet(AllVirtual(v)) : Matches(d.where.property, p.name)

OfProperties(d) == d.where.property # AnyName /\ d.select \in {"none", "property"}

RenameProperties(d, schemas, virt) ==
  LET Each(seq) == [i \in DOMAIN seq |->
        IF ~Matches(d.where.property, seq[i].name) THEN seq[i]
        ELSE [seq[i] EXCEPT !.name = Replaced(d.where.property, @, d.set.property)]]
  IN [id \in DOMAIN virt |->
        IF ~ModelSelected(d, schemas[id], virt[id]) THEN virt[id]
        ELSE [virt[id] EXCEPT !.owned = Each(@), !.inherited = Each(@), !.inlined = Each(@)]]

\* Which properties are left out of the table an object is shown as.
FormatModels(d, schemas, virt) ==
  LET format == d.set.format
      Hides(v) == \/ format.include # {} /\ v.name \notin format.include
                  \/ v.name \in format.exclude
      Each(seq) == [i \in DOMAIN seq |-> [seq[i] EXCEPT !.shown = @ /\ ~Hides(seq[i])]]
  IN [id \in DOMAIN virt |->
        IF ~ModelSelected(d, schemas[id], virt[id]) \/ format.suppress THEN virt[id]
        ELSE [virt[id] EXCEPT !.owned = Each(@), !.inherited = Each(@), !.inlined = Each(@)]]

RenameModels(d, schemas, virt) ==
  [id \in DOMAIN schemas |->
     IF id \in DOMAIN virt /\ ModelSelected(d, schemas[id], virt[id])
     THEN [schemas[id] EXCEPT !.cs = Replaced(d.where.model, @, d.set.model)] ELSE schemas[id]]

RenameEnums(d, schemas) ==
  [id \in DOMAIN schemas |->
     IF schemas[id].type \in {"choice", "sealed-choice"} /\ Matches(d.where.enum, schemas[id].cs)
     THEN [schemas[id] EXCEPT !.cs = Replaced(d.where.enum, @, d.set.enum)] ELSE schemas[id]]

\* What remains when the commands that match all selectors are deleted; the
\* name of a parameter is a selector with "select: command" only.
RemoveCommand(d, commands) ==
  LET selectors == \/ Filters(d, CommandKeys \ {"parameter"})
                   \/ Filters(d, {"parameter"}) /\ d.select = "command"
  IN IF ~selectors THEN commands
     ELSE Those(commands, {i \in DOMAIN commands : ~Selected(d, commands[i])})

\* One directive, on [commands, schemas, virt].
Apply(d, m) ==
  CASE IsWhereCommand(d) -> [m EXCEPT !.commands = WhereCommand(d, @)]
    [] ~IsWhereCommand(d) /\ IsWhereModel(d) ->
         IF OfProperties(d) THEN [m EXCEPT !.virt = RenameProperties(d, m.schemas, @)]
         ELSE [m EXCEPT !.schemas = RenameModels(d, @, m.virt),
                        !.virt = FormatModels(d, m.schemas, @)]
    [] ~IsWhereCommand(d) /\ ~IsWhereModel(d) /\ IsWhereEnum(d) ->
         [m EXCEPT !.schemas = RenameEnums(d, @)]
    [] ~IsWhereCommand(d) /\ ~IsWhereModel(d) /\ ~IsWhereEnum(d) /\ IsRemoveCommand(d) ->
         [m EXCEPT !.commands = RemoveCommand(d, @)]
    [] OTHER -> m

\* A name is looked up as it is first, and in another form once it has been
\* changed; so a changed name does not meet those that were there.
Renumber_AlwaysOne(commands) ==
  LET Key(c) == <<c.verb, c.subject, c.name>>
      Rename(seq, c) ==
        Append(seq, IF \E before \in ToSet(seq) : Key(before) = Key(c)
                    THEN [c EXCEPT !.name = Append(WithoutNumber(@), "1")] ELSE c)
  IN FoldLeft(Rename, <<>>, commands)
Renumber(commands) ==
  LET Key(c) == <<c.verb, c.subject, c.name>>
      Changed(c, n) == [c EXCEPT !.name = Append(WithoutNumber(@), ToString(n))]
      Rename(done, c) ==
        LET free == {n \in 1..Len(commands) : Key(Changed(c, n)) \notin done.changed}
            new == Changed(c, Min(free))
        IN IF Key(c) \notin done.keys
           THEN [seq |-> Append(done.seq, c), keys |-> done.keys \cup {Key(c)}, changed |-> done.changed]
           ELSE [seq |-> Append(done.seq, new), keys |-> done.keys,
                 changed |-> done.changed \cup {Key(new)}]
  IN FoldLeft(Rename, [seq |-> <<>>, keys |-> {}, changed |-> {}], commands).seq
=============================================================================
