-------------------------- MODULE CommandCreation --------------------------
(***************************************************************************)
(* plugins/create-commands-v2.ts: how the cmdlet variants of an operation  *)
(* are inferred from its name, its group, its parameters and its body.     *)
(* An Inferrer is the identities it has given out and the commands it has  *)
(* made.  Every variant becomes one cmdlet class in the end.               *)
(***************************************************************************)
EXTENDS Names

CONSTANTS
  Verbs,         \* internal/verbs.ts, the words the operations considered have
  VerbMap,       \* the setting verb-mapping: from a name to a PowerShell verb
  SubjectPrefix, \* the setting subject-prefix
  DisableViaIdentity,
  MaxWords       \* words of a variant name that fit into its 64 letters

\* That the words put behind a name are strings is said for the prover, which does
\* not know it.
ASSUME WordsAssumption ==
  MaxWords \in Nat \ {0} /\ {"expanded", "via", "identity"} \subseteq STRING

Missing == [verb |-> "none"] \* the error "Missing operation id?" is thrown

PowerShellVerb(action) == IF action \in DOMAIN VerbMap THEN VerbMap[action] ELSE "Invoke"

\* subject is a sequence of names: whole ones, or words.
CommandVariant(action, subject, suffix) ==
  LET verb == PowerShellVerb(action)
      noun == IF verb = "Invoke" /\ action # <<"post">> THEN <<action>> \o subject ELSE subject
  IN [verb |-> verb, action |-> action, prefix |-> SubjectPrefix, variant |-> suffix,
      subject |-> FlattenSeq(RemoveSequentialDuplicates(
                    [i \in DOMAIN noun |-> SingularName(noun[i])]))]

Words(name) == [i \in DOMAIN name |-> <<name[i]>>]

SplitOn(preposition, words) ==
  LET at == {i \in DOMAIN words : words[i] = preposition}
      i == Min(at)
  IN IF at = {} \/ 1 \in at THEN <<>>
     ELSE <<SubSeq(words, 1, i - 1), SubSeq(words, i + 1, Len(words))>>

Prepositions == <<"with", "at", "by", "for", "in", "of">>

SplitOnAny(words) ==
  LET found == {p \in DOMAIN Prepositions : SplitOn(Prepositions[p], words) # <<>>}
  IN IF found = {} THEN <<>> ELSE SplitOn(Prepositions[Min(found)], words)

\* Either one of the first two words is the action, or the words are split at
\* an "or" or a preposition and infer goes on with the parts, or the first verb
\* among them is the action: then what precedes a verb in the middle is lost
\* (operation.slice(i, i)).
InferFrom(words, group, suffix, infer) ==
  LET n == Len(words)
      verbs == {k \in 1..n : words[k] \in Verbs}
      i == IF verbs = {} THEN 1 ELSE Min(verbs)
      Command(rest, more) ==
        <<CommandVariant(<<words[i]>>, Words(group) \o Words(rest), suffix \o more)>>
      either == SplitOn("or", words)
      parts == SplitOnAny(words)
      after == SubSeq(words, i + 1, n)
  IN CASE n = 0 -> <<Missing>>
       [] n \in {1, 2} -> Command(RemoveAt(words, i), <<>>)
       [] n > 2 /\ either # <<>> ->
            infer[<<either[1] \o SubSeq(either[2], 2, Len(either[2])), suffix>>]
            \o infer[<<either[2], suffix>>]
       [] n > 2 /\ either = <<>> /\ parts # <<>> -> infer[<<parts[1], parts[2]>>]
       [] OTHER ->
            CASE verbs = {} -> Command(after, after)
              [] i = 1 -> Command(after, <<>>)
              [] i = n -> Command(Front(words), <<>>)
              [] OTHER -> Command(<<>>, after)

InferCommand(operation, group, suffix) ==
  LET infer[name \in Seq(STRING) \X Seq(STRING)] ==
        LET words == Those(name[1], {i \in DOMAIN name[1] : name[1][i] # "all"})
        IN InferFrom(words, group, name[2], infer)
  IN infer[<<operation, suffix>>]

InferCommandNames(op) ==
  LET group == SingularName(op.group)
  IN IF op.name \in DOMAIN VerbMap
     THEN <<CommandVariant(op.name, <<group>>, <<>>)>>
     ELSE InferCommand(op.name, group, <<>>)

Trimmed(vname) == IF Len(vname) <= MaxWords THEN vname ELSE SubSeq(vname, 1, MaxWords)

Inferrer == [identities |-> {}, commands |-> <<>>]

NewCommand(name, op, variant, params, extra) ==
  [verb |-> variant.verb, subject |-> variant.subject, prefix |-> variant.prefix,
   name |-> name, op |-> op.id, params |-> params \o extra.body, drop |-> extra.drop,
   virtual |-> [operation |-> <<>>, body |-> <<>>],
   hidden |-> FALSE, alias |-> {}, preview |-> FALSE, breaking |-> {}]

\* addCommandOperation: a variant name that is in use gets the least number
\* that makes it unique.  The code compares names before it brings them into
\* Pascal case once more, and here two are equal if their words are: verb-mapping
\* is taken to have no keys that differ in case and hyphens only, or end in
\* "ViaIdentity".
AddCommandOperation(inferrer, vname, op, variant, params, extra) ==
  LET Taken(name) == <<variant.verb, variant.subject, name>> \in inferrer.identities
      trimmed == Trimmed(vname)
      used == {id[3] : id \in {d \in inferrer.identities :
                                 d[1] = variant.verb /\ d[2] = variant.subject}}
      name == IF Taken(trimmed) THEN Numbered(WithoutNumber(trimmed), used) ELSE trimmed
  IN [identities |-> inferrer.identities \cup {<<variant.verb, variant.subject, name>>},
      commands |-> Append(inferrer.commands, NewCommand(name, op, variant, params, extra))]

BodyParameter(body, name) == [body EXCEPT !.name = name, !.required = FALSE]

\* addVariant: one variant that takes the body, and one that takes its
\* properties if it can have any.
AddVariant(inferrer, vname, op, variant, params, expandable) ==
  LET whole == AddCommandOperation(inferrer, vname, op, variant, params,
                 [drop |-> FALSE,
                  body |-> IF op.body = <<>> THEN <<>>
                           ELSE <<BodyParameter(op.body[1], op.body[1].name)>>])
  IN IF op.body = <<>> \/ ~expandable THEN whole
     ELSE AddCommandOperation(whole, Append(vname, "expanded"), op, variant, params,
            [drop |-> TRUE,
             body |-> <<BodyParameter(op.body[1], Append(op.body[1].name, "body"))>>])

\* Both variants again without the parameters in the path, which come from
\* an identity that is piped in.
AddVariants(inferrer, op, found, expandable) ==
  LET variant == IF found.verb = "Update" /\ op.method = "put"
                 THEN [found EXCEPT !.verb = "Set"] ELSE found
      constants == SelectSeq(op.params, LAMBDA p : p.constant \/ p.fromHost)
      required == SelectSeq(op.params, LAMBDA p : ~(p.constant \/ p.fromHost))
      paths == SelectSeq(required, LAMBDA p : p.in = "path")
      others == SelectSeq(required, LAMBDA p : p.in # "path")
      direct == AddVariant(inferrer, variant.action, op, variant, constants \o required, expandable)
  IN IF DisableViaIdentity \/ paths = <<>> \/ variant.action = <<"list">> THEN direct
     ELSE AddVariant(direct, variant.action \o <<"via", "identity">>, op, variant,
                     constants \o others, expandable)

CreateCommands(inferrer, op, expandable) ==
  FoldLeft(LAMBDA made, variant : AddVariants(made, op, variant, expandable),
           inferrer, InferCommandNames(op))
=============================================================================
