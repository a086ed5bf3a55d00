------------------------------- MODULE Names -------------------------------
(***************************************************************************)
(* Names as the plugins build and compare them.  A name is the sequence of *)
(* its words in lower case, what deconstruct returns and pascalCase puts   *)
(* together; a number that is appended is a word of its own.               *)
(***************************************************************************)
EXTENDS Naturals, Sequences, SequencesExt, FiniteSetsExt

CONSTANT Singular \* pluralizationService.singularize, for the words in the plural

Singularize(word) == IF word \in DOMAIN Singular THEN Singular[word] ELSE word

\* singularize of a whole identifier changes its last word.
SingularName(name) ==
  IF name = <<>> THEN name ELSE [name EXCEPT ![Len(name)] = Singularize(@)]

Numbers == {ToString(n) : n \in 0..99}

\* s.replace(/\d*$/g, '')
WithoutNumber(name) ==
  IF name # <<>> /\ Last(name) \in Numbers THEN Front(name) ELSE name

RemoveSequentialDuplicates(seq) ==
  FoldLeft(LAMBDA kept, each : IF kept # <<>> /\ Last(kept) = each THEN kept
                               ELSE Append(kept, each),
           <<>>, seq)

\* The elements at some positions, in their order.
Those(seq, positions) ==
  FoldLeft(LAMBDA kept, i : IF i \in positions THEN Append(kept, seq[i]) ELSE kept,
           <<>>, [i \in DOMAIN seq |-> i])

\* The elements that pass a test, in their order.
Filtered(seq, Test(_)) == Those(seq, {i \in DOMAIN seq : Test(seq[i])})

\* A function that has one more value, or another one there.
With(f, key, value) == [k \in DOMAIN f \cup {key} |-> IF k = key THEN value ELSE f[k]]

Has(name, part) == \E i \in 1..Len(name) : IsPrefix(part, SubSeq(name, i, Len(name)))

\* The name with the least number that is not in use.
Numbered(name, used) ==
  LET free == {n \in 1..Cardinality(used) + 1 : Append(name, ToString(n)) \notin used}
  IN Append(name, ToString(Min(free)))

\* The first option that is free, or the first one with a number.
SelectName(options, used) ==
  LET free == {i \in DOMAIN options : options[i] \notin used}
  IN IF free # {} THEN options[Min(free)] ELSE Numbered(options[1], used)

\* A prefix the noun repeats is dropped, unless it is all there is.
RemoveProhibitedPrefix(name, prefix, reserved) ==
  LET rest == SubSeq(name, Len(prefix) + 1, Len(name))
  IN IF prefix # <<>> /\ IsPrefix(prefix, name) /\ rest # <<>> /\ rest \notin reserved
     THEN rest ELSE name
=============================================================================
