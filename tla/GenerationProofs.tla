-------------------------- MODULE GenerationProofs --------------------------
(***************************************************************************)
(* Why the variants of the cmdlets are told apart: addCommandOperation     *)
(* gives every one it makes a key of its own, a verb, a subject and a      *)
(* name, and the last step of the directives makes different keys of those *)
(* that are alike, but for the names VariantsDistinct excepts.             *)
(*                                                                         *)
(* What is said of the folds and the recursive functions of the model      *)
(* rests on Induction: first that the function exists, then what it        *)
(* returns.  The lemmas come in the order of the plugins: the names the    *)
(* variants are inferred from, the numbers behind them, the commands       *)
(* (CommandCreation), the patterns and the last step of the directives     *)
(* (Directives), what the plugins in between keep, and the invariant.      *)
(***************************************************************************)
EXTENDS Generation, Induction

\* Those goes through the places and keeps the elements at some of them.
KeepRounds(T, seq, positions) ==
  {h \in [0..Len(seq) -> Seq(T)] :
     /\ h[0] = <<>>
     /\ \A i \in 1..Len(seq) : h[i] = IF i \in positions THEN Append(h[i-1], seq[i]) ELSE h[i-1]}
LEMMA ThoseRounds ==
  ASSUME NEW T, NEW seq \in Seq(T), NEW positions
  PROVE  Those(seq, positions) \in {h[Len(seq)] : h \in KeepRounds(T, seq, positions)}
<1> DEFINE D == Seq(T)
           Keep(kept, i) == IF i \in positions THEN Append(kept, seq[i]) ELSE kept
           all == [i \in DOMAIN seq |-> i]
           step == [each \in D \X DOMAIN seq |-> Keep(each[1], each[2])]
           iter == CHOOSE f : f = [s \in SUBSET DOMAIN all |->
                     IF s = {} THEN <<>> ELSE Keep(f[s \ {Max(s)}], all[Max(s)])]
<1>1. /\ <<>> \in D /\ all \in Seq(DOMAIN seq) /\ DOMAIN all = DOMAIN seq /\ Len(all) = Len(seq)
      /\ DOMAIN seq = 1..Len(seq) /\ \A i \in DOMAIN seq : all[i] = i
  OBVIOUS
<1>2. step \in [D \X DOMAIN seq -> D]
  OBVIOUS
<1>3. \A d \in D, i \in DOMAIN seq : step[<<d, i>>] = Keep(d, i)
  OBVIOUS
<1> HIDE DEF D, Keep, all, step
<1>4. ASSUME NEW s \in SUBSET DOMAIN all, s # {}
      PROVE  all[Max(s)] \in DOMAIN seq /\ s \ {Max(s)} \in SUBSET DOMAIN all
  BY <1>1, <1>4, LoopPoints
<1>5. PICK g : IsLoop(g, D, <<>>, all, step)
  BY <1>1, <1>2, LoopExists
<1>6. g \in [SUBSET DOMAIN all -> D]
  BY <1>5 DEF IsLoop
<1>7. ASSUME NEW s \in SUBSET DOMAIN all
      PROVE  g[s] = IF s = {} THEN <<>> ELSE Keep(g[s \ {Max(s)}], all[Max(s)])
  <2>1. CASE s = {}
    BY <1>5, <2>1 DEF IsLoop
  <2>2. CASE s # {}
    <3>1. g[s \ {Max(s)}] \in D /\ all[Max(s)] \in DOMAIN seq
      BY <1>4, <1>6, <2>2
    <3>2. step[<<g[s \ {Max(s)}], all[Max(s)]>>] = Keep(g[s \ {Max(s)}], all[Max(s)])
      BY <1>3, <3>1
    <3>3. g[s] = step[<<g[s \ {Max(s)}], all[Max(s)]>>]
      BY <1>5, <2>2 DEF IsLoop
    <3> QED BY <2>2, <3>2, <3>3
  <2> QED BY <2>1, <2>2
<1>8. g = [s \in SUBSET DOMAIN all |-> IF s = {} THEN <<>> ELSE Keep(g[s \ {Max(s)}], all[Max(s)])]
  BY <1>6, <1>7
<1>9. iter = [s \in SUBSET DOMAIN all |->
                IF s = {} THEN <<>> ELSE Keep(iter[s \ {Max(s)}], all[Max(s)])]
  BY <1>8
<1>10. Those(seq, positions) = iter[DOMAIN all]
  BY DEF Those, FoldLeft, MapThenFoldSet, all, Keep
<1> HIDE DEF iter
<1>11. ASSUME NEW s \in SUBSET DOMAIN all, s # {}, iter[s \ {Max(s)}] \in D
       PROVE  iter[s] = step[<<iter[s \ {Max(s)}], all[Max(s)]>>]
  <2>1. iter[s] = Keep(iter[s \ {Max(s)}], all[Max(s)])
    BY <1>9, <1>11
  <2>2. all[Max(s)] \in DOMAIN seq
    BY <1>4, <1>11
  <2> QED BY <1>3, <1>11, <2>1, <2>2
<1>12. iter[{}] = <<>>
  BY <1>9
<1>13. Iterates(iter, D, <<>>, all, step)
  BY <1>11, <1>12 DEF Iterates
<1>14. PICK h \in Runs(D, <<>>, all, step) : iter[DOMAIN all] = h[Len(all)]
  <2>1. iter[DOMAIN all] \in Ends(D, <<>>, all, step)
    BY <1>1, <1>2, <1>13, LoopRuns
  <2> QED BY <2>1 DEF Ends
<1>15. h \in [0..Len(seq) -> D] /\ h[0] = <<>> /\ \A i \in 1..Len(seq) : h[i] = step[<<h[i-1], all[i]>>]
  BY <1>1, <1>14 DEF Runs
<1>16. ASSUME NEW i \in 1..Len(seq) PROVE h[i] = Keep(h[i-1], i)
  <2>1. i \in DOMAIN seq /\ i - 1 \in 0..Len(seq) /\ all[i] = i
    BY <1>1
  <2>2. h[i-1] \in D
    BY <1>15, <2>1
  <2> QED BY <1>3, <1>15, <2>1, <2>2
<1> QED BY <1>1, <1>10, <1>14, <1>15, <1>16 DEF D, Keep, KeepRounds

\* Where what is kept was: every place is that of one element.
Places(seq, positions, kept) ==
  {e \in [DOMAIN kept -> DOMAIN seq \cap positions] :
     /\ \A k \in DOMAIN kept : kept[k] = seq[e[k]]
     /\ \A k, l \in DOMAIN kept : k # l => e[k] # e[l]
     /\ \A i \in DOMAIN seq \cap positions : \E k \in DOMAIN kept : e[k] = i}

\* So they are the elements at these places, ...
LEMMA ThosePlaces ==
  ASSUME NEW T, NEW seq \in Seq(T), NEW positions
  PROVE  LET kept == Those(seq, positions)
         IN kept \in Seq(T) /\ Places(seq, positions, kept) # {}
<1> DEFINE N == Len(seq)
           D == Seq(T)
<1>1. N \in Nat /\ DOMAIN seq = 1..N /\ \A i \in 1..N : seq[i] \in T
  OBVIOUS
<1>2. PICK h \in [0..N -> D] :
        /\ h[0] = <<>> /\ Those(seq, positions) = h[N]
        /\ \A i \in 1..N : h[i] = IF i \in positions THEN Append(h[i-1], seq[i]) ELSE h[i-1]
  <2>1. PICK h \in KeepRounds(T, seq, positions) : Those(seq, positions) = h[N]
    BY ThoseRounds
  <2> QED BY <2>1 DEF KeepRounds
<1> DEFINE Found(kept, n) ==
             {e \in [DOMAIN kept -> (1..n) \cap positions] :
                /\ \A k \in DOMAIN kept : kept[k] = seq[e[k]]
                /\ \A k, l \in DOMAIN kept : k # l => e[k] # e[l]
                /\ \A i \in (1..n) \cap positions : \E k \in DOMAIN kept : e[k] = i}
           S == {n \in Nat : Found(h[n], n) # {}}
<1> HIDE DEF N, D
<1>3. 0 \in S
  <2>1. DOMAIN <<>> = {} /\ 1..0 = {}
    OBVIOUS
  <2>2. [k \in {} |-> 0] \in Found(<<>>, 0)
    BY <2>1
  <2> HIDE DEF Found
  <2> QED BY <1>2, <2>2
<1>4. ASSUME NEW n \in 0..N-1, n \in S PROVE n + 1 \in S
  <2>1. /\ n + 1 \in 1..N /\ (n + 1) - 1 = n /\ n \in 0..N /\ 1..n+1 = (1..n) \cup {n+1}
        /\ n \in Nat /\ n + 1 \in Nat /\ n + 1 \notin 1..n
    BY <1>1
  <2>2. PICK e : e \in Found(h[n], n)
    <3> HIDE DEF Found
    <3> QED BY <1>4
  <2>3. h[n] \in Seq(T)
    BY <1>2, <2>1 DEF D
  <2>4. CASE n + 1 \in positions
    <3> DEFINE before == h[n]
               m == Len(before)
               after == Append(before, seq[n+1])
               f == [k \in DOMAIN after |-> IF k = m + 1 THEN n + 1 ELSE e[k]]
    <3>1. h[n+1] = after
      BY <1>2, <2>1, <2>4
    <3>2. /\ DOMAIN after = (DOMAIN before) \cup {m + 1} /\ m + 1 \notin DOMAIN before
          /\ after[m+1] = seq[n+1] /\ \A k \in DOMAIN before : after[k] = before[k] /\ k # m + 1
      BY <1>1, <2>1, <2>3
    <3>3. /\ e \in [DOMAIN before -> (1..n) \cap positions]
          /\ \A k \in DOMAIN before : before[k] = seq[e[k]]
          /\ \A k, l \in DOMAIN before : k # l => e[k] # e[l]
          /\ \A i \in (1..n) \cap positions : \E k \in DOMAIN before : e[k] = i
      BY <2>2
    <3> HIDE DEF before, after, m
    <3>4. f \in [DOMAIN after -> (1..n+1) \cap positions]
      BY <2>1, <2>4, <3>2, <3>3
    <3>5. \A k \in DOMAIN after : after[k] = seq[f[k]]
      BY <3>2, <3>3
    <3>6. \A k, l \in DOMAIN after : k # l => f[k] # f[l]
      BY <2>1, <3>2, <3>3
    <3>7. \A i \in (1..n+1) \cap positions : \E k \in DOMAIN after : f[k] = i
      <4>1. \A k \in DOMAIN before : k \in DOMAIN after /\ f[k] = e[k]
        BY <3>2
      <4>2. m + 1 \in DOMAIN after /\ f[m + 1] = n + 1
        BY <3>2
      <4> HIDE DEF f
      <4> QED BY <2>1, <3>3, <4>1, <4>2
    <3> HIDE DEF f
    <3>8. f \in Found(after, n + 1)
      BY <3>4, <3>5, <3>6, <3>7
    <3> HIDE DEF Found
    <3> QED BY <2>1, <3>1, <3>8
  <2>5. CASE n + 1 \notin positions
    <3>1. h[n+1] = h[n] /\ (1..n+1) \cap positions = (1..n) \cap positions
      BY <1>2, <2>1, <2>5
    <3>2. e \in Found(h[n+1], n + 1)
      BY <2>2, <3>1
    <3> HIDE DEF Found
    <3> QED BY <2>1, <3>2
  <2> QED BY <2>4, <2>5
<1>5. \A n \in 0..N : n \in S
  <2> HIDE DEF S
  <2> QED BY <1>1, <1>3, <1>4, IntervalInduction
<1>6. N \in 0..N
  BY <1>1
<1>7. Found(h[N], N) # {}
  <2> HIDE DEF Found
  <2> QED BY <1>5, <1>6
<1>8. PICK e : e \in Found(h[N], N)
  <2> HIDE DEF Found
  <2> QED BY <1>7
<1>9. h[N] \in Seq(T)
  BY <1>2, <1>6 DEF D
<1>10. e \in Places(seq, positions, h[N])
  BY <1>1, <1>8 DEF Places
<1> QED BY <1>2, <1>9, <1>10

\* ... and at most as many as there are.
LEMMA ThoseType ==
  ASSUME NEW T, NEW seq \in Seq(T), NEW positions
  PROVE  Those(seq, positions) \in Seq(T) /\ Len(Those(seq, positions)) <= Len(seq)
<1> DEFINE N == Len(seq)
           D == Seq(T)
<1>1. N \in Nat /\ DOMAIN seq = 1..N /\ \A i \in 1..N : seq[i] \in T
  OBVIOUS
<1>2. PICK h \in [0..N -> D] :
        /\ h[0] = <<>> /\ Those(seq, positions) = h[N]
        /\ \A i \in 1..N : h[i] = IF i \in positions THEN Append(h[i-1], seq[i]) ELSE h[i-1]
  <2>1. PICK h \in KeepRounds(T, seq, positions) : Those(seq, positions) = h[N]
    BY ThoseRounds
  <2> QED BY <2>1 DEF KeepRounds
<1> DEFINE S == {n \in Nat : Len(h[n]) <= n}
<1> HIDE DEF N
<1>3. 0 \in S
  BY <1>2
<1>4. ASSUME NEW n \in 0..N-1, n \in S PROVE n + 1 \in S
  <2>1. n + 1 \in 1..N /\ (n + 1) - 1 = n /\ n \in 0..N
    BY <1>1
  <2>2. h[n] \in Seq(T) /\ seq[n+1] \in T
    BY <1>1, <1>2, <2>1
  <2>3. h[n+1] \in {Append(h[n], seq[n+1]), h[n]}
    BY <1>2, <2>1
  <2>4. Len(h[n]) <= n /\ Len(Append(h[n], seq[n+1])) = Len(h[n]) + 1 /\ Len(h[n]) \in Nat
    BY <1>4, <2>2
  <2>5. Len(h[n+1]) <= n + 1
    BY <2>1, <2>3, <2>4
  <2> QED BY <2>1, <2>5
<1>5. \A n \in 0..N : n \in S
  <2> HIDE DEF S
  <2> QED BY <1>1, <1>3, <1>4, IntervalInduction
<1>6. N \in 0..N
  BY <1>1
<1> QED BY <1>2, <1>5, <1>6 DEF N

\* The parts that words are split into, and what is put together of them when one
\* of them is left out, are shorter than the words are.
LEMMA SplitOnType ==
  ASSUME NEW preposition, NEW words \in Seq(STRING), SplitOn(preposition, words) # <<>>
  PROVE  LET parts == SplitOn(preposition, words)
         IN /\ parts[1] \in Seq(STRING) /\ parts[2] \in Seq(STRING)
            /\ Len(parts[1]) < Len(words) /\ Len(parts[2]) < Len(words)
            /\ parts[1] \o SubSeq(parts[2], 2, Len(parts[2])) \in Seq(STRING)
            /\ Len(parts[1] \o SubSeq(parts[2], 2, Len(parts[2]))) < Len(words)
<1> DEFINE at == {i \in DOMAIN words : words[i] = preposition}
           i == Min(at)
           a == SubSeq(words, 1, i - 1)
           b == SubSeq(words, i + 1, Len(words))
           c == SubSeq(b, 2, Len(b))
<1>1. SplitOn(preposition, words) = <<a, b>> /\ at # {}
  BY DEF SplitOn
<1>2. i \in 1..Len(words)
  <2>1. at \in SUBSET Nat /\ at \subseteq 1..Len(words)
    OBVIOUS
  <2> HIDE DEF at
  <2> QED BY <1>1, <2>1, MinNat
<1>3. a \in Seq(STRING) /\ Len(a) = i - 1 /\ b \in Seq(STRING) /\ Len(b) = Len(words) - i
  <2> HIDE DEF i
  <2> QED BY <1>2
<1>4. c \in Seq(STRING) /\ Len(c) <= Len(b)
  <2> HIDE DEF a, b, i
  <2> QED BY <1>3
<1>5. a \o c \in Seq(STRING) /\ Len(a \o c) = Len(a) + Len(c)
  <2>1. \A s, t \in Seq(STRING) : s \o t \in Seq(STRING) /\ Len(s \o t) = Len(s) + Len(t)
    OBVIOUS
  <2> HIDE DEF a, b, c
  <2> QED BY <1>3, <1>4, <2>1
<1>6. Len(words) \in Nat /\ Len(c) \in Nat
  <2> HIDE DEF c
  <2> QED BY <1>4
<1> HIDE DEF a, b, c, i, at
<1>7. Len(a) < Len(words) /\ Len(b) < Len(words) /\ Len(a \o c) < Len(words)
  BY <1>2, <1>3, <1>4, <1>5, <1>6
<1>8. <<a, b>>[1] = a /\ <<a, b>>[2] = b
  OBVIOUS
<1>9. SubSeq(b, 2, Len(b)) = c
  BY DEF c
<1> QED BY <1>1, <1>3, <1>5, <1>7, <1>8, <1>9

\* The same of the first of the prepositions that splits them.
LEMMA SplitOnAnyType ==
  ASSUME NEW words \in Seq(STRING), SplitOnAny(words) # <<>>
  PROVE  LET parts == SplitOnAny(words)
         IN /\ parts[1] \in Seq(STRING) /\ parts[2] \in Seq(STRING)
            /\ Len(parts[1]) < Len(words)
<1> DEFINE found == {p \in DOMAIN Prepositions : SplitOn(Prepositions[p], words) # <<>>}
<1>1. found # {} /\ SplitOnAny(words) = SplitOn(Prepositions[Min(found)], words)
  BY DEF SplitOnAny
<1>2. Min(found) \in found
  <2>1. found \in SUBSET Nat
    BY DEF Prepositions
  <2> HIDE DEF found
  <2> QED BY <1>1, <2>1, MinNat
<1>3. SplitOn(Prepositions[Min(found)], words) # <<>>
  BY <1>2
<1> HIDE DEF found
<1> QED BY <1>1, <1>3, SplitOnType

\* What is inferred from the name of an operation of a group: variants, or that
\* nothing can be.
Variants(group) ==
  {Missing} \cup
  {CommandVariant(action, Words(group) \o Words(rest), suffix) :
     action \in Seq(STRING), rest \in Seq(STRING), suffix \in Seq(STRING)}

\* What infer is called with: the words and the suffix.
Calls == Seq(STRING) \X Seq(STRING)

\* One call infers variants if those it makes with fewer words do, ...
LEMMA InferFromType ==
  ASSUME NEW group, NEW words \in Seq(STRING), NEW suffix \in Seq(STRING), NEW infer,
         \A each \in Calls : Len(each[1]) < Len(words) => infer[each] \in Seq(Variants(group))
  PROVE  InferFrom(words, group, suffix, infer) \in Seq(Variants(group))
<1> DEFINE n == Len(words)
           verbs == {k \in 1..n : words[k] \in Verbs}
           i == IF verbs = {} THEN 1 ELSE Min(verbs)
           Command(rest, more) ==
             <<CommandVariant(<<words[i]>>, Words(group) \o Words(rest), suffix \o more)>>
           either == SplitOn("or", words)
           parts == SplitOnAny(words)
           after == SubSeq(words, i + 1, n)
           T == Seq(Variants(group))
<1>1. n \in Nat /\ DOMAIN words = 1..n
  OBVIOUS
<1>2. n > 0 => i \in 1..n
  <2>1. CASE verbs = {}
    BY <1>1, <2>1
  <2>2. CASE verbs # {}
    <3>1. verbs \in SUBSET Nat /\ verbs \subseteq 1..n
      BY <1>1
    <3>2. Min(verbs) \in verbs
      <4> HIDE DEF verbs, n
      <4> QED BY <2>2, <3>1, MinNat
    <3> HIDE DEF verbs, n
    <3> QED BY <2>2, <3>1, <3>2
  <2> QED BY <2>1, <2>2
<1> HIDE DEF i, n
<1>3. ASSUME n > 0, NEW rest \in Seq(STRING), NEW more \in Seq(STRING)
      PROVE  Command(rest, more) \in T
  <2>1. words[i] \in STRING
    BY <1>1, <1>2, <1>3
  <2>2. <<words[i]>> \in Seq(STRING) /\ suffix \o more \in Seq(STRING)
    BY <2>1
  <2> DEFINE a == <<words[i]>>
             x == suffix \o more
  <2>3. CommandVariant(a, Words(group) \o Words(rest), x) \in Variants(group)
    <3> HIDE DEF a, x
    <3>1. \E p, q, r \in Seq(STRING) : CommandVariant(a, Words(group) \o Words(rest), x)
                                     = CommandVariant(p, Words(group) \o Words(q), r)
      BY <1>3, <2>2 DEF a, x
    <3> QED BY <3>1 DEF Variants
  <2> HIDE DEF Variants
  <2> QED BY <2>3
<1>4. ASSUME n > 0
      PROVE  /\ after \in Seq(STRING) /\ RemoveAt(words, i) \in Seq(STRING)
             /\ Front(words) \in Seq(STRING)
  BY <1>1, <1>2, <1>4 DEF RemoveAt, Front
<1>5. <<>> \in Seq(STRING)
  OBVIOUS
<1>6. n = 0 => <<Missing>> \in T
  <2>1. Missing \in Variants(group)
    BY DEF Variants
  <2> HIDE DEF Variants
  <2> QED BY <2>1
<1>7. ASSUME either # <<>>
      PROVE  infer[<<either[1] \o SubSeq(either[2], 2, Len(either[2])), suffix>>]
             \o infer[<<either[2], suffix>>] \in T
  <2>1. /\ <<either[1] \o SubSeq(either[2], 2, Len(either[2])), suffix>> \in Calls
        /\ <<either[2], suffix>> \in Calls
        /\ Len(either[1] \o SubSeq(either[2], 2, Len(either[2]))) < Len(words)
        /\ Len(either[2]) < Len(words)
    BY <1>7, SplitOnType DEF Calls
  <2> HIDE DEF either
  <2>2. /\ infer[<<either[1] \o SubSeq(either[2], 2, Len(either[2])), suffix>>] \in T
        /\ infer[<<either[2], suffix>>] \in T
    BY <2>1
  <2> QED BY <2>2
<1>8. ASSUME parts # <<>> PROVE infer[<<parts[1], parts[2]>>] \in T
  <2>1. <<parts[1], parts[2]>> \in Calls /\ Len(parts[1]) < Len(words)
    BY <1>8, SplitOnAnyType DEF Calls
  <2> HIDE DEF parts
  <2> QED BY <2>1
<1> DEFINE r == InferFrom(words, group, suffix, infer)
<1> DEFINE other == CASE verbs = {} -> Command(after, after)
                      [] i = 1 -> Command(after, <<>>)
                      [] i = n -> Command(Front(words), <<>>)
                      [] OTHER -> Command(<<>>, after)
           two == infer[<<either[1] \o SubSeq(either[2], 2, Len(either[2])), suffix>>]
                  \o infer[<<either[2], suffix>>]
<1>9. r = CASE n = 0 -> <<Missing>>
            [] n \in {1, 2} -> Command(RemoveAt(words, i), <<>>)
            [] n > 2 /\ either # <<>> -> two
            [] n > 2 /\ either = <<>> /\ parts # <<>> -> infer[<<parts[1], parts[2]>>]
            [] OTHER -> other
  BY DEF InferFrom, i, n
<1> HIDE DEF Command, T, verbs, after, either, parts, r, other, two
<1>10. CASE n = 0
  <2>1. r = <<Missing>>
    BY <1>9, <1>10
  <2> QED BY <1>6, <1>10, <2>1 DEF r, T
<1>11. CASE n \in {1, 2}
  <2>1. r = Command(RemoveAt(words, i), <<>>)
    BY <1>1, <1>9, <1>11
  <2>2. n > 0
    BY <1>1, <1>11
  <2>3. r \in T
    BY <1>3, <1>4, <1>5, <2>1, <2>2
  <2> QED BY <2>3 DEF r, T
<1>12. CASE n > 2 /\ either # <<>>
  <2>1. r = two
    BY <1>1, <1>9, <1>12
  <2> QED BY <1>7, <1>12, <2>1 DEF r, T, two
<1>13. CASE n > 2 /\ either = <<>> /\ parts # <<>>
  <2>1. r = infer[<<parts[1], parts[2]>>]
    BY <1>1, <1>9, <1>13
  <2> QED BY <1>8, <1>13, <2>1 DEF r, T
<1>14. CASE n > 2 /\ either = <<>> /\ parts = <<>>
  <2>1. r = other
    BY <1>1, <1>9, <1>14
  <2>2. n > 0 /\ after \in Seq(STRING) /\ Front(words) \in Seq(STRING)
    BY <1>1, <1>4, <1>14
  <2>3. /\ Command(after, after) \in T /\ Command(after, <<>>) \in T
        /\ Command(Front(words), <<>>) \in T /\ Command(<<>>, after) \in T
    BY <1>3, <1>5, <2>2
  <2>4. r \in T
    BY <2>1, <2>3 DEF other
  <2> QED BY <2>4 DEF r, T
<1>15. n = 0 \/ n \in {1, 2} \/ n > 2
  BY <1>1
<1> QED BY <1>10, <1>11, <1>12, <1>13, <1>14, <1>15

\* ... and looks at no others.
LEMMA InferFromDescends ==
  ASSUME NEW group, NEW words \in Seq(STRING), NEW suffix \in Seq(STRING), NEW f, NEW g,
         \A each \in Calls : Len(each[1]) < Len(words) => f[each] = g[each]
  PROVE  InferFrom(words, group, suffix, f) = InferFrom(words, group, suffix, g)
<1> DEFINE either == SplitOn("or", words)
           parts == SplitOnAny(words)
<1>1. ASSUME either # <<>>
      PROVE  /\ f[<<either[1] \o SubSeq(either[2], 2, Len(either[2])), suffix>>]
                = g[<<either[1] \o SubSeq(either[2], 2, Len(either[2])), suffix>>]
             /\ f[<<either[2], suffix>>] = g[<<either[2], suffix>>]
  <2>1. /\ <<either[1] \o SubSeq(either[2], 2, Len(either[2])), suffix>> \in Calls
        /\ <<either[2], suffix>> \in Calls
        /\ Len(either[1] \o SubSeq(either[2], 2, Len(either[2]))) < Len(words)
        /\ Len(either[2]) < Len(words)
    BY <1>1, SplitOnType DEF Calls
  <2> HIDE DEF either
  <2> QED BY <2>1
<1>2. ASSUME parts # <<>> PROVE f[<<parts[1], parts[2]>>] = g[<<parts[1], parts[2]>>]
  <2>1. <<parts[1], parts[2]>> \in Calls /\ Len(parts[1]) < Len(words)
    BY <1>2, SplitOnAnyType DEF Calls
  <2> HIDE DEF parts
  <2> QED BY <2>1
<1> QED BY <1>1, <1>2 DEF InferFrom

\* So, with an induction over the number of words, whatever an operation is called,
\* what is inferred are variants.
LEMMA InferCommandType ==
  ASSUME NEW operation \in Seq(STRING), NEW group, NEW suffix \in Seq(STRING)
  PROVE  InferCommand(operation, group, suffix) \in Seq(Variants(group))
<1> DEFINE A == Calls
           D == Seq(Variants(group))
           words(name) == Those(name[1], {i \in DOMAIN name[1] : name[1][i] # "all"})
           size == [name \in A |-> Len(name[1])]
           step == [each \in A \X [A -> D] |->
                      InferFrom(words(each[1]), group, each[1][2], each[2])]
           infer == CHOOSE f : f = [name \in Seq(STRING) \X Seq(STRING) |->
                                      InferFrom(words(name), group, name[2], f)]
<1>1. ASSUME NEW name \in A
      PROVE  /\ name[1] \in Seq(STRING) /\ name[2] \in Seq(STRING)
             /\ words(name) \in Seq(STRING) /\ Len(words(name)) <= Len(name[1])
             /\ size[name] = Len(name[1]) /\ size[name] \in Nat /\ Len(words(name)) \in Nat
  <2>1. name[1] \in Seq(STRING) /\ name[2] \in Seq(STRING)
    BY DEF Calls
  <2>2. words(name) \in Seq(STRING) /\ Len(words(name)) <= Len(name[1])
    BY <2>1, ThoseType
  <2> HIDE DEF words
  <2> QED BY <2>1, <2>2
<1>2. D # {} /\ size \in [A -> Nat]
  <2>1. <<>> \in D
    OBVIOUS
  <2> HIDE DEF A, D
  <2> QED BY <1>1, <2>1
<1>3. ASSUME NEW name \in A, NEW f, \A each \in A : size[each] < size[name] => f[each] \in D
      PROVE  InferFrom(words(name), group, name[2], f) \in D
  <2>1. \A each \in Calls : Len(each[1]) < Len(words(name)) => f[each] \in Seq(Variants(group))
    <3>1. ASSUME NEW each \in Calls, Len(each[1]) < Len(words(name)) PROVE f[each] \in D
      <4>1. size[each] < size[name]
        <5> HIDE DEF words, size, D
        <5>1. size[each] = Len(each[1]) /\ size[each] \in Nat
          BY <1>1
        <5>2. Len(words(name)) <= size[name] /\ size[name] \in Nat /\ Len(words(name)) \in Nat
          BY <1>1
        <5> QED BY <3>1, <5>1, <5>2
      <4> HIDE DEF words, size, D
      <4> QED BY <1>3, <4>1
    <3> HIDE DEF words
    <3> QED BY <3>1
  <2> HIDE DEF words
  <2> QED BY <1>1, <2>1, InferFromType
<1>4. ASSUME NEW name \in A, NEW f, NEW g, \A each \in A : size[each] < size[name] => f[each] = g[each]
      PROVE  InferFrom(words(name), group, name[2], f) = InferFrom(words(name), group, name[2], g)
  <2>1. \A each \in Calls : Len(each[1]) < Len(words(name)) => f[each] = g[each]
    <3>1. ASSUME NEW each \in Calls, Len(each[1]) < Len(words(name)) PROVE f[each] = g[each]
      <4>1. size[each] < size[name]
        <5> HIDE DEF words, size, D
        <5>1. size[each] = Len(each[1]) /\ size[each] \in Nat
          BY <1>1
        <5>2. Len(words(name)) <= size[name] /\ size[name] \in Nat /\ Len(words(name)) \in Nat
          BY <1>1
        <5> QED BY <3>1, <5>1, <5>2
      <4> HIDE DEF words, size, D
      <4> QED BY <1>4, <4>1
    <3> QED BY <3>1
  <2> HIDE DEF words
  <2> QED BY <1>1, <2>1, InferFromDescends
<1>5. step \in [A \X [A -> D] -> D]
  <2>1. ASSUME NEW name \in A, NEW f \in [A -> D]
        PROVE  InferFrom(words(name), group, name[2], f) \in D
    <3> HIDE DEF words, size, D, A
    <3> QED BY <1>3
  <2> HIDE DEF words, D, A
  <2> QED BY <2>1
<1>6. \A name \in A, f \in [A -> D] : step[<<name, f>>] = InferFrom(words(name), group, name[2], f)
  <2> HIDE DEF words, D, A
  <2> QED OBVIOUS
<1>7. Descends(A, D, size, step)
  <2> HIDE DEF words, D, A, size, step
  <2>1. ASSUME NEW name \in A, NEW f \in [A -> D], NEW g \in [A -> D],
               \A each \in A : size[each] < size[name] => f[each] = g[each]
        PROVE  step[<<name, f>>] = step[<<name, g>>]
    BY <1>4, <1>6, <2>1
  <2> QED BY <2>1 DEF Descends
<1>8. PICK g \in [A -> D] : \A name \in A : g[name] = step[<<name, g>>]
  <2> HIDE DEF words, D, A, size, step
  <2>1. Solutions(A, D, step) # {}
    BY <1>2, <1>5, <1>7, RecursionExists
  <2> QED BY <2>1 DEF Solutions
<1>9. g = [name \in Seq(STRING) \X Seq(STRING) |-> InferFrom(words(name), group, name[2], g)]
  <2>1. g = [name \in A |-> InferFrom(words(name), group, name[2], g)]
    <3> HIDE DEF words, D, A, size, step
    <3> QED BY <1>6, <1>8
  <2> HIDE DEF words, D
  <2> QED BY <2>1 DEF Calls
<1>10. infer = [name \in Seq(STRING) \X Seq(STRING) |-> InferFrom(words(name), group, name[2], infer)]
  <2> HIDE DEF words
  <2> QED BY <1>9
<1>11. \A name \in A : infer[name] = InferFrom(words(name), group, name[2], infer)
  <2> HIDE DEF words, infer
  <2> QED BY <1>10 DEF Calls
<1> DEFINE S == {n \in Nat : \A name \in A : size[name] < n => infer[name] \in D}
<1>12. 0 \in S
  <2> HIDE DEF infer, D
  <2> QED BY <1>1
<1>13. ASSUME NEW n \in Nat, n \in S PROVE n + 1 \in S
  <2>1. ASSUME NEW name \in A, size[name] < n + 1 PROVE infer[name] \in D
    <3> HIDE DEF words, infer, D, A, size
    <3>1. \A each \in A : size[each] < size[name] => infer[each] \in D
      <4>1. ASSUME NEW each \in A, size[each] < size[name] PROVE size[each] < n
        BY <1>1, <2>1, <4>1
      <4> QED BY <1>13, <4>1
    <3>2. InferFrom(words(name), group, name[2], infer) \in D
      BY <1>3, <3>1
    <3> QED BY <1>11, <3>2
  <2> HIDE DEF infer, D, A, size
  <2> QED BY <2>1
<1>14. \A n \in Nat : n \in S
  <2> HIDE DEF S
  <2> QED BY <1>12, <1>13, NatSetInduction
<1>15. ASSUME NEW name \in A PROVE infer[name] \in D
  <2> HIDE DEF infer, D, A, words
  <2>1. size[name] + 1 \in Nat /\ size[name] < size[name] + 1
    BY <1>1
  <2> HIDE DEF size
  <2> QED BY <1>14, <2>1
<1>16. <<operation, suffix>> \in A
  BY DEF Calls
<1>17. InferCommand(operation, group, suffix) = infer[<<operation, suffix>>]
  BY DEF InferCommand
<1> HIDE DEF infer, A
<1> QED BY <1>15, <1>16, <1>17

\* And so are those of the verb map; a variant that is not Missing has an action.
LEMMA InferCommandNamesType ==
  ASSUME NEW op, op.name \in Seq(STRING)
  PROVE  LET found == InferCommandNames(op)
         IN /\ found \in Seq(ToSet(found))
            /\ Missing \notin ToSet(found) =>
                 \A v \in ToSet(found) :
                   /\ DOMAIN v = {"verb", "action", "prefix", "variant", "subject"}
                   /\ v.action \in Seq(STRING)
<1> DEFINE group == SingularName(op.group)
           found == InferCommandNames(op)
           T == Variants(group) \cup {CommandVariant(op.name, <<group>>, <<>>)}
<1>1. found \in Seq(T)
  <2>1. <<CommandVariant(op.name, <<group>>, <<>>)>> \in Seq(T)
    <3> HIDE DEF group
    <3>1. CommandVariant(op.name, <<group>>, <<>>) \in T
      OBVIOUS
    <3> HIDE DEF T
    <3> QED BY <3>1
  <2>2. InferCommand(op.name, group, <<>>) \in Seq(Variants(group))
    <3>1. <<>> \in Seq(STRING)
      OBVIOUS
    <3> HIDE DEF group
    <3> QED BY <3>1, InferCommandType
  <2>3. \A s \in Seq(Variants(group)) : s \in Seq(T)
    <3> DEFINE V == Variants(group)
    <3>1. V \subseteq T
      OBVIOUS
    <3> HIDE DEF V, T
    <3> QED BY <3>1 DEF V
  <2> HIDE DEF group, T
  <2> QED BY <2>1, <2>2, <2>3 DEF InferCommandNames, group
<1>2. found \in Seq(ToSet(found)) /\ ToSet(found) \subseteq T
  <2> HIDE DEF found, T
  <2> QED BY <1>1 DEF ToSet
<1>3. ASSUME NEW v \in T, v # Missing
      PROVE  /\ DOMAIN v = {"verb", "action", "prefix", "variant", "subject"}
             /\ v.action \in Seq(STRING)
  <2>1. PICK a, s, x : a \in Seq(STRING) /\ v = CommandVariant(a, s, x)
    <3> HIDE DEF group
    <3> QED BY <1>3 DEF Variants
  <2> QED BY <2>1 DEF CommandVariant
<1> HIDE DEF T
<1> QED BY <1>2, <1>3

\* How numbers are written: in letters, no two of them alike.
NumeralsDiffer ==
  \A m, n \in Nat : ToString(m) \in STRING /\ (ToString(m) = ToString(n) => m = n)

\* One element more.
LEMMA AppendedLast ==
  ASSUME NEW T, NEW seq \in Seq(T), NEW e \in T
  PROVE  /\ Append(seq, e) \in Seq(T) /\ Len(Append(seq, e)) = Len(seq) + 1
         /\ Append(seq, e)[Len(seq) + 1] = e
         /\ \A i \in 1..Len(seq) : Append(seq, e)[i] = seq[i]
         /\ ToSet(Append(seq, e)) = ToSet(seq) \cup {e}
<1>1. /\ Append(seq, e) \in Seq(T) /\ Len(Append(seq, e)) = Len(seq) + 1
      /\ Append(seq, e)[Len(seq) + 1] = e
      /\ \A i \in 1..Len(seq) : Append(seq, e)[i] = seq[i]
  OBVIOUS
<1>2. DOMAIN Append(seq, e) = 1..Len(seq)+1 /\ DOMAIN seq = 1..Len(seq) /\ Len(seq) \in Nat
  OBVIOUS
<1>3. 1..Len(seq)+1 = (1..Len(seq)) \cup {Len(seq) + 1}
  BY <1>2
<1>4. ToSet(Append(seq, e)) = ToSet(seq) \cup {e}
  BY <1>1, <1>2, <1>3 DEF ToSet
<1> QED BY <1>1, <1>4

\* Names that differ in the number at their end differ.
LEMMA NumeralsAppended ==
  ASSUME NumeralsDiffer, NEW name \in Seq(STRING), NEW m \in Nat
  PROVE  /\ Append(name, ToString(m)) \in Seq(STRING)
         /\ Last(Append(name, ToString(m))) = ToString(m)
         /\ \A n \in Nat : Append(name, ToString(m)) = Append(name, ToString(n)) => m = n
<1>1. ToString(m) \in STRING /\ \A n \in Nat : ToString(n) \in STRING
  BY DEF NumeralsDiffer
<1>2. \A a \in STRING : /\ Append(name, a) \in Seq(STRING) /\ Len(Append(name, a)) = Len(name) + 1
                        /\ Append(name, a)[Len(name) + 1] = a
  <2> DEFINE T == STRING
  <2>1. name \in Seq(T)
    OBVIOUS
  <2> HIDE DEF T
  <2>2. \A a \in T : /\ Append(name, a) \in Seq(T) /\ Len(Append(name, a)) = Len(name) + 1
                     /\ Append(name, a)[Len(name) + 1] = a
    BY <2>1, AppendedLast
  <2> QED BY <2>2 DEF T
<1>3. ASSUME NEW n \in Nat, Append(name, ToString(m)) = Append(name, ToString(n)) PROVE m = n
  <2>1. Append(name, ToString(m))[Len(name) + 1] = ToString(m)
    BY <1>1, <1>2
  <2>2. ToString(n) \in STRING
    BY <1>1
  <2>3. Append(name, ToString(n))[Len(name) + 1] = ToString(n)
    BY <1>2, <2>2
  <2>4. ToString(m) = ToString(n)
    BY <1>3, <2>1, <2>3
  <2> QED BY <2>4 DEF NumeralsDiffer
<1> QED BY <1>1, <1>2, <1>3 DEF Last

\* Of more numbers than names are in use one is free.
LEMMA SomeNumberFree ==
  ASSUME NumeralsDiffer, NEW name \in Seq(STRING), NEW used, IsFiniteSet(used), NEW N \in Nat,
         Cardinality(used) < N
  PROVE  \E n \in 1..N : Append(name, ToString(n)) \notin used
<1> DEFINE f == [n \in 1..N |-> Append(name, ToString(n))]
<1>1. SUFFICES ASSUME \A n \in 1..N : Append(name, ToString(n)) \in used PROVE FALSE
  OBVIOUS
<1>2. f \in [1..N -> used]
  BY <1>1
<1>3. IsFiniteSet(1..N) /\ Cardinality(1..N) = N
  BY FS_Interval
<1>4. \E x, y \in 1..N : x # y /\ f[x] = f[y]
  <2> HIDE DEF f
  <2> QED BY <1>2, <1>3, FS_PigeonHole
<1>5. PICK x \in 1..N, y \in 1..N : x # y /\ Append(name, ToString(x)) = Append(name, ToString(y))
  BY <1>4
<1> QED BY <1>5, NumeralsAppended

\* So the name with the least number that is free is a new one.
LEMMA NumberedIsNew ==
  ASSUME NumeralsDiffer, NEW name \in Seq(STRING), NEW used, IsFiniteSet(used)
  PROVE  Numbered(name, used) \in Seq(STRING) /\ Numbered(name, used) \notin used
<1> DEFINE N == Cardinality(used) + 1
           free == {n \in 1..N : Append(name, ToString(n)) \notin used}
<1>1. Cardinality(used) \in Nat /\ N \in Nat /\ Cardinality(used) < N
  BY FS_CardinalityType
<1>2. free # {} /\ free \in SUBSET Nat
  <2>1. \E n \in 1..N : Append(name, ToString(n)) \notin used
    <3> HIDE DEF N
    <3> QED BY <1>1, SomeNumberFree
  <2> HIDE DEF N
  <2> QED BY <1>1, <2>1
<1>3. Min(free) \in free /\ Min(free) \in Nat
  <2> HIDE DEF free
  <2> QED BY <1>2, MinNat
<1>4. Numbered(name, used) = Append(name, ToString(Min(free)))
  BY DEF Numbered
<1>5. Append(name, ToString(Min(free))) \notin used
  BY <1>3
<1> HIDE DEF free
<1> QED BY <1>3, <1>4, <1>5, NumeralsAppended

\* The first words of a name are a name.
LEMMA FirstWords ==
  ASSUME NEW T, NEW seq \in Seq(T), NEW n \in 0..Len(seq)
  PROVE  SubSeq(seq, 1, n) \in Seq(T) /\ Len(SubSeq(seq, 1, n)) = n
  OBVIOUS

\* A name that is cut off, or loses its number, is one.
LEMMA NamePartsType ==
  ASSUME NEW name \in Seq(STRING)
  PROVE  Trimmed(name) \in Seq(STRING) /\ WithoutNumber(name) \in Seq(STRING)
<1>1. Len(name) \in Nat /\ (name # <<>> => Len(name) - 1 \in 0..Len(name))
  OBVIOUS
<1>2. Len(name) > MaxWords => MaxWords \in 0..Len(name)
  BY <1>1, WordsAssumption
<1>3. Trimmed(name) \in Seq(STRING)
  <2>1. CASE Len(name) <= MaxWords
    BY <2>1 DEF Trimmed
  <2>2. CASE ~(Len(name) <= MaxWords)
    <3>1. MaxWords \in 0..Len(name)
      BY <1>1, <1>2, <2>2, WordsAssumption
    <3> QED BY <2>2, <3>1, FirstWords DEF Trimmed
  <2> QED BY <2>1, <2>2
<1>4. WithoutNumber(name) \in Seq(STRING)
  BY <1>1, FirstWords DEF WithoutNumber, Front
<1> QED BY <1>3, <1>4

\* What is known of inferrers: the identities are those of the commands, of which no
\* two have the same one.
Inferrers(C) ==
  {r \in [identities : SUBSET {Key(c) : c \in C}, commands : Seq(C)] :
     /\ IsFiniteSet(r.identities)
     /\ \A i \in DOMAIN r.commands : Key(r.commands[i]) \in r.identities
     /\ \A id \in r.identities : \E i \in DOMAIN r.commands : Key(r.commands[i]) = id
     /\ \A i, j \in DOMAIN r.commands : i # j => Key(r.commands[i]) # Key(r.commands[j])}

\* One more command: its name is cut off and gets a number if it must, and is new then
\* (addCommandOperation).
LEMMA AddCommandOperationType ==
  ASSUME NumeralsDiffer, NEW C, NEW found \in Inferrers(C), NEW vname \in Seq(STRING),
         NEW op, NEW variant, NEW params, NEW extra,
         \A name \in Seq(STRING) : NewCommand(name, op, variant, params, extra) \in C
  PROVE  AddCommandOperation(found, vname, op, variant, params, extra) \in Inferrers(C)
<1> DEFINE K == {Key(c) : c \in C}
           ids == found.identities
           seq == found.commands
           Id(name) == <<variant.verb, variant.subject, name>>
           trimmed == Trimmed(vname)
           near == {d \in ids : d[1] = variant.verb /\ d[2] = variant.subject}
           used == {id[3] : id \in near}
           name == IF Id(trimmed) \in ids THEN Numbered(WithoutNumber(trimmed), used) ELSE trimmed
           new == NewCommand(name, op, variant, params, extra)
<1>1. /\ ids \in SUBSET K /\ IsFiniteSet(ids) /\ seq \in Seq(C)
      /\ \A i \in DOMAIN seq : Key(seq[i]) \in ids
      /\ \A id \in ids : \E i \in DOMAIN seq : Key(seq[i]) = id
      /\ \A i, j \in DOMAIN seq : i # j => Key(seq[i]) # Key(seq[j])
  BY DEF Inferrers
<1>2. IsFiniteSet(used)
  <2>1. IsFiniteSet(near)
    <3>1. near \in SUBSET ids
      OBVIOUS
    <3> HIDE DEF near, ids
    <3> QED BY <1>1, <3>1, FS_Subset
  <2> DEFINE f == [d \in near |-> d[3]]
  <2>2. f \in Surjection(near, used)
    <3> HIDE DEF near
    <3> QED BY DEF Surjection
  <2> HIDE DEF near, used, f
  <2> QED BY <2>1, <2>2, FS_Surjection
<1>3. trimmed \in Seq(STRING) /\ WithoutNumber(trimmed) \in Seq(STRING)
  <2>1. trimmed \in Seq(STRING)
    BY NamePartsType
  <2> HIDE DEF trimmed
  <2> QED BY <2>1, NamePartsType
<1>4. name \in Seq(STRING) /\ Id(name) \notin ids
  <2>1. CASE Id(trimmed) \notin ids
    <3>1. name = trimmed
      BY <2>1
    <3> HIDE DEF trimmed, ids, name
    <3> QED BY <1>3, <2>1, <3>1
  <2>2. CASE Id(trimmed) \in ids
    <3>1. name = Numbered(WithoutNumber(trimmed), used)
      BY <2>2
    <3>2. name \in Seq(STRING) /\ name \notin used
      <4> HIDE DEF trimmed, ids, name, used
      <4> QED BY <1>2, <1>3, <3>1, NumberedIsNew
    <3>3. Id(name) \in ids => name \in used
      <4> HIDE DEF name, ids
      <4>1. Id(name)[1] = variant.verb /\ Id(name)[2] = variant.subject /\ Id(name)[3] = name
        OBVIOUS
      <4> HIDE DEF Id
      <4> QED BY <4>1
    <3> HIDE DEF name, used, ids
    <3> QED BY <3>2, <3>3
  <2> HIDE DEF name, ids
  <2> QED BY <2>1, <2>2
<1>5. new \in C /\ Key(new) = Id(name)
  <2> HIDE DEF name
  <2>1. new \in C
    BY <1>4
  <2>2. new.verb = variant.verb /\ new.subject = variant.subject /\ new.name = name
    BY DEF NewCommand
  <2> HIDE DEF new
  <2> QED BY <2>1, <2>2 DEF Key
<1> DEFINE ids2 == ids \cup {Id(name)}
           seq2 == Append(seq, new)
<1>6. AddCommandOperation(found, vname, op, variant, params, extra)
        = [identities |-> ids2, commands |-> seq2]
  BY DEF AddCommandOperation
<1> HIDE DEF ids, seq, name, new, used, near, trimmed, Id, K
<1>7. /\ ids2 \in SUBSET K /\ IsFiniteSet(ids2)
  <2>1. Id(name) \in K
    BY <1>5 DEF K
  <2>2. IsFiniteSet(ids2)
    BY <1>1, FS_AddElement
  <2> QED BY <1>1, <2>1, <2>2
<1>8. /\ seq2 \in Seq(C) /\ DOMAIN seq2 = 1..Len(seq)+1 /\ DOMAIN seq = 1..Len(seq) /\ Len(seq) \in Nat
      /\ seq2[Len(seq) + 1] = new /\ \A i \in 1..Len(seq) : seq2[i] = seq[i]
  BY <1>1, <1>5, AppendedLast
<1> HIDE DEF seq2
<1>9. \A i \in DOMAIN seq2 : i \in DOMAIN seq \/ i = Len(seq) + 1
  BY <1>8
<1>10. \A i \in DOMAIN seq2 : Key(seq2[i]) \in ids2
  BY <1>1, <1>5, <1>8, <1>9
<1>11. \A i, j \in DOMAIN seq2 : i # j => Key(seq2[i]) # Key(seq2[j])
  BY <1>1, <1>4, <1>5, <1>8, <1>9
<1>12. \A id \in ids2 : \E i \in DOMAIN seq2 : Key(seq2[i]) = id
  BY <1>1, <1>5, <1>8
<1> HIDE DEF ids2
<1>13. [identities |-> ids2, commands |-> seq2] \in Inferrers(C)
  BY <1>7, <1>8, <1>10, <1>11, <1>12 DEF Inferrers, K
<1> QED BY <1>6, <1>13

\* The whole body, none, or one that is taken apart.
Bodies(op) ==
  {[drop |-> FALSE, body |-> <<>>],
   [drop |-> FALSE, body |-> <<BodyParameter(op.body[1], op.body[1].name)>>],
   [drop |-> TRUE, body |-> <<BodyParameter(op.body[1], Append(op.body[1].name, "body"))>>]}

\* The commands that can be made for an operation and the variants found for it.
NewCommands(op, variants) ==
  LET constants == SelectSeq(op.params, LAMBDA p : p.constant \/ p.fromHost)
      required == SelectSeq(op.params, LAMBDA p : ~(p.constant \/ p.fromHost))
      others == SelectSeq(required, LAMBDA p : p.in # "path")
  IN {NewCommand(name, op, variant, params, extra) :
        name \in Seq(STRING),
        variant \in variants \cup {[v EXCEPT !.verb = "Set"] : v \in variants},
        params \in {constants \o required, constants \o others},
        extra \in Bodies(op)}

\* One or two more (addVariant).
LEMMA AddVariantType ==
  ASSUME NumeralsDiffer, NEW C, NEW found \in Inferrers(C), NEW vname \in Seq(STRING),
         NEW op, NEW variant, NEW params, NEW expandable,
         \A name \in Seq(STRING) : \A extra \in Bodies(op) :
             NewCommand(name, op, variant, params, extra) \in C
  PROVE  AddVariant(found, vname, op, variant, params, expandable) \in Inferrers(C)
<1> DEFINE plain == [drop |-> FALSE, body |-> IF op.body = <<>> THEN <<>>
                                              ELSE <<BodyParameter(op.body[1], op.body[1].name)>>]
           whole == AddCommandOperation(found, vname, op, variant, params, plain)
           parts == [drop |-> TRUE, body |-> <<BodyParameter(op.body[1], Append(op.body[1].name, "body"))>>]
           both == AddCommandOperation(whole, Append(vname, "expanded"), op, variant, params, parts)
<1>1. /\ \A name \in Seq(STRING) : NewCommand(name, op, variant, params, plain) \in C
      /\ \A name \in Seq(STRING) : NewCommand(name, op, variant, params, parts) \in C
  BY DEF Bodies
<1>2. Append(vname, "expanded") \in Seq(STRING)
  <2>1. \A word \in STRING : Append(vname, word) \in Seq(STRING)
    BY AppendedLast
  <2>2. "expanded" \in STRING
    BY WordsAssumption
  <2> QED BY <2>1, <2>2
<1>3. whole \in Inferrers(C)
  <2> HIDE DEF plain
  <2> QED BY <1>1, AddCommandOperationType
<1>4. both \in Inferrers(C)
  <2> HIDE DEF whole, parts
  <2> QED BY <1>1, <1>2, <1>3, AddCommandOperationType
<1>5. AddVariant(found, vname, op, variant, params, expandable) \in {whole, both}
  BY DEF AddVariant
<1> HIDE DEF whole, both
<1> QED BY <1>3, <1>4, <1>5

\* And those without the parameters in the path.
LEMMA AddVariantsType ==
  ASSUME NumeralsDiffer, NEW C, NEW made \in Inferrers(C), NEW op, NEW variants,
         NEW found \in variants, NEW expandable,
         "action" \in DOMAIN found, found.action \in Seq(STRING), NewCommands(op, variants) \subseteq C
  PROVE  AddVariants(made, op, found, expandable) \in Inferrers(C)
<1> DEFINE variant == IF found.verb = "Update" /\ op.method = "put"
                      THEN [found EXCEPT !.verb = "Set"] ELSE found
           constants == SelectSeq(op.params, LAMBDA p : p.constant \/ p.fromHost)
           required == SelectSeq(op.params, LAMBDA p : ~(p.constant \/ p.fromHost))
           others == SelectSeq(required, LAMBDA p : p.in # "path")
           both == constants \o required
           fewer == constants \o others
           extras == Bodies(op)
           direct == AddVariant(made, variant.action, op, variant, both, expandable)
           name == variant.action \o <<"via", "identity">>
           all == AddVariant(direct, name, op, variant, fewer, expandable)
<1>1. variant.action = found.action
  OBVIOUS
<1>2. variant.action \in Seq(STRING) /\ name \in Seq(STRING)
  <2>1. <<"via", "identity">> \in Seq(STRING)
    <3>1. \A a, b \in STRING : <<a, b>> \in Seq(STRING)
      OBVIOUS
    <3> QED BY <3>1, WordsAssumption
  <2>2. \A s, t \in Seq(STRING) : s \o t \in Seq(STRING)
    OBVIOUS
  <2> HIDE DEF variant
  <2> QED BY <1>1, <2>1, <2>2
<1>3. variant \in variants \cup {[v EXCEPT !.verb = "Set"] : v \in variants}
  OBVIOUS
<1> DEFINE V == variants \cup {[v EXCEPT !.verb = "Set"] : v \in variants}
<1>4. NewCommands(op, variants) = {NewCommand(n, op, v, p, e) :
        n \in Seq(STRING), v \in V, p \in {both, fewer}, e \in extras}
  BY DEF NewCommands
<1> HIDE DEF V, variant, both, fewer, extras
<1>5. ASSUME NEW n \in Seq(STRING), NEW p \in {both, fewer}, NEW e \in extras
      PROVE  NewCommand(n, op, variant, p, e) \in C
  <2>1. \E a \in Seq(STRING), v \in V, q \in {both, fewer}, x \in extras :
          NewCommand(n, op, variant, p, e) = NewCommand(a, op, v, q, x)
    BY <1>3, <1>5 DEF V
  <2>2. NewCommand(n, op, variant, p, e) \in NewCommands(op, variants)
    BY <1>4, <2>1
  <2> QED BY <2>2
<1>6. direct \in Inferrers(C)
  <2>1. \A n \in Seq(STRING) : \A e \in extras : NewCommand(n, op, variant, both, e) \in C
    BY <1>5
  <2> HIDE DEF name
  <2> QED BY <1>2, <2>1, AddVariantType DEF extras
<1>7. all \in Inferrers(C)
  <2>1. \A n \in Seq(STRING) : \A e \in extras : NewCommand(n, op, variant, fewer, e) \in C
    BY <1>5
  <2> HIDE DEF name, direct
  <2> QED BY <1>2, <1>6, <2>1, AddVariantType DEF extras
<1>8. AddVariants(made, op, found, expandable) \in {direct, all}
  BY DEF AddVariants, variant, both, fewer
<1> HIDE DEF direct, all
<1> QED BY <1>6, <1>7, <1>8

\* All that is made for one operation.
LEMMA CreateCommandsType ==
  ASSUME NumeralsDiffer, NEW C, NEW made \in Inferrers(C), NEW op, op.name \in Seq(STRING),
         NEW expandable, Missing \notin ToSet(InferCommandNames(op)),
         NewCommands(op, ToSet(InferCommandNames(op))) \subseteq C
  PROVE  CreateCommands(made, op, expandable) \in Inferrers(C)
<1> DEFINE found == InferCommandNames(op)
           variants == ToSet(found)
           N == Len(found)
           D == Inferrers(C)
           Add(r, v) == AddVariants(r, op, v, expandable)
           step == [each \in (1..N) \X D |-> Add(each[2], found[each[1]])]
           iter == CHOOSE f : f = [s \in SUBSET DOMAIN found |->
                     IF s = {} THEN made ELSE Add(f[s \ {Max(s)}], found[Max(s)])]
<1>1. /\ found \in Seq(variants) /\ N \in Nat /\ DOMAIN found = 1..N
      /\ \A i \in 1..N : /\ found[i] \in variants /\ "action" \in DOMAIN found[i]
                         /\ found[i].action \in Seq(STRING)
  <2>1. /\ found \in Seq(variants)
        /\ \A v \in variants : /\ DOMAIN v = {"verb", "action", "prefix", "variant", "subject"}
                               /\ v.action \in Seq(STRING)
    BY InferCommandNamesType
  <2> HIDE DEF found
  <2>2. N \in Nat /\ DOMAIN found = 1..N /\ \A i \in 1..N : found[i] \in variants
    BY <2>1 DEF ToSet
  <2> HIDE DEF variants
  <2> QED BY <2>1, <2>2
<1>2. ASSUME NEW i \in 1..N, NEW r \in D PROVE Add(r, found[i]) \in D
  <2> HIDE DEF found, N
  <2> QED BY <1>1, <1>2, AddVariantsType DEF found
<1> HIDE DEF found, D, variants
<1>3. step \in [(1..N) \X D -> D]
  <2> HIDE DEF N, Add
  <2> QED BY <1>2
<1>4. \A q \in D, s \in SUBSET (1..N) :
        s # {} => Max(s) \in 1..N /\ step[<<Max(s), q>>] = Add(q, found[Max(s)])
  <2>1. \A s \in SUBSET (1..N) : s # {} => Max(s) \in 1..N
    BY <1>1, MaxInterval
  <2> HIDE DEF N, Add
  <2> QED BY <2>1
<1>5. PICK g \in [SUBSET (1..N) -> D] : \A s \in SUBSET (1..N) :
        g[s] = IF s = {} THEN made ELSE step[<<Max(s), g[s \ {Max(s)}]>>]
  <2> HIDE DEF step, N, iter
  <2>1. FoldsOver(D, made, N, step) # {}
    BY <1>1, <1>3, FoldExists DEF D
  <2> QED BY <2>1 DEF FoldsOver
<1>6. g = [s \in SUBSET DOMAIN found |->
             IF s = {} THEN made ELSE Add(g[s \ {Max(s)}], found[Max(s)])]
  <2>1. \A s \in SUBSET (1..N) : s \ {Max(s)} \in SUBSET (1..N) /\ g[s \ {Max(s)}] \in D
    OBVIOUS
  <2> HIDE DEF step, N, iter, Add
  <2> QED BY <1>1, <1>4, <1>5, <2>1
<1>7. iter = [s \in SUBSET DOMAIN found |->
                IF s = {} THEN made ELSE Add(iter[s \ {Max(s)}], found[Max(s)])]
  <2> HIDE DEF step, N, Add
  <2> QED BY <1>6
<1>8. Follows(iter, D, made, N, step)
  <2> HIDE DEF step, N, iter, Add
  <2>1. iter[{}] = made
    BY <1>1, <1>7
  <2>2. ASSUME NEW s \in SUBSET (1..N), s # {}, iter[s \ {Max(s)}] \in D
        PROVE  iter[s] = step[<<Max(s), iter[s \ {Max(s)}]>>]
    BY <1>1, <1>4, <1>7, <2>2
  <2> QED BY <2>1, <2>2 DEF Follows
<1>9. PICK h \in Rounds(D, made, N, step) : iter[1..N] = h[N]
  <2> HIDE DEF step, N, iter
  <2>1. iter[1..N] \in Outcomes(D, made, N, step)
    BY <1>1, <1>3, <1>8, FoldSteps DEF D
  <2> QED BY <2>1 DEF Outcomes
<1>10. h[N] \in D
  <2> HIDE DEF step, N, iter
  <2> QED BY <1>1, <1>9 DEF Rounds
<1>11. CreateCommands(made, op, expandable) = iter[1..N]
  BY <1>1 DEF CreateCommands, FoldLeft, MapThenFoldSet, found
<1> QED BY <1>9, <1>10, <1>11 DEF D

\* What is replaced in a name makes a name.
LEMMA ReplaceInType ==
  ASSUME NEW name \in Seq(STRING), NEW text \in Seq(STRING), NEW new \in Seq(STRING), text # <<>>
  PROVE  ReplaceIn(name, text, new) \in Seq(STRING)
<1> DEFINE A == Seq(STRING)
           size == [rest \in A |-> Len(rest)]
           after(rest) == SubSeq(rest, Len(text) + 1, Len(rest))
           one(rest, f) == IF Len(rest) < Len(text) THEN rest
                           ELSE IF IsPrefix(text, rest) THEN new \o f[after(rest)]
                           ELSE <<Head(rest)>> \o f[Tail(rest)]
           step == [each \in A \X [A -> A] |-> one(each[1], each[2])]
           replace == CHOOSE f : f = [rest \in Seq(STRING) |-> one(rest, f)]
<1>1. ASSUME NEW rest \in A, ~(Len(rest) < Len(text))
      PROVE  /\ after(rest) \in A /\ Len(after(rest)) < Len(rest)
             /\ Tail(rest) \in A /\ Len(Tail(rest)) < Len(rest) /\ <<Head(rest)>> \in A
  <2>1. Len(text) \in Nat /\ Len(rest) \in Nat /\ Len(text) > 0 /\ rest # <<>>
    BY <1>1
  <2>2. Tail(rest) \in A /\ Len(Tail(rest)) = Len(rest) - 1 /\ Head(rest) \in STRING
    BY <2>1
  <2>3. after(rest) \in A /\ Len(after(rest)) = Len(rest) - Len(text)
    <3>1. \A n \in Nat : n <= Len(rest) =>
            SubSeq(rest, n + 1, Len(rest)) \in A /\ Len(SubSeq(rest, n + 1, Len(rest))) = Len(rest) - n
      BY <2>1
    <3> QED BY <1>1, <2>1, <3>1
  <2>4. <<Head(rest)>> \in A
    BY <2>2
  <2> HIDE DEF after, A
  <2> QED BY <2>1, <2>2, <2>3, <2>4
<1>2. size \in [A -> Nat] /\ \A rest \in A : size[rest] = Len(rest) /\ size[rest] \in Nat
  OBVIOUS
<1>3. ASSUME NEW rest \in A, NEW f, \A each \in A : size[each] < size[rest] => f[each] \in A
      PROVE  one(rest, f) \in A
  <2>1. CASE Len(rest) < Len(text)
    BY <2>1
  <2>2. CASE ~(Len(rest) < Len(text))
    <3>1. f[after(rest)] \in A /\ f[Tail(rest)] \in A /\ <<Head(rest)>> \in A /\ new \in A
      <4> HIDE DEF size, after
      <4> QED BY <1>1, <1>2, <1>3, <2>2
    <3>2. \A s, t \in A : s \o t \in A
      OBVIOUS
    <3> HIDE DEF A, after
    <3> QED BY <2>2, <3>1, <3>2
  <2> QED BY <2>1, <2>2
<1>4. ASSUME NEW rest \in A, NEW f, NEW g, \A each \in A : size[each] < size[rest] => f[each] = g[each]
      PROVE  one(rest, f) = one(rest, g)
  <2>1. ~(Len(rest) < Len(text)) => f[after(rest)] = g[after(rest)] /\ f[Tail(rest)] = g[Tail(rest)]
    <3> HIDE DEF size, after
    <3> QED BY <1>1, <1>2, <1>4
  <2> HIDE DEF after
  <2> QED BY <2>1
<1>5. step \in [A \X [A -> A] -> A]
  <2>1. ASSUME NEW rest \in A, NEW f \in [A -> A] PROVE one(rest, f) \in A
    <3> HIDE DEF size, one, A
    <3> QED BY <1>3
  <2> HIDE DEF one, A
  <2> QED BY <2>1
<1>6. \A rest \in A, f \in [A -> A] : step[<<rest, f>>] = one(rest, f)
  <2> HIDE DEF one, A
  <2> QED OBVIOUS
<1>7. Descends(A, A, size, step)
  <2> HIDE DEF A, size, step, one
  <2>1. ASSUME NEW rest \in A, NEW f \in [A -> A], NEW g \in [A -> A],
               \A each \in A : size[each] < size[rest] => f[each] = g[each]
        PROVE  step[<<rest, f>>] = step[<<rest, g>>]
    BY <1>4, <1>6, <2>1
  <2> QED BY <2>1 DEF Descends
<1>8. PICK g \in [A -> A] : \A rest \in A : g[rest] = step[<<rest, g>>]
  <2>1. A # {}
    OBVIOUS
  <2> HIDE DEF A, size, step
  <2>2. Solutions(A, A, step) # {}
    BY <1>2, <1>5, <1>7, <2>1, RecursionExists
  <2> QED BY <2>2 DEF Solutions
<1>9. g = [rest \in Seq(STRING) |-> one(rest, g)]
  <2>1. g = [rest \in A |-> one(rest, g)]
    <3> HIDE DEF A, size, step, one
    <3> QED BY <1>6, <1>8
  <2> HIDE DEF one
  <2> QED BY <2>1
<1>10. replace = [rest \in Seq(STRING) |-> one(rest, replace)]
  <2> HIDE DEF one
  <2> QED BY <1>9
<1>11. \A rest \in A : replace[rest] = one(rest, replace)
  <2> HIDE DEF one, replace
  <2> QED BY <1>10
<1> DEFINE S == {n \in Nat : \A rest \in A : size[rest] < n => replace[rest] \in A}
<1>12. 0 \in S
  <2> HIDE DEF replace, A, size
  <2> QED BY <1>2
<1>13. ASSUME NEW n \in Nat, n \in S PROVE n + 1 \in S
  <2>1. ASSUME NEW rest \in A, size[rest] < n + 1 PROVE replace[rest] \in A
    <3> HIDE DEF replace, A, size, one
    <3>1. \A each \in A : size[each] < size[rest] => replace[each] \in A
      <4>1. ASSUME NEW each \in A, size[each] < size[rest] PROVE size[each] < n
        BY <1>2, <2>1, <4>1
      <4> QED BY <1>13, <4>1
    <3>2. one(rest, replace) \in A
      BY <1>3, <3>1
    <3> QED BY <1>11, <3>2
  <2> HIDE DEF replace, A, size
  <2> QED BY <2>1
<1>14. \A n \in Nat : n \in S
  <2> HIDE DEF S
  <2> QED BY <1>12, <1>13, NatSetInduction
<1>15. replace[name] \in A
  <2>1. name \in A
    OBVIOUS
  <2> HIDE DEF replace, A
  <2>2. size[name] + 1 \in Nat /\ size[name] < size[name] + 1
    BY <1>2, <2>1
  <2> HIDE DEF size
  <2> QED BY <1>14, <2>1, <2>2
<1>16. ReplaceIn(name, text, new) = replace[name]
  BY DEF ReplaceIn
<1> HIDE DEF replace
<1> QED BY <1>15, <1>16

\* What a selector is compared with.
Patterns == [text : Seq(STRING), whole : BOOLEAN]

\* What a directive makes of a name is one.
LEMMA ReplacedType ==
  ASSUME NEW pattern \in Patterns, NEW name \in Seq(STRING), NEW replacer \in Seq(STRING)
  PROVE  Replaced(pattern, name, replacer) \in Seq(STRING)
<1>1. pattern # AnyName /\ ~pattern.whole => pattern.text # <<>> /\ pattern.text \in Seq(STRING)
  BY DEF Patterns, AnyName
<1>2. pattern # AnyName /\ ~pattern.whole => ReplaceIn(name, pattern.text, replacer) \in Seq(STRING)
  BY <1>1, ReplaceInType
<1> QED BY <1>2 DEF Replaced

\* What the keys and their changes need.
IsCommand(c) == {"verb", "subject", "name", "virtual"} \subseteq DOMAIN c /\ c.name \in Seq(STRING)

\* The command with a number behind its name, as in Renumber.
Changed(c, n) == [c EXCEPT !.name = Append(WithoutNumber(@), ToString(n))]

\* Of its key only the name is another one.
LEMMA ChangedKey ==
  ASSUME NEW c, IsCommand(c), NEW n
  PROVE  /\ Changed(c, n).name = Append(WithoutNumber(c.name), ToString(n))
         /\ Key(Changed(c, n)) = <<c.verb, c.subject, Append(WithoutNumber(c.name), ToString(n))>>
<1>1. "verb" \in DOMAIN c /\ "subject" \in DOMAIN c /\ "name" \in DOMAIN c
  BY DEF IsCommand
<1> QED BY <1>1 DEF Changed, Key

\* The numbers up to N with which none of those that got one has the key of c.
Free(c, N, changed) == {n \in 1..N : Key(Changed(c, n)) \notin changed}

\* After a loop over n of the commands: those that were kept have different keys, and
\* so do those that got a number.
KeptSets(before, seq, keys, changed, n) ==
  {kept \in SUBSET (1..n) :
     /\ \A i \in kept : seq[i] = before[i] /\ Key(before[i]) \in keys
     /\ \A i \in (1..n) \ kept :
          \E m \in 1..Len(before) : seq[i] = Changed(before[i], m) /\ Key(seq[i]) \in changed
     /\ \A i, j \in 1..n : i # j /\ (i \in kept <=> j \in kept) => Key(seq[i]) # Key(seq[j])}

Renumbered(before, seq, keys, changed, n) ==
  /\ Len(seq) = n /\ IsFiniteSet(changed) /\ Cardinality(changed) <= n
  /\ KeptSets(before, seq, keys, changed, n) # {}

\* One round: a command whose key no other one has is kept ...
LEMMA RenumberKeeps ==
  ASSUME NEW T, NEW before \in Seq(T), NEW seq \in Seq(T), NEW keys, NEW changed,
         NEW n \in 0..Len(before)-1, Key(before[n+1]) \notin keys,
         Renumbered(before, seq, keys, changed, n)
  PROVE  Renumbered(before, Append(seq, before[n+1]), keys \cup {Key(before[n+1])}, changed, n + 1)
<1> DEFINE c == before[n+1]
           new == Append(seq, c)
<1>1. /\ Len(seq) = n /\ IsFiniteSet(changed) /\ Cardinality(changed) <= n /\ n \in Nat
      /\ Len(before) \in Nat
  BY DEF Renumbered
<1>2. PICK kept \in SUBSET (1..n) :
        /\ \A i \in kept : seq[i] = before[i] /\ Key(before[i]) \in keys
        /\ \A i \in (1..n) \ kept :
             \E m \in 1..Len(before) : seq[i] = Changed(before[i], m) /\ Key(seq[i]) \in changed
        /\ \A i, j \in 1..n : i # j /\ (i \in kept <=> j \in kept) => Key(seq[i]) # Key(seq[j])
  <2>1. PICK kept \in KeptSets(before, seq, keys, changed, n) : TRUE
    BY DEF Renumbered
  <2> QED BY <2>1 DEF KeptSets
<1>3. c \in T
  BY <1>1
<1>4. /\ new \in Seq(T) /\ Len(new) = n + 1 /\ new[n+1] = c /\ \A i \in 1..n : new[i] = seq[i]
  BY <1>1, <1>3, AppendedLast
<1> HIDE DEF new, c
<1>5. kept \cup {n+1} \in SUBSET (1..n+1) /\ \A i \in 1..n+1 : i \in 1..n \/ i = n + 1
  BY <1>1
<1>6. \A i \in kept \cup {n+1} : new[i] = before[i] /\ Key(before[i]) \in keys \cup {Key(c)}
  BY <1>2, <1>4 DEF c
<1>7. \A i \in (1..n+1) \ (kept \cup {n+1}) :
        \E m \in 1..Len(before) : new[i] = Changed(before[i], m) /\ Key(new[i]) \in changed
  <2>1. ASSUME NEW i \in (1..n+1) \ (kept \cup {n+1})
        PROVE  \E m \in 1..Len(before) : new[i] = Changed(before[i], m) /\ Key(new[i]) \in changed
    <3>1. i \in (1..n) \ kept /\ new[i] = seq[i]
      BY <1>4, <1>5
    <3> QED BY <1>2, <3>1
  <2> QED BY <2>1
<1>8. ASSUME NEW i \in 1..n+1, NEW j \in 1..n+1, i # j, i \in kept \cup {n+1} <=> j \in kept \cup {n+1}
      PROVE  Key(new[i]) # Key(new[j])
  <2>1. CASE i = n + 1
    <3>1. j \in kept /\ new[i] = c /\ new[j] = before[j] /\ Key(before[j]) \in keys
      BY <1>2, <1>4, <1>5, <1>8, <2>1
    <3> QED BY <3>1 DEF c
  <2>2. CASE j = n + 1
    <3>1. i \in kept /\ new[j] = c /\ new[i] = before[i] /\ Key(before[i]) \in keys
      BY <1>2, <1>4, <1>5, <1>8, <2>2
    <3> QED BY <3>1 DEF c
  <2>3. CASE i # n + 1 /\ j # n + 1
    <3>1. i \in 1..n /\ j \in 1..n /\ new[i] = seq[i] /\ new[j] = seq[j] /\ (i \in kept <=> j \in kept)
      BY <1>4, <1>5, <1>8, <2>3
    <3> QED BY <1>2, <1>8, <3>1
  <2> QED BY <2>1, <2>2, <2>3
<1>9. Cardinality(changed) <= n + 1
  BY <1>1, FS_CardinalityType
<1>10. kept \cup {n+1} \in KeptSets(before, new, keys \cup {Key(c)}, changed, n + 1)
  BY <1>5, <1>6, <1>7, <1>8 DEF KeptSets
<1> QED BY <1>1, <1>4, <1>9, <1>10 DEF Renumbered, new, c

\* ... and any other one gets a number with which none of those that got one has its key.
LEMMA RenumberChanges ==
  ASSUME NumeralsDiffer, NEW T, NEW before \in Seq(T), NEW seq \in Seq(T), NEW keys, NEW changed,
         NEW n \in 0..Len(before)-1, IsCommand(before[n+1]),
         Renumbered(before, seq, keys, changed, n)
  PROVE  LET m == Min(Free(before[n+1], Len(before), changed))
             new == Changed(before[n+1], m)
         IN /\ m \in 1..Len(before)
            /\ new \in T =>
                 Renumbered(before, Append(seq, new), keys, changed \cup {Key(new)}, n + 1)
<1> DEFINE c == before[n+1]
           base == WithoutNumber(c.name)
           free == Free(c, Len(before), changed)
           new == Changed(c, Min(free))
           after == Append(seq, new)
           names == {d[3] : d \in changed}
<1>1. /\ Len(seq) = n /\ IsFiniteSet(changed) /\ Cardinality(changed) <= n /\ n \in Nat
      /\ Len(before) \in Nat
  BY DEF Renumbered
<1>2. PICK kept \in SUBSET (1..n) :
        /\ \A i \in kept : seq[i] = before[i] /\ Key(before[i]) \in keys
        /\ \A i \in (1..n) \ kept :
             \E m \in 1..Len(before) : seq[i] = Changed(before[i], m) /\ Key(seq[i]) \in changed
        /\ \A i, j \in 1..n : i # j /\ (i \in kept <=> j \in kept) => Key(seq[i]) # Key(seq[j])
  <2>1. PICK kept \in KeptSets(before, seq, keys, changed, n) : TRUE
    BY DEF Renumbered
  <2> QED BY <2>1 DEF KeptSets
<1>3. IsFiniteSet(names) /\ Cardinality(names) < Len(before)
  <2> DEFINE f == [d \in changed |-> d[3]]
  <2>1. f \in Surjection(changed, names)
    BY DEF Surjection
  <2> HIDE DEF f, names
  <2>2. IsFiniteSet(names) /\ Cardinality(names) <= Cardinality(changed)
    BY <1>1, <2>1, FS_Surjection
  <2> QED BY <1>1, <2>2, FS_CardinalityType
<1>4. base \in Seq(STRING)
  BY NamePartsType DEF IsCommand
<1>5. PICK m \in 1..Len(before) : Append(base, ToString(m)) \notin names
  <2> HIDE DEF base, names
  <2> QED BY <1>1, <1>3, <1>4, SomeNumberFree
<1>6. Key(Changed(c, m)) \notin changed
  <2>1. Key(Changed(c, m)) = <<c.verb, c.subject, Append(base, ToString(m))>>
    <3> HIDE DEF c
    <3> QED BY ChangedKey DEF c
  <2>2. Key(Changed(c, m))[3] = Append(base, ToString(m))
    <3> HIDE DEF base, c
    <3> QED BY <2>1
  <2> HIDE DEF base, c
  <2> QED BY <1>5, <2>2
<1>7. Min(free) \in free
  <2>1. free # {} /\ free \in SUBSET Nat
    <3> HIDE DEF c
    <3> QED BY <1>1, <1>6 DEF Free
  <2> HIDE DEF free
  <2> QED BY <2>1, MinNat
<1>8. Min(free) \in 1..Len(before) /\ Key(new) \notin changed
  <2> HIDE DEF c
  <2> QED BY <1>7 DEF Free
<1> HIDE DEF free, names, base, c
<1> SUFFICES ASSUME new \in T
             PROVE  Renumbered(before, after, keys, changed \cup {Key(new)}, n + 1)
  BY <1>8 DEF free, c
<1>9. /\ after \in Seq(T) /\ Len(after) = n + 1 /\ after[n+1] = new /\ \A i \in 1..n : after[i] = seq[i]
  BY <1>1, AppendedLast
<1>10. new = Changed(before[n+1], Min(free))
  BY DEF c
<1> HIDE DEF after, new
<1>11. kept \in SUBSET (1..n+1) /\ n + 1 \notin kept /\ \A i \in 1..n+1 : i \in 1..n \/ i = n + 1
  BY <1>1
<1>12. \A i \in kept : after[i] = before[i] /\ Key(before[i]) \in keys
  BY <1>2, <1>9
<1>13. ASSUME NEW i \in (1..n+1) \ kept
       PROVE  \E k \in 1..Len(before) : /\ after[i] = Changed(before[i], k)
                                        /\ Key(after[i]) \in changed \cup {Key(new)}
  <2>1. CASE i = n + 1
    BY <1>8, <1>9, <1>10, <2>1
  <2>2. CASE i # n + 1
    <3>1. i \in (1..n) \ kept /\ after[i] = seq[i]
      BY <1>9, <1>11, <2>2
    <3> QED BY <1>2, <3>1
  <2> QED BY <2>1, <2>2
<1>14. ASSUME NEW i \in 1..n+1, NEW j \in 1..n+1, i # j, i \in kept <=> j \in kept
       PROVE  Key(after[i]) # Key(after[j])
  <2>1. CASE i = n + 1
    <3>1. j \in (1..n) \ kept /\ after[i] = new /\ after[j] = seq[j]
      BY <1>9, <1>11, <1>14, <2>1
    <3> QED BY <1>2, <1>8, <3>1
  <2>2. CASE j = n + 1
    <3>1. i \in (1..n) \ kept /\ after[j] = new /\ after[i] = seq[i]
      BY <1>9, <1>11, <1>14, <2>2
    <3> QED BY <1>2, <1>8, <3>1
  <2>3. CASE i # n + 1 /\ j # n + 1
    <3>1. i \in 1..n /\ j \in 1..n /\ after[i] = seq[i] /\ after[j] = seq[j]
      BY <1>9, <1>11, <1>14, <2>3
    <3> QED BY <1>2, <1>14, <3>1
  <2> QED BY <2>1, <2>2, <2>3
<1>15. IsFiniteSet(changed \cup {Key(new)}) /\ Cardinality(changed \cup {Key(new)}) <= n + 1
  <2> DEFINE x == Key(new)
  <2>1. /\ IsFiniteSet(changed \cup {x})
        /\ Cardinality(changed \cup {x}) = IF x \in changed THEN Cardinality(changed)
                                          ELSE Cardinality(changed) + 1
    <3> HIDE DEF x
    <3> QED BY <1>1, FS_AddElement
  <2>2. Cardinality(changed) \in Nat
    BY <1>1, FS_CardinalityType
  <2> HIDE DEF x
  <2>3. Cardinality(changed \cup {x}) <= n + 1
    BY <1>1, <2>1, <2>2
  <2> QED BY <2>1, <2>3 DEF x
<1>16. kept \in KeptSets(before, after, keys, changed \cup {Key(new)}, n + 1)
  BY <1>11, <1>12, <1>13, <1>14 DEF KeptSets
<1> QED BY <1>9, <1>15, <1>16 DEF Renumbered

\* One round of the loop over N commands.
Round(done, c, N) ==
  LET new == Changed(c, Min(Free(c, N, done.changed)))
  IN IF Key(c) \notin done.keys
     THEN [seq |-> Append(done.seq, c), keys |-> done.keys \cup {Key(c)}, changed |-> done.changed]
     ELSE [seq |-> Append(done.seq, new), keys |-> done.keys,
           changed |-> done.changed \cup {Key(new)}]

\* What the loop keeps: the commands so far, all keys and those that got a number.
Rounded(T) == [seq : Seq(T), keys : SUBSET {Key(c) : c \in T}, changed : SUBSET {Key(c) : c \in T}]

\* A round keeps these types, ...
LEMMA RoundType ==
  ASSUME NEW T, NEW done \in Rounded(T), NEW c \in T, NEW N \in Nat,
         \A n \in Nat \cup {Min({})} : Changed(c, n) \in T
  PROVE  Round(done, c, N) \in Rounded(T)
<1> DEFINE free == Free(c, N, done.changed)
           new == Changed(c, Min(free))
           K == {Key(k) : k \in T}
<1>1. Min(free) \in Nat \cup {Min({})}
  <2>1. free \in SUBSET Nat
    BY DEF Free
  <2> HIDE DEF free
  <2> QED BY <2>1, MinNat
<1>2. new \in T
  <2> HIDE DEF free
  <2> QED BY <1>1
<1> HIDE DEF new
<1>3. Key(c) \in K /\ Key(new) \in K
  BY <1>2
<1> HIDE DEF K
<1>4. done.seq \in Seq(T) /\ done.keys \in SUBSET K /\ done.changed \in SUBSET K
  BY DEF Rounded, K
<1>5. Append(done.seq, c) \in Seq(T) /\ Append(done.seq, new) \in Seq(T)
  BY <1>2, <1>4, AppendedLast
<1>6. /\ [seq |-> Append(done.seq, c), keys |-> done.keys \cup {Key(c)}, changed |-> done.changed] \in Rounded(T)
      /\ [seq |-> Append(done.seq, new), keys |-> done.keys, changed |-> done.changed \cup {Key(new)}]
           \in Rounded(T)
  BY <1>3, <1>4, <1>5 DEF Rounded, K
<1>7. Round(done, c, N) \in
        {[seq |-> Append(done.seq, c), keys |-> done.keys \cup {Key(c)}, changed |-> done.changed],
         [seq |-> Append(done.seq, new), keys |-> done.keys, changed |-> done.changed \cup {Key(new)}]}
  BY DEF new, Round
<1> QED BY <1>6, <1>7

\* ... and either way what is known of the commands so far is known with the next one.
LEMMA RoundRenumbers ==
  ASSUME NumeralsDiffer, NEW T, NEW before \in Seq(T), NEW done \in Rounded(T),
         NEW n \in 0..Len(before)-1, IsCommand(before[n+1]), before[n+1] \in T,
         \A k \in Nat \cup {Min({})} : Changed(before[n+1], k) \in T,
         Renumbered(before, done.seq, done.keys, done.changed, n)
  PROVE  LET r == Round(done, before[n+1], Len(before))
         IN Renumbered(before, r.seq, r.keys, r.changed, n + 1)
<1> DEFINE c == before[n+1]
           N == Len(before)
           free == Free(c, N, done.changed)
           new == Changed(c, Min(free))
           r == Round(done, c, N)
<1>1. N \in Nat /\ done.seq \in Seq(T)
  BY DEF Rounded
<1>2. r = IF Key(c) \notin done.keys
          THEN [seq |-> Append(done.seq, c), keys |-> done.keys \cup {Key(c)}, changed |-> done.changed]
          ELSE [seq |-> Append(done.seq, new), keys |-> done.keys,
                changed |-> done.changed \cup {Key(new)}]
  BY DEF Round
<1>3. CASE Key(c) \notin done.keys
  <2>1. r.seq = Append(done.seq, c) /\ r.keys = done.keys \cup {Key(c)} /\ r.changed = done.changed
    <3> HIDE DEF r, c
    <3> QED BY <1>2, <1>3
  <2>2. Renumbered(before, Append(done.seq, before[n+1]), done.keys \cup {Key(before[n+1])},
                   done.changed, n + 1)
    BY <1>1, <1>3, RenumberKeeps
  <2>3. Renumbered(before, r.seq, r.keys, r.changed, n + 1)
    <3> HIDE DEF r
    <3> QED BY <2>1, <2>2
  <2> QED BY <2>3
<1>4. CASE Key(c) \in done.keys
  <2>1. r.seq = Append(done.seq, new) /\ r.keys = done.keys /\ r.changed = done.changed \cup {Key(new)}
    <3> HIDE DEF r, c, new
    <3> QED BY <1>2, <1>4
  <2>2. /\ Min(free) \in 1..N
        /\ new \in T => Renumbered(before, Append(done.seq, new), done.keys,
                                   done.changed \cup {Key(new)}, n + 1)
    <3> DEFINE seq == done.seq
               keys == done.keys
               changed == done.changed
    <3>1. seq \in Seq(T) /\ Renumbered(before, seq, keys, changed, n)
      BY <1>1
    <3> HIDE DEF seq, keys, changed
    <3>2. LET m == Min(Free(before[n+1], Len(before), changed))
              d == Changed(before[n+1], m)
          IN /\ m \in 1..Len(before)
             /\ d \in T => Renumbered(before, Append(seq, d), keys, changed \cup {Key(d)}, n + 1)
      BY <3>1, RenumberChanges
    <3> QED BY <3>2 DEF seq, keys, changed
  <2>3. new \in T
    <3> HIDE DEF free
    <3> QED BY <1>1, <2>2
  <2>4. Renumbered(before, r.seq, r.keys, r.changed, n + 1)
    <3> HIDE DEF r, new
    <3> QED BY <2>1, <2>2, <2>3
  <2> QED BY <2>4
<1> QED BY <1>3, <1>4

\* The loop: every command is kept or gets a number; two of those that are kept have
\* different keys, and so have two of those that get one.
LEMMA RenumberDistinguishes ==
  ASSUME NumeralsDiffer, NEW C, NEW before \in Seq(C), \A c \in C : IsCommand(c)
  PROVE  LET after == Renumber(before)
         IN /\ DOMAIN after = DOMAIN before
            /\ \E kept \in SUBSET DOMAIN before :
                 /\ \A i \in kept : after[i] = before[i]
                 /\ \A i \in DOMAIN before \ kept :
                      \E m \in 1..Len(before) : after[i] = Changed(before[i], m)
                 /\ \A i, j \in DOMAIN before :
                      i # j /\ (i \in kept <=> j \in kept) => Key(after[i]) # Key(after[j])
<1> DEFINE N == Len(before)
           T == C \cup {Changed(c, n) : c \in C, n \in Nat \cup {Min({})}}
           D == Rounded(T)
           first == [seq |-> <<>>, keys |-> {}, changed |-> {}]
           step == [each \in (1..N) \X D |-> Round(each[2], before[each[1]], N)]
           iter == CHOOSE f : f = [s \in SUBSET DOMAIN before |->
                     IF s = {} THEN first ELSE Round(f[s \ {Max(s)}], before[Max(s)], N)]
<1>1. N \in Nat /\ DOMAIN before = 1..N /\ \A i \in 1..N : before[i] \in C
  OBVIOUS
<1>2. first \in D
  BY DEF Rounded
<1>3. before \in Seq(T) /\ C \subseteq T
  <2>1. C \subseteq T
    OBVIOUS
  <2> HIDE DEF T
  <2> QED BY <2>1
<1>4. \A c \in C : c \in T /\ \A n \in Nat \cup {Min({})} : Changed(c, n) \in T
  OBVIOUS
<1> HIDE DEF T, first
<1>5. ASSUME NEW i \in 1..N, NEW r \in D PROVE Round(r, before[i], N) \in D
  <2>1. before[i] \in C
    BY <1>1
  <2>2. before[i] \in T /\ \A n \in Nat \cup {Min({})} : Changed(before[i], n) \in T
    BY <1>4, <2>1
  <2> HIDE DEF N
  <2> QED BY <1>1, <2>2, RoundType
<1> HIDE DEF D
<1>6. step \in [(1..N) \X D -> D]
  <2> HIDE DEF N
  <2> QED BY <1>5
<1>7. \A q \in D, s \in SUBSET (1..N) :
        s # {} => Max(s) \in 1..N /\ step[<<Max(s), q>>] = Round(q, before[Max(s)], N)
  <2>1. \A s \in SUBSET (1..N) : s # {} => Max(s) \in 1..N
    BY <1>1, MaxInterval
  <2> HIDE DEF N
  <2> QED BY <2>1
<1>8. PICK g \in [SUBSET (1..N) -> D] : \A s \in SUBSET (1..N) :
        g[s] = IF s = {} THEN first ELSE step[<<Max(s), g[s \ {Max(s)}]>>]
  <2> HIDE DEF step, N, iter
  <2>1. FoldsOver(D, first, N, step) # {}
    BY <1>1, <1>2, <1>6, FoldExists
  <2> QED BY <2>1 DEF FoldsOver
<1>9. g = [s \in SUBSET DOMAIN before |->
             IF s = {} THEN first ELSE Round(g[s \ {Max(s)}], before[Max(s)], N)]
  <2>1. \A s \in SUBSET (1..N) : s \ {Max(s)} \in SUBSET (1..N) /\ g[s \ {Max(s)}] \in D
    OBVIOUS
  <2> HIDE DEF step, N, iter
  <2> QED BY <1>1, <1>7, <1>8, <2>1
<1>10. iter = [s \in SUBSET DOMAIN before |->
                 IF s = {} THEN first ELSE Round(iter[s \ {Max(s)}], before[Max(s)], N)]
  <2> HIDE DEF step, N
  <2> QED BY <1>9
<1>11. Follows(iter, D, first, N, step)
  <2> HIDE DEF step, N, iter
  <2>1. iter[{}] = first
    BY <1>1, <1>10
  <2>2. ASSUME NEW s \in SUBSET (1..N), s # {}, iter[s \ {Max(s)}] \in D
        PROVE  iter[s] = step[<<Max(s), iter[s \ {Max(s)}]>>]
    BY <1>1, <1>7, <1>10, <2>2
  <2> QED BY <2>1, <2>2 DEF Follows
<1>12. PICK h \in Rounds(D, first, N, step) : iter[1..N] = h[N]
  <2> HIDE DEF step, N, iter
  <2>1. iter[1..N] \in Outcomes(D, first, N, step)
    BY <1>1, <1>2, <1>6, <1>11, FoldSteps
  <2> QED BY <2>1 DEF Outcomes
<1>13. Renumber(before) = h[N].seq
  BY <1>1, <1>12 DEF Renumber, FoldLeft, MapThenFoldSet, Round, Free, Changed, Key, first
<1>14. /\ h \in [0..N -> D] /\ h[0] = first
       /\ \A i \in 1..N : h[i-1] \in D /\ h[i] = Round(h[i-1], before[i], N)
  <2>1. h \in [0..N -> D] /\ h[0] = first /\ \A i \in 1..N : h[i] = step[<<i, h[i-1]>>]
    <3> HIDE DEF step, N, iter
    <3> QED BY <1>12 DEF Rounds
  <2>2. \A i \in 1..N : i - 1 \in 0..N
    BY <1>1
  <2> HIDE DEF N, iter
  <2> QED BY <2>1, <2>2
<1> DEFINE S == {n \in Nat : Renumbered(before, h[n].seq, h[n].keys, h[n].changed, n)}
<1>15. 0 \in S
  <2>1. h[0].seq = <<>> /\ h[0].keys = {} /\ h[0].changed = {}
    BY <1>14 DEF first
  <2>2. {} \in KeptSets(before, <<>>, {}, {}, 0)
    <3>1. 1..0 = {}
      OBVIOUS
    <3> QED BY <3>1 DEF KeptSets
  <2>3. IsFiniteSet({}) /\ Cardinality({}) = 0 /\ Len(<<>>) = 0
    BY FS_EmptySet
  <2>4. Renumbered(before, <<>>, {}, {}, 0)
    BY <2>2, <2>3 DEF Renumbered
  <2> QED BY <2>1, <2>4
<1>16. ASSUME NEW n \in 0..N-1, n \in S PROVE n + 1 \in S
  <2>1. n + 1 \in 1..N /\ (n + 1) - 1 = n /\ n + 1 \in Nat
    BY <1>1
  <2>2. h[n] \in D /\ h[n+1] = Round(h[n], before[n+1], N)
    <3> HIDE DEF N
    <3> QED BY <1>14, <2>1
  <2>3. before[n+1] \in C
    BY <1>1, <2>1
  <2>4. /\ IsCommand(before[n+1]) /\ before[n+1] \in T
        /\ \A k \in Nat \cup {Min({})} : Changed(before[n+1], k) \in T
    BY <1>4, <2>3
  <2> DEFINE done == h[n]
             r == Round(done, before[n+1], Len(before))
  <2>5. done \in Rounded(T) /\ Renumbered(before, done.seq, done.keys, done.changed, n)
    BY <1>16, <2>2 DEF D
  <2>6. Renumbered(before, r.seq, r.keys, r.changed, n + 1)
    <3> HIDE DEF done
    <3> QED BY <1>3, <2>4, <2>5, RoundRenumbers
  <2>7. h[n+1] = r
    BY <2>2
  <2> HIDE DEF r
  <2> QED BY <2>1, <2>6, <2>7
<1>17. Renumbered(before, h[N].seq, h[N].keys, h[N].changed, N)
  <2>1. \A n \in 0..N : n \in S
    <3> HIDE DEF S, N
    <3> QED BY <1>1, <1>15, <1>16, IntervalInduction
  <2>2. N \in 0..N
    BY <1>1
  <2> HIDE DEF N
  <2> QED BY <2>1, <2>2
<1>18. Renumber(before) \in Seq(T)
  <2>1. h[N] \in D
    BY <1>1, <1>14
  <2> QED BY <1>13, <2>1 DEF D, Rounded
<1> DEFINE after == Renumber(before)
           keys == h[N].keys
           changed == h[N].changed
<1>19. Renumbered(before, after, keys, changed, N)
  BY <1>13, <1>17
<1> HIDE DEF keys, changed, N
<1>20. PICK kept \in KeptSets(before, after, keys, changed, N) : TRUE
  BY <1>19 DEF Renumbered
<1>21. DOMAIN after = 1..N
  BY <1>18, <1>19 DEF Renumbered
<1> HIDE DEF after
<1>22. /\ kept \in SUBSET (1..N)
       /\ \A i \in kept : after[i] = before[i]
       /\ \A i \in (1..N) \ kept : \E m \in 1..Len(before) : after[i] = Changed(before[i], m)
       /\ \A i, j \in 1..N : i # j /\ (i \in kept <=> j \in kept) => Key(after[i]) # Key(after[j])
  BY <1>20 DEF KeptSets
<1>23. DOMAIN after = DOMAIN before
  BY <1>1, <1>21
<1>24. /\ kept \in SUBSET DOMAIN before
       /\ \A i \in kept : after[i] = before[i]
       /\ \A i \in DOMAIN before \ kept : \E m \in 1..Len(before) : after[i] = Changed(before[i], m)
       /\ \A i, j \in DOMAIN before : i # j /\ (i \in kept <=> j \in kept) => Key(after[i]) # Key(after[j])
  BY <1>1, <1>22
<1>25. \E set \in SUBSET DOMAIN before :
         /\ \A i \in set : after[i] = before[i]
         /\ \A i \in DOMAIN before \ set : \E m \in 1..Len(before) : after[i] = Changed(before[i], m)
         /\ \A i, j \in DOMAIN before : i # j /\ (i \in set <=> j \in set) => Key(after[i]) # Key(after[j])
  <2> USE <1>24
  <2> WITNESS kept \in SUBSET DOMAIN before
  <2> QED OBVIOUS
<1> QED BY <1>23, <1>25 DEF after

\* A list of them.
AreCommands(seq) == seq \in Seq(ToSet(seq)) /\ \A c \in ToSet(seq) : IsCommand(c)

\* A sequence of other elements at the same places is one of commands if they are.
LEMMA EachCommand ==
  ASSUME NEW seq, AreCommands(seq), NEW new, new = [i \in DOMAIN seq |-> new[i]],
         \A i \in DOMAIN seq : IsCommand(seq[i]) => IsCommand(new[i])
  PROVE  AreCommands(new)
<1>1. Len(seq) \in Nat /\ DOMAIN seq = 1..Len(seq) /\ \A i \in DOMAIN seq : IsCommand(seq[i])
  BY DEF AreCommands, ToSet
<1>2. \A i \in DOMAIN seq : new[i] \in ToSet(new)
  BY DEF ToSet
<1>3. new \in Seq(ToSet(new))
  <2> DEFINE T == ToSet(new)
  <2>1. new \in [1..Len(seq) -> T]
    BY <1>1, <1>2
  <2> HIDE DEF T
  <2>2. new \in Seq(T)
    BY <1>1, <2>1
  <2> QED BY <2>2 DEF T
<1>4. \A c \in ToSet(new) : IsCommand(c)
  BY <1>1 DEF ToSet
<1> QED BY <1>3, <1>4 DEF AreCommands

\* None of these changes the name of a variant to something else than a name: what
\* the inline properties plugin does, ...
LEMMA OtherVirtual ==
  ASSUME NEW c, IsCommand(c), NEW v
  PROVE  IsCommand([c EXCEPT !.virtual = v])
  BY DEF IsCommand

\* ... cutting prefixes off a subject, ...
LEMMA SanitizedCommand ==
  ASSUME NEW c, IsCommand(c)
  PROVE  IsCommand(SanitizeCommand(c))
<1>1. \A p, s, v : IsCommand([c EXCEPT !.prefix = p, !.subject = s, !.virtual = v])
  BY DEF IsCommand
<1> QED BY <1>1 DEF SanitizeCommand

\* ... the namer, ...
LEMMA PsNameCommandsType ==
  ASSUME NEW seq, AreCommands(seq)
  PROVE  AreCommands(PsNameCommands(seq))
<1> DEFINE Named(c) == IF SanitizeNames THEN SanitizeCommand(c) ELSE c
           new == PsNameCommands(seq)
<1>1. new = [i \in DOMAIN seq |-> [Named(seq[i]) EXCEPT !.virtual = ResolveParameterNames(@)]]
  BY DEF PsNameCommands
<1>2. ASSUME NEW c, IsCommand(c) PROVE IsCommand(Named(c))
  BY <1>2, SanitizedCommand
<1>3. ASSUME NEW i \in DOMAIN seq, IsCommand(seq[i]) PROVE IsCommand(new[i])
  <2>1. new[i] = [Named(seq[i]) EXCEPT !.virtual = ResolveParameterNames(Named(seq[i]).virtual)]
    <3> HIDE DEF new, Named
    <3> QED BY <1>1
  <2>2. IsCommand(Named(seq[i]))
    BY <1>2, <1>3
  <2> HIDE DEF new, Named
  <2> QED BY <2>1, <2>2, OtherVirtual
<1>4. new = [i \in DOMAIN seq |-> new[i]]
  <2> HIDE DEF new, Named
  <2> QED BY <1>1
<1> HIDE DEF new
<1>5. AreCommands(new)
  BY <1>3, <1>4, EachCommand
<1> QED BY <1>5 DEF new

\* What AreDirectives says of each.
IsDirective(d) == d.where.variant \in Patterns /\ d.set.variant \in Seq(STRING)

\* ... a directive that selects commands, ...
LEMMA ModifiedCommand ==
  ASSUME NEW c, IsCommand(c), NEW d, IsDirective(d)
  PROVE  IsCommand(ModifyCommand(d, c))
<1> DEFINE subject == Replaced(d.where.subject, c.subject, d.set.subject)
           prefix == Replaced(d.where.prefix, c.prefix, d.set.prefix)
           verb == Replaced(d.where.verb, <<c.verb>>, d.set.verb)[1]
           name == Replaced(d.where.variant, c.name, d.set.variant)
           hidden == IF d.hide = "unset" THEN c.hidden ELSE d.hide = "yes"
           breaking == Breaking(d, c)
           preview == d.set.preview
           alias == (IF d.clearAlias THEN {} ELSE c.alias) \cup d.set.alias
<1>1. name \in Seq(STRING)
  BY ReplacedType DEF IsCommand, IsDirective
<1> DEFINE new == [c EXCEPT !.subject = subject, !.prefix = prefix, !.verb = verb, !.name = name,
                            !.hidden = hidden, !.breaking = breaking, !.preview = preview,
                            !.alias = alias]
<1>2. ModifyCommand(d, c) = new
  BY DEF ModifyCommand
<1> HIDE DEF subject, prefix, verb, name, hidden, breaking, preview, alias
<1>3. DOMAIN new = DOMAIN c /\ ("name" \in DOMAIN c => new.name = name)
  OBVIOUS
<1> HIDE DEF new
<1> QED BY <1>1, <1>2, <1>3 DEF IsCommand

\* ... one that selects their parameters, ...
LEMMA ModifiedParameters ==
  ASSUME NEW c, IsCommand(c), NEW a, NEW b
  PROVE  IsCommand([c EXCEPT !.virtual.operation = a, !.virtual.body = b])
  BY DEF IsCommand

\* ... either, on all commands that match, ...
LEMMA WhereCommandType ==
  ASSUME NEW seq, AreCommands(seq), NEW d, IsDirective(d)
  PROVE  AreCommands(WhereCommand(d, seq))
<1> DEFINE ofParameters == d.where.parameter # AnyName /\ d.select \in {"none", "parameter"}
           Each(params) == [i \in DOMAIN params |-> ModifyParameter(d, params[i])]
           Modified(c) ==
             IF ofParameters
             THEN [c EXCEPT !.virtual.operation = Each(@), !.virtual.body = Each(@)]
             ELSE ModifyCommand(d, c)
           new == WhereCommand(d, seq)
<1>1. new = [i \in DOMAIN seq |-> IF Selected(d, seq[i]) THEN Modified(seq[i]) ELSE seq[i]]
  BY DEF WhereCommand
<1>2. ASSUME NEW c, IsCommand(c) PROVE IsCommand(Modified(c))
  <2>1. IsCommand(ModifyCommand(d, c))
    BY <1>2, ModifiedCommand
  <2>2. IsCommand([c EXCEPT !.virtual.operation = Each(@), !.virtual.body = Each(@)])
    <3> HIDE DEF Each
    <3> QED BY <1>2, ModifiedParameters
  <2> HIDE DEF ofParameters, Each
  <2> QED BY <2>1, <2>2
<1> HIDE DEF Modified
<1>3. ASSUME NEW i \in DOMAIN seq, IsCommand(seq[i]) PROVE IsCommand(new[i])
  <2> HIDE DEF new
  <2>1. new[i] = IF Selected(d, seq[i]) THEN Modified(seq[i]) ELSE seq[i]
    BY <1>1
  <2> QED BY <1>2, <1>3, <2>1
<1>4. new = [i \in DOMAIN seq |-> new[i]]
  <2> HIDE DEF new
  <2> QED BY <1>1
<1> HIDE DEF new
<1>5. AreCommands(new)
  BY <1>3, <1>4, EachCommand
<1> QED BY <1>5 DEF new

\* ... and one that removes commands.
LEMMA RemoveCommandType ==
  ASSUME NEW seq, AreCommands(seq), NEW d
  PROVE  AreCommands(RemoveCommand(d, seq))
<1> DEFINE T == {c \in ToSet(seq) : IsCommand(c)}
           new == RemoveCommand(d, seq)
<1>1. seq \in Seq(T)
  <2>1. ToSet(seq) = T
    BY DEF AreCommands
  <2> QED BY <2>1 DEF AreCommands
<1>2. new \in Seq(T)
  <2> HIDE DEF T
  <2>1. \A positions : Those(seq, positions) \in Seq(T)
    BY <1>1, ThoseType
  <2> QED BY <1>1, <2>1 DEF RemoveCommand
<1>3. ASSUME NEW s \in Seq(T) PROVE s \in Seq(ToSet(s)) /\ ToSet(s) \subseteq T
  <2> HIDE DEF T
  <2> QED BY <1>3 DEF ToSet
<1>4. new \in Seq(ToSet(new)) /\ ToSet(new) \subseteq T
  <2> HIDE DEF T, new
  <2> QED BY <1>2, <1>3
<1> HIDE DEF new
<1>5. AreCommands(new)
  BY <1>4 DEF AreCommands
<1> QED BY <1>5 DEF new

\* So a directive leaves commands, of whatever kind it is.
LEMMA ApplyType ==
  ASSUME NEW seq, AreCommands(seq), NEW schemas, NEW v, NEW d, IsDirective(d)
  PROVE  AreCommands(Apply(d, [commands |-> seq, schemas |-> schemas, virt |-> v]).commands)
<1> DEFINE m == [commands |-> seq, schemas |-> schemas, virt |-> v]
<1>1. m.commands = seq /\ "commands" \in DOMAIN m
  OBVIOUS
<1> HIDE DEF m
<1>2. /\ \A x : [m EXCEPT !.commands = x].commands = x
      /\ \A x : [m EXCEPT !.virt = x].commands = seq
      /\ \A x : [m EXCEPT !.schemas = x].commands = seq
      /\ \A x, y : [m EXCEPT !.schemas = x, !.virt = y].commands = seq
  BY <1>1
<1>3. Apply(d, m).commands \in {seq, WhereCommand(d, seq), RemoveCommand(d, seq)}
  BY <1>1, <1>2 DEF Apply
<1>4. Apply(d, m).commands = seq \/ Apply(d, m).commands = WhereCommand(d, seq)
      \/ Apply(d, m).commands = RemoveCommand(d, seq)
  BY <1>3
<1>5. AreCommands(Apply(d, m).commands)
  BY <1>4, WhereCommandType, RemoveCommandType
<1> QED BY <1>5 DEF m

\* A model whose operations are others, one for one, has operations.
LEMMA OtherOperations ==
  ASSUME NEW m, HasOperations(m), NEW m2, "operations" \in DOMAIN m2, NEW ops,
         m2.operations = [i \in DOMAIN m.operations |-> ops[i]],
         \A i \in DOMAIN m.operations : IsOperation(m.operations[i]) => IsOperation(ops[i])
  PROVE  HasOperations(m2)
<1> DEFINE seq == m.operations
           new == m2.operations
           T == ToSet(new)
<1>1. Len(seq) \in Nat /\ DOMAIN seq = 1..Len(seq) /\ \A i \in DOMAIN seq : IsOperation(seq[i])
  BY DEF HasOperations, ToSet
<1>2. DOMAIN new = DOMAIN seq /\ \A i \in DOMAIN seq : new[i] = ops[i]
  OBVIOUS
<1>3. \A i \in DOMAIN seq : IsOperation(new[i])
  BY <1>1, <1>2
<1>4. new = [i \in 1..Len(seq) |-> ops[i]] /\ \A i \in 1..Len(seq) : ops[i] \in T
  BY <1>1, <1>2 DEF ToSet
<1>5. new \in Seq(T)
  <2> HIDE DEF new, T, seq
  <2>1. new \in [1..Len(seq) -> T]
    BY <1>4
  <2> QED BY <1>1, <2>1
<1>6. \A op \in T : IsOperation(op)
  BY <1>2, <1>3 DEF ToSet
<1> HIDE DEF seq
<1> QED BY <1>5, <1>6 DEF HasOperations

\* The plugins that change the model keep its operations and their names.
LEMMA TweakM4Has ==
  ASSUME NEW m, HasOperations(m)
  PROVE  HasOperations(TweakM4(m))
<1>1. ASSUME NEW n, HasOperations(n) PROVE HasOperations(AddResponseHeaderSchema(n))
  <2> DEFINE new == AddResponseHeaderSchema(n)
             ops == [i \in DOMAIN n.operations |-> ReferToHeaders(n.operations[i])]
  <2>1. /\ "operations" \in DOMAIN new
        /\ new.operations = [i \in DOMAIN n.operations |-> ReferToHeaders(n.operations[i])]
    BY <1>1 DEF AddResponseHeaderSchema, EachOperation, HasOperations
  <2>2. \A op : IsOperation(op) => IsOperation(ReferToHeaders(op))
    BY DEF IsOperation, ReferToHeaders
  <2>3. /\ new.operations = [i \in DOMAIN n.operations |-> ops[i]]
        /\ \A i \in DOMAIN n.operations : ops[i] = ReferToHeaders(n.operations[i])
    <3> HIDE DEF new
    <3> QED BY <2>1
  <2> HIDE DEF new, ops
  <2>4. HasOperations(new)
    BY <1>1, <2>1, <2>2, <2>3, OtherOperations
  <2> QED BY <2>4 DEF new
<1>2. ASSUME NEW n, HasOperations(n) PROVE HasOperations(AddDictionaryApiVersion(n))
  <2>1. \A s : HasOperations([n EXCEPT !.schemas = s])
    BY <1>2 DEF HasOperations
  <2> QED BY <2>1 DEF AddDictionaryApiVersion
<1>3. ASSUME NEW n, HasOperations(n) PROVE HasOperations(HandleNoInline(n))
  <2>1. \A s : HasOperations([n EXCEPT !.schemas = s])
    BY <1>3 DEF HasOperations
  <2> QED BY <2>1 DEF HandleNoInline
<1> QED BY <1>1, <1>2, <1>3 DEF TweakM4

\* The second of them.
LEMMA TweakHas ==
  ASSUME NEW m, HasOperations(m)
  PROVE  HasOperations(Tweak(m))
<1>1. ASSUME NEW n, HasOperations(n) PROVE HasOperations(UniversalId(n))
  <2>1. \A o, s : HasOperations([n EXCEPT !.objects = o, !.schemas = s])
    BY <1>1 DEF HasOperations
  <2> QED BY <2>1 DEF UniversalId
<1>2. ASSUME NEW n, HasOperations(n) PROVE HasOperations(DropAllDuplicates(n))
  <2>1. \A s, e : HasOperations([n EXCEPT !.schemas = s, !.error = e])
    BY <1>2 DEF HasOperations
  <2> QED BY <2>1 DEF DropAllDuplicates
<1>3. ASSUME NEW n, HasOperations(n) PROVE HasOperations(AddHeaderProperties(n))
  <2>1. \A s : HasOperations([n EXCEPT !.schemas = s])
    BY <1>3 DEF HasOperations
  <2> QED BY <2>1 DEF AddHeaderProperties
<1>4. ASSUME NEW n, HasOperations(n) PROVE HasOperations(MarkConstants(n))
  <2> DEFINE new == MarkConstants(n)
             Mark(each) == [each EXCEPT !.constant = @ \/ IsConstant(n.schemas, each)]
             Marked(op) == [op EXCEPT !.params = [i \in DOMAIN @ |-> Mark(@[i])]]
             ops == [i \in DOMAIN n.operations |-> Marked(n.operations[i])]
  <2>1. "operations" \in DOMAIN new /\ new.operations = [i \in DOMAIN n.operations |-> Marked(n.operations[i])]
    BY <1>4 DEF MarkConstants, EachOperation, HasOperations
  <2>2. \A op : IsOperation(op) => IsOperation(Marked(op))
    BY DEF IsOperation
  <2>3. /\ new.operations = [i \in DOMAIN n.operations |-> ops[i]]
        /\ \A i \in DOMAIN n.operations : ops[i] = Marked(n.operations[i])
    <3> HIDE DEF Marked, new
    <3> QED BY <2>1
  <2> HIDE DEF Marked, new, ops
  <2>4. HasOperations(new)
    BY <1>4, <2>1, <2>2, <2>3, OtherOperations
  <2> QED BY <2>4 DEF new
<1> DEFINE dropped == DropAllDuplicates(UniversalId(m))
<1>5. HasOperations(dropped)
  BY <1>1, <1>2
<1>6. HasOperations(MarkConstants(AddHeaderProperties(dropped)))
  <2> HIDE DEF dropped
  <2> QED BY <1>3, <1>4, <1>5
<1>7. Tweak(m) = IF dropped.error THEN dropped ELSE MarkConstants(AddHeaderProperties(dropped))
  BY DEF Tweak
<1> HIDE DEF dropped
<1> QED BY <1>5, <1>6, <1>7

\* The third.
LEMMA TweakAzureHas ==
  ASSUME NEW m, HasOperations(m)
  PROVE  HasOperations(TweakAzure(m))
<1> DEFINE Azured(op) == ApiVersions(LongRunning([op EXCEPT !.pageable = Pageable(m.schemas, op)]))
           new == [m EXCEPT !.operations = [i \in DOMAIN @ |-> Azured(@[i])]]
           ops == [i \in DOMAIN m.operations |-> Azured(m.operations[i])]
<1>1. ASSUME NEW op, IsOperation(op) PROVE IsOperation(Azured(op))
  <2>1. \A p : IsOperation([op EXCEPT !.pageable = p])
    BY <1>1 DEF IsOperation
  <2>2. ASSUME NEW o, IsOperation(o) PROVE IsOperation(LongRunning(o))
    BY <2>2 DEF IsOperation, LongRunning
  <2>3. ASSUME NEW o, IsOperation(o) PROVE IsOperation(ApiVersions(o))
    BY <2>3 DEF IsOperation, ApiVersions
  <2> QED BY <2>1, <2>2, <2>3
<1>2. "operations" \in DOMAIN new /\ new.operations = [i \in DOMAIN m.operations |-> Azured(m.operations[i])]
  <2> HIDE DEF Azured
  <2> QED BY DEF HasOperations
<1>3. /\ new.operations = [i \in DOMAIN m.operations |-> ops[i]]
      /\ \A i \in DOMAIN m.operations : ops[i] = Azured(m.operations[i])
  <2> HIDE DEF Azured, new
  <2> QED BY <1>2
<1>4. HasOperations(new)
  <2> HIDE DEF Azured, new, ops
  <2> QED BY <1>1, <1>2, <1>3, OtherOperations
<1>5. TweakAzure(m) = ByReference(new)
  BY DEF TweakAzure, EachOperation
<1> HIDE DEF new
<1>6. \A s : HasOperations([new EXCEPT !.schemas = s])
  BY <1>4 DEF HasOperations
<1>7. HasOperations(ByReference(new))
  BY <1>4, <1>6 DEF ByReference
<1> QED BY <1>5, <1>7

\* The commands an inferrer has made, no two of them alike.
Inferred(r) == AreCommands(r.commands) /\ r \in Inferrers(ToSet(r.commands))

\* None at first.
LEMMA InferredStart == Inferred(Inferrer)
<1>1. Inferrer.commands = <<>> /\ Inferrer.identities = {} /\ DOMAIN Inferrer = {"identities", "commands"}
  BY DEF Inferrer
<1>2. Inferrer \in [identities : SUBSET {Key(c) : c \in {}}, commands : Seq({})]
  BY DEF Inferrer
<1>3. DOMAIN <<>> = {} /\ ToSet(<<>>) = {} /\ <<>> \in Seq({}) /\ IsFiniteSet({})
  BY FS_EmptySet DEF ToSet
<1> QED BY <1>1, <1>2, <1>3 DEF Inferred, Inferrers, AreCommands

\* The commands made for an operation are its own.
LEMMA NewCommandsType ==
  ASSUME NEW op, NEW variants
  PROVE  \A c \in NewCommands(op, variants) : IsCommand(c) /\ "op" \in DOMAIN c /\ c.op = op.id
<1> DEFINE new == NewCommands(op, variants)
           V == variants \cup {[v EXCEPT !.verb = "Set"] : v \in variants}
           constants == SelectSeq(op.params, LAMBDA p : p.constant \/ p.fromHost)
           required == SelectSeq(op.params, LAMBDA p : ~(p.constant \/ p.fromHost))
           others == SelectSeq(required, LAMBDA p : p.in # "path")
           both == {constants \o required, constants \o others}
<1>1. ASSUME NEW name \in Seq(STRING), NEW variant, NEW params, NEW extra
      PROVE  LET c == NewCommand(name, op, variant, params, extra)
             IN IsCommand(c) /\ "op" \in DOMAIN c /\ c.op = op.id
  BY DEF NewCommand, IsCommand
<1>2. \A c \in new : \E name, variant, params, extra :
        name \in Seq(STRING) /\ c = NewCommand(name, op, variant, params, extra)
  <2>1. new = {NewCommand(n, op, v, p, e) : n \in Seq(STRING), v \in V, p \in both, e \in Bodies(op)}
    BY DEF NewCommands
  <2> HIDE DEF V, both, new
  <2> QED BY <2>1
<1> HIDE DEF new
<1>3. \A c \in new : IsCommand(c) /\ "op" \in DOMAIN c /\ c.op = op.id
  BY <1>1, <1>2
<1> QED BY <1>3 DEF new

\* All there is then is among those and the ones before.
LEMMA MadeAmong ==
  ASSUME NumeralsDiffer, NEW r, Inferred(r), NEW op, IsOperation(op), NEW expandable,
         Missing \notin ToSet(InferCommandNames(op))
  PROVE  CreateCommands(r, op, expandable)
         \in Inferrers(ToSet(r.commands) \cup NewCommands(op, ToSet(InferCommandNames(op))))
<1> DEFINE new == NewCommands(op, ToSet(InferCommandNames(op)))
           old == ToSet(r.commands)
           C == old \cup new
<1>1. r \in Inferrers(C)
  <2> HIDE DEF new, old
  <2>1. r \in Inferrers(old)
    BY DEF Inferred, old
  <2>2. \A s \in Seq(old) : s \in Seq(C)
    OBVIOUS
  <2>3. {Key(c) : c \in old} \subseteq {Key(c) : c \in C}
    OBVIOUS
  <2> HIDE DEF C
  <2> QED BY <2>1, <2>2, <2>3 DEF Inferrers
<1>2. CreateCommands(r, op, expandable) \in Inferrers(C)
  <2> HIDE DEF new, old
  <2>1. new \subseteq C
    OBVIOUS
  <2> HIDE DEF C
  <2> QED BY <1>1, <2>1, CreateCommandsType DEF IsOperation, new
<1> QED BY <1>2

\* What is made for an operation are commands, no two of which are alike.
LEMMA InferredStep ==
  ASSUME NumeralsDiffer, NEW r, Inferred(r), NEW op, IsOperation(op), NEW expandable,
         Missing \notin ToSet(InferCommandNames(op))
  PROVE  Inferred(CreateCommands(r, op, expandable))
<1> DEFINE new == NewCommands(op, ToSet(InferCommandNames(op)))
           old == ToSet(r.commands)
           C == old \cup new
           after == CreateCommands(r, op, expandable)
<1>1. \A c \in new : IsCommand(c)
  BY NewCommandsType
<1>2. \A c \in C : IsCommand(c)
  BY <1>1 DEF Inferred, AreCommands
<1>4. after \in Inferrers(C)
  BY MadeAmong
<1> HIDE DEF C, after
<1>5. after.commands \in Seq(C) /\ after.identities \in SUBSET {Key(c) : c \in C}
  BY <1>4 DEF Inferrers
<1> DEFINE T == ToSet(after.commands)
<1>6. after.commands \in Seq(T) /\ T \subseteq C
  <2>1. \A s \in Seq(C) : s \in Seq(ToSet(s)) /\ ToSet(s) \subseteq C
    BY DEF ToSet
  <2> QED BY <1>5, <2>1
<1>7. after.identities \in SUBSET {Key(c) : c \in T}
  <2>1. \A i \in DOMAIN after.commands : after.commands[i] \in T
    BY DEF ToSet
  <2>2. \A id \in after.identities : \E i \in DOMAIN after.commands : Key(after.commands[i]) = id
    BY <1>4 DEF Inferrers
  <2> HIDE DEF T
  <2> QED BY <2>1, <2>2
<1>8. after \in Inferrers(T)
  <2> HIDE DEF T
  <2> QED BY <1>4, <1>6, <1>7 DEF Inferrers
<1>9. AreCommands(after.commands)
  BY <1>2, <1>6 DEF AreCommands
<1> QED BY <1>8, <1>9 DEF Inferred, after

\* The inductive invariant: until the commands are made the model has operations;
\* those made so far have keys of their own, which are the identities given out; and
\* until they are numbered again the commands of the model stay commands.
GenerationInv ==
  /\ inferred \in Nat /\ applied \in Nat
  /\ AreDirectives(directives)
  /\ phase \in {"tweakm4", "tweak", "azure", "commands"} => HasOperations(model)
  /\ Inferred(inferrer)
  /\ phase \in {"virtual", "csnamer", "psnamer", "modifiers"} => AreCommands(commands)

\* What is made for the next operation.
LEMMA InferOperationStep ==
  ASSUME NumeralsDiffer, GenerationInv, InferOperation
  PROVE  Inferred(inferrer')
<1> DEFINE op == model.operations[inferred + 1]
<1>1. IsOperation(op)
  <2>1. HasOperations(model) /\ inferred \in Nat /\ inferred < Len(model.operations)
    BY DEF GenerationInv, InferOperation
  <2> QED BY <2>1 DEF HasOperations, ToSet
<1>2. Inferred(inferrer) /\ Missing \notin ToSet(InferCommandNames(op))
      /\ inferrer' = CreateCommands(inferrer, op, Expandable(op))
  BY DEF GenerationInv, InferOperation
<1> HIDE DEF op
<1>3. Inferred(CreateCommands(inferrer, op, Expandable(op)))
  BY <1>1, <1>2, InferredStep
<1> QED BY <1>2, <1>3

\* Virtual parameters are all that the inline properties plugin puts into commands.
LEMMA CreateInlinedPropertiesStep ==
  ASSUME GenerationInv, CreateInlinedProperties, phase' = "csnamer"
  PROVE  AreCommands(commands')
<1> DEFINE virtuals == [i \in DOMAIN commands |-> CreateVirtualParameters(commands[i], virt')]
           new == [i \in DOMAIN commands |-> [commands[i] EXCEPT !.virtual = virtuals[i]]]
<1>1. AreCommands(commands) /\ commands' = new
  BY DEF GenerationInv, CreateInlinedProperties
<1>2. \A i \in DOMAIN commands : IsCommand(commands[i]) => IsCommand(new[i])
  <2> HIDE DEF virtuals
  <2> QED BY OtherVirtual
<1>3. new = [i \in DOMAIN commands |-> new[i]]
  OBVIOUS
<1> HIDE DEF new
<1>4. AreCommands(new)
  BY <1>1, <1>2, <1>3, EachCommand
<1> QED BY <1>1, <1>4

\* The next directive leaves commands.
LEMMA ApplyDirectiveStep ==
  ASSUME GenerationInv, ApplyDirective
  PROVE  AreCommands(commands')
<1> DEFINE d == directives[applied + 1]
           m == [commands |-> commands, schemas |-> model.schemas, virt |-> virt]
<1>1. AreCommands(commands) /\ commands' = Apply(d, m).commands
  BY DEF GenerationInv, ApplyDirective
<1>2. IsDirective(d)
  <2>1. AreDirectives(directives) /\ applied \in Nat /\ applied < Len(directives)
    BY DEF GenerationInv, ApplyDirective
  <2>2. d \in ToSet(directives)
    BY <2>1 DEF AreDirectives, ToSet
  <2> HIDE DEF d
  <2> QED BY <2>1, <2>2 DEF AreDirectives, IsDirective, Patterns
<1> HIDE DEF d
<1>3. AreCommands(Apply(d, m).commands)
  BY <1>1, <1>2, ApplyType
<1> QED BY <1>1, <1>3

\* It holds at first,
LEMMA GenerationStart == Init => GenerationInv
<1> SUFFICES ASSUME Init PROVE GenerationInv
  OBVIOUS
<1>1. PICK input \in Inputs : model = input.model /\ directives = input.directives
  BY DEF Init
<1>2. HasOperations(model) /\ AreDirectives(directives)
  BY <1>1, InputsAssumption
<1>3. Inferred(inferrer)
  BY InferredStart DEF Init
<1> QED BY <1>2, <1>3 DEF Init, GenerationInv

\* and is kept by every plugin.
LEMMA GenerationStep ==
  ASSUME NumeralsDiffer, GenerationInv, [Next]_vars
  PROVE  GenerationInv'
<1> USE DEF GenerationInv
<1>1. CASE RunTweakM4
  BY <1>1, TweakM4Has DEF RunTweakM4
<1>2. CASE RunTweak
  BY <1>2, TweakHas DEF RunTweak
<1>3. CASE RunTweakAzure
  BY <1>3, TweakAzureHas DEF RunTweakAzure
<1>4. CASE InferOperation
  <2>1. Inferred(inferrer')
    BY <1>4, InferOperationStep
  <2> QED BY <1>4, <2>1 DEF InferOperation
<1>5. CASE InferNothing
  BY <1>5 DEF InferNothing
<1>6. CASE CommandsCreated
  BY <1>6 DEF CommandsCreated, Inferred
<1>7. CASE CreateInlinedProperties
  <2>1. phase' = "csnamer" => AreCommands(commands')
    BY <1>7, CreateInlinedPropertiesStep
  <2>2. phase' \in {"csnamer", "failed"}
    BY <1>7 DEF CreateInlinedProperties
  <2>3. UNCHANGED <<inferred, inferrer, directives, applied>>
    BY <1>7 DEF CreateInlinedProperties
  <2> QED BY <2>1, <2>2, <2>3
<1>8. CASE RunCsNamer
  BY <1>8 DEF RunCsNamer
<1>9. CASE RunPsNamer
  BY <1>9, PsNameCommandsType DEF RunPsNamer
<1>10. CASE ApplyDirective
  <2>1. AreCommands(commands')
    BY <1>10, ApplyDirectiveStep
  <2>2. phase' = "modifiers" /\ applied' = applied + 1 /\ UNCHANGED <<inferred, inferrer, directives>>
    BY <1>10 DEF ApplyDirective
  <2> QED BY <2>1, <2>2
<1>11. CASE IncorrectDirective
  BY <1>11 DEF IncorrectDirective
<1>12. CASE DirectivesApplied
  BY <1>12 DEF DirectivesApplied
<1>13. CASE CreateModelClasses
  BY <1>13 DEF CreateModelClasses
<1>14. CASE AddCompleters
  BY <1>14 DEF AddCompleters
<1>15. CASE CreateClasses
  BY <1>15 DEF CreateClasses
<1>16. CASE UNCHANGED vars
  BY <1>16 DEF vars
<1> QED BY <1>1, <1>2, <1>3, <1>4, <1>5, <1>6, <1>7, <1>8, <1>9, <1>10, <1>11, <1>12, <1>13,
           <1>14, <1>15, <1>16 DEF Next

\* No two of the commands made so far have the same verb, subject and name.
CreatedDistinct ==
  LET made == inferrer.commands
  IN \A i, j \in DOMAIN made : i # j => Key(made[i]) # Key(made[j])

\* However many operations there are and whatever they are called, no two of the
\* variants made for them have the same verb, subject and name: at every point of
\* create-commands-v2.ts the identities are enough to tell a new one from all before.
THEOREM CreatedVariantsDistinct == ASSUME NumeralsDiffer PROVE Spec => []CreatedDistinct
<1>1. Init => GenerationInv
  BY GenerationStart
<1>2. GenerationInv /\ [Next]_vars => GenerationInv'
  BY GenerationStep
<1>3. GenerationInv => CreatedDistinct
  BY DEF GenerationInv, Inferred, Inferrers, CreatedDistinct
<1> QED BY <1>1, <1>2, <1>3, PTL DEF Spec

\* The last step of the directives: of two commands that are alike, one was kept and
\* the other got a number, which is then the one at the end of the name that was kept.
LEMMA NumberedAgain ==
  ASSUME NumeralsDiffer, GenerationInv, DirectivesApplied,
         NEW i \in DOMAIN commands', NEW j \in DOMAIN commands', i # j,
         Key(commands'[i]) = Key(commands'[j])
  PROVE  \E k \in {i, j} : /\ commands'[k] = commands[k]
                           /\ \E n \in 1..Len(commands) : Last(commands[k].name) = ToString(n)
<1>1. AreCommands(commands) /\ commands' = Renumber(commands)
  BY DEF GenerationInv, DirectivesApplied
<1> DEFINE C == ToSet(commands)
           after == Renumber(commands)
           N == Len(commands)
<1>2. commands \in Seq(C) /\ (\A c \in C : IsCommand(c)) /\ \A k \in DOMAIN commands : IsCommand(commands[k])
  BY <1>1 DEF AreCommands, ToSet
<1>3. /\ DOMAIN after = DOMAIN commands
      /\ \E kept \in SUBSET DOMAIN commands :
           /\ \A k \in kept : after[k] = commands[k]
           /\ \A k \in DOMAIN commands \ kept :
                \E m \in 1..N : after[k] = Changed(commands[k], m)
           /\ \A k, l \in DOMAIN commands :
                k # l /\ (k \in kept <=> l \in kept) => Key(after[k]) # Key(after[l])
  <2> HIDE DEF C
  <2> QED BY <1>2, RenumberDistinguishes
<1>4. commands' = after
  BY <1>1
<1> HIDE DEF after, C
<1>5. PICK kept \in SUBSET DOMAIN commands :
        /\ \A k \in kept : after[k] = commands[k]
        /\ \A k \in DOMAIN commands \ kept :
             \E m \in 1..N : after[k] = Changed(commands[k], m)
        /\ \A k, l \in DOMAIN commands :
             k # l /\ (k \in kept <=> l \in kept) => Key(after[k]) # Key(after[l])
  BY <1>3
<1>6. PICK k \in {i, j}, o \in {i, j} : k \in kept /\ o \in DOMAIN commands \ kept
  BY <1>3, <1>4, <1>5
<1>7. after[k] = commands[k] /\ Key(after[k]) = Key(after[o])
  BY <1>4, <1>5, <1>6
<1>8. PICK m \in 1..N : after[o] = Changed(commands[o], m)
  BY <1>5, <1>6
<1>9. commands[k].name = Append(WithoutNumber(commands[o].name), ToString(m))
  <2>1. Key(Changed(commands[o], m))[3] = Append(WithoutNumber(commands[o].name), ToString(m))
    BY <1>2, <1>6, ChangedKey
  <2>2. Key(commands[k])[3] = commands[k].name
    BY DEF Key
  <2> QED BY <1>7, <1>8, <2>1, <2>2
<1>10. N \in Nat /\ m \in Nat
  BY <1>2
<1>11. Last(commands[k].name) = ToString(m)
  <2>1. commands[o].name \in Seq(STRING)
    BY <1>2, <1>6 DEF IsCommand
  <2>2. WithoutNumber(commands[o].name) \in Seq(STRING)
    BY <2>1, NamePartsType
  <2> QED BY <1>9, <1>10, <2>2, NumeralsAppended
<1> QED BY <1>4, <1>6, <1>7, <1>8, <1>11

\* After the directives two commands have the same verb, subject and name only if one
\* of them kept a name that ends with a number (modifiers-v2.ts).
THEOREM VariantsStayDistinct == ASSUME NumeralsDiffer PROVE Spec => VariantsDistinct
<1>1. Init => GenerationInv
  BY GenerationStart
<1>2. GenerationInv /\ [Next]_vars => GenerationInv'
  BY GenerationStep
<1> DEFINE Told == phase' = "llcsharp" /\ phase = "modifiers" =>
             \A i, j \in DOMAIN commands' :
               i # j /\ Key(commands'[i]) = Key(commands'[j]) =>
                 \E k \in {i, j} : /\ commands'[k] = commands[k]
                                   /\ \E n \in 1..Len(commands) : Last(commands[k].name) = ToString(n)
<1>3. GenerationInv /\ [Next]_vars => [Told]_vars
  <2> SUFFICES ASSUME GenerationInv, Next, phase' = "llcsharp", phase = "modifiers" PROVE Told
    OBVIOUS
  <2>1. DirectivesApplied
    BY DEF Next, RunTweakM4, RunTweak, RunTweakAzure, InferOperation, InferNothing, CommandsCreated,
           CreateInlinedProperties, RunCsNamer, RunPsNamer, IncorrectDirective, ApplyDirective,
           CreateModelClasses, AddCompleters, CreateClasses
  <2> QED BY <2>1, NumberedAgain
<1>4. VariantsDistinct <=> [][Told]_vars
  BY DEF VariantsDistinct
<1> HIDE DEF Told
<1> QED BY <1>1, <1>2, <1>3, <1>4, PTL DEF Spec
=============================================================================
