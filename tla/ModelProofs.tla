---------------------------- MODULE ModelProofs ----------------------------
(***************************************************************************)
(* The model that the plugins of Generation hand on: that it is closed at  *)
(* every step (ModelsClosed), and what each of them keeps of the schemas.  *)
(***************************************************************************)
EXTENDS GenerationProofs

\* How deep an object is below the roots: deeper than all its parents.
Depths(schemas) ==
  {depth \in [DOMAIN schemas -> Nat] :
     \A id \in DOMAIN schemas : \A parent \in ToSet(schemas[id].parents) : depth[parent] < depth[id]}

AreSchemas(schemas) == \A id \in DOMAIN schemas : IsSchema(schemas[id], DOMAIN schemas)

\* What is in a sequence is finite.
LEMMA FiniteElements ==
  ASSUME NEW T, NEW seq \in Seq(T)
  PROVE  IsFiniteSet(ToSet(seq))
<1>1. Len(seq) \in Nat /\ DOMAIN seq = 1..Len(seq) /\ seq = [i \in 1..Len(seq) |-> seq[i]]
  OBVIOUS
<1>2. \A i \in 1..Len(seq) : seq[i] \in ToSet(seq)
  BY <1>1 DEF ToSet
<1>3. \A x \in ToSet(seq) : \E i \in 1..Len(seq) : seq[i] = x
  BY <1>1 DEF ToSet
<1>4. seq \in [1..Len(seq) -> ToSet(seq)]
  BY <1>1, <1>2
<1>5. seq \in Surjection(1..Len(seq), ToSet(seq))
  <2> DEFINE A == 1..Len(seq)
             B == ToSet(seq)
  <2>1. seq \in [A -> B] /\ \A x \in B : \E i \in A : seq[i] = x
    BY <1>3, <1>4
  <2> HIDE DEF A, B
  <2>2. seq \in {f \in [A -> B] : \A x \in B : \E i \in A : f[i] = x}
    BY <2>1
  <2> QED BY <2>2 DEF A, B, Surjection
<1>6. IsFiniteSet(1..Len(seq))
  <2>1. \A n \in Nat : IsFiniteSet(1..n)
    BY FS_Interval
  <2> QED BY <1>1, <2>1
<1> QED BY <1>5, <1>6, FS_Surjection

\* Where no object is its own ancestor, there is a depth for each: taking one away that
\* has no parent among the others, and putting it above them.
LEMMA DepthExists ==
  ASSUME NEW m, IsModel(m), Rooted(m)
  PROVE  Depths(m.schemas) # {}
<1> DEFINE schemas == m.schemas
           ids == DOMAIN schemas
           Parents(id) == ToSet(schemas[id].parents)
           objects == ToSet(m.objects)
           Ranks(set) == {f \in [set -> Nat] : \A id \in set : \A p \in Parents(id) : p \in set => f[p] < f[id]}
           S == {n \in Nat : \A set \in SUBSET objects :
                               IsFiniteSet(set) /\ Cardinality(set) = n => Ranks(set) # {}}
<1>1. 0 \in S
  <2>1. \A set : IsFiniteSet(set) /\ Cardinality(set) = 0 => set = {}
    BY FS_EmptySet
  <2>2. [x \in {} |-> 0] \in Ranks({})
    OBVIOUS
  <2> HIDE DEF Ranks
  <2> QED BY <2>1, <2>2
<1>2. ASSUME NEW n \in Nat, n \in S PROVE n + 1 \in S
  <2>1. SUFFICES ASSUME NEW set \in SUBSET objects, IsFiniteSet(set), Cardinality(set) = n + 1
                 PROVE  Ranks(set) # {}
    <3> HIDE DEF Ranks, objects
    <3> QED OBVIOUS
  <2>2. set # {}
    BY <2>1, FS_EmptySet
  <2>3. PICK root \in set : Parents(root) \cap set = {}
    BY <2>2 DEF Rooted
  <2>4. IsFiniteSet(set \ {root}) /\ Cardinality(set \ {root}) = n
    BY <2>1, FS_RemoveElement
  <2>5. set \ {root} \in SUBSET objects
    OBVIOUS
  <2>6. Ranks(set \ {root}) # {}
    <3> HIDE DEF Ranks, objects
    <3> QED BY <1>2, <2>4, <2>5
  <2>7. PICK f : f \in Ranks(set \ {root})
    <3> HIDE DEF Ranks
    <3> QED BY <2>6
  <2> DEFINE g == [id \in set |-> IF id = root THEN 0 ELSE f[id] + 1]
  <2>8. /\ f \in [set \ {root} -> Nat]
        /\ \A id \in set \ {root} : \A p \in Parents(id) : p \in set \ {root} => f[p] < f[id]
    BY <2>7
  <2> HIDE DEF Parents, objects, Ranks
  <2>9. g \in [set -> Nat]
    BY <2>8
  <2>10. ASSUME NEW id \in set, NEW p \in Parents(id), p \in set PROVE g[p] < g[id]
    <3>1. id # root
      BY <2>3, <2>10
    <3>2. p = root \/ (p \in set \ {root} /\ f[p] < f[id])
      BY <2>8, <2>10, <3>1
    <3>3. f[id] \in Nat /\ (p # root => f[p] \in Nat)
      BY <2>8, <2>10, <3>1
    <3> QED BY <2>10, <3>1, <3>2, <3>3
  <2> HIDE DEF g
  <2>11. g \in Ranks(set)
    BY <2>9, <2>10 DEF Ranks
  <2> QED BY <2>11
<1>3. \A n \in Nat : n \in S
  <2> HIDE DEF S
  <2> QED BY <1>1, <1>2, NatSetInduction
<1>4. objects = {id \in ids : schemas[id].type = "object"} /\ m.objects \in Seq(ids)
  BY DEF IsModel
<1>5. IsFiniteSet(objects) /\ Cardinality(objects) \in Nat
  <2>1. IsFiniteSet(objects)
    <3> HIDE DEF ids
    <3> QED BY <1>4, FiniteElements
  <2> HIDE DEF objects
  <2> QED BY <2>1, FS_CardinalityType
<1>6. Ranks(objects) # {}
  <2> HIDE DEF Ranks, objects
  <2> QED BY <1>3, <1>5
<1>7. PICK f : f \in Ranks(objects)
  <2> HIDE DEF Ranks
  <2> QED BY <1>6
<1>8. /\ f \in [objects -> Nat]
      /\ \A id \in objects : \A p \in Parents(id) : p \in objects => f[p] < f[id]
  BY <1>7
<1>9. \A id \in ids : (id \notin objects => Parents(id) = {}) /\ Parents(id) \subseteq ids
  <2>1. \A id \in ids : IsSchema(schemas[id], ids)
    BY DEF IsModel
  <2>2. ASSUME NEW id \in ids
        PROVE  schemas[id].parents \in Seq(ids) /\ (schemas[id].type # "object" => schemas[id].parents = <<>>)
    BY <2>1 DEF IsSchema
  <2>3. ToSet(<<>>) = {}
    BY DEF ToSet
  <2>4. \A seq \in Seq(ids) : ToSet(seq) \subseteq ids
    BY DEF ToSet
  <2> HIDE DEF objects, schemas, ids
  <2> QED BY <1>4, <2>2, <2>3, <2>4
<1> DEFINE depth == [id \in ids |-> IF id \in objects THEN f[id] + 1 ELSE 0]
<1> HIDE DEF ids, objects, Ranks, S, Parents
<1>10. depth \in [ids -> Nat]
  BY <1>8
<1>11. ASSUME NEW id \in ids, NEW p \in Parents(id) PROVE depth[p] < depth[id]
  <2>1. id \in objects /\ p \in ids
    BY <1>9, <1>11
  <2>2. CASE p \in objects
    <3>1. f[p] < f[id] /\ f[p] \in Nat /\ f[id] \in Nat
      BY <1>8, <2>1, <2>2, <1>11
    <3> QED BY <2>1, <2>2, <3>1
  <2>3. CASE p \notin objects
    <3>1. f[id] \in Nat
      BY <1>8, <2>1
    <3> QED BY <2>1, <2>3, <3>1
  <2> QED BY <2>2, <2>3
<1> HIDE DEF depth
<1>12. depth \in Depths(schemas)
  BY <1>10, <1>11 DEF Depths, ids, Parents
<1> QED BY <1>12

\* The parents of a schema are in the model, and not as deep.
LEMMA Parents ==
  ASSUME NEW schemas, AreSchemas(schemas), NEW id \in DOMAIN schemas
  PROVE  /\ schemas[id].parents \in Seq(DOMAIN schemas)
         /\ \A i \in DOMAIN schemas[id].parents :
              /\ schemas[id].parents[i] \in DOMAIN schemas
              /\ schemas[id].parents[i] \in ToSet(schemas[id].parents)
              /\ \A depth \in Depths(schemas) : depth[schemas[id].parents[i]] < depth[id]
<1>1. schemas[id].parents \in Seq(DOMAIN schemas)
  BY DEF AreSchemas, IsSchema
<1>2. \A i \in DOMAIN schemas[id].parents : schemas[id].parents[i] \in ToSet(schemas[id].parents)
  BY DEF ToSet
<1>3. \A i \in DOMAIN schemas[id].parents : schemas[id].parents[i] \in DOMAIN schemas
  BY <1>1
<1> QED BY <1>1, <1>2, <1>3 DEF Depths

\* What a function makes of the elements of a sequence.
LEMMA Mapped ==
  ASSUME NEW A, NEW D, NEW seq \in Seq(A), NEW f, \A i \in DOMAIN seq : f[seq[i]] \in D
  PROVE  [i \in DOMAIN seq |-> f[seq[i]]] \in Seq(D)
<1>1. Len(seq) \in Nat /\ DOMAIN seq = 1..Len(seq)
  OBVIOUS
<1> DEFINE n == Len(seq)
           g == [i \in 1..n |-> f[seq[i]]]
<1>2. g \in [1..n -> D]
  BY <1>1
<1>3. g \in Seq(D)
  <2> HIDE DEF g, n
  <2> QED BY <1>1, <1>2 DEF n
<1> QED BY <1>1, <1>3

\* The ancestors of a schema: those of its parents, one after the other, and itself.
LEMMA AncestryType ==
  ASSUME NEW schemas, AreSchemas(schemas), NEW depth \in Depths(schemas)
  PROVE  \A id \in DOMAIN schemas :
           LET parents == schemas[id].parents
               lines == [i \in DOMAIN parents |-> Ancestry(schemas, parents[i])]
           IN /\ Ancestry(schemas, id) \in Seq(DOMAIN schemas)
              /\ lines \in Seq(Seq(DOMAIN schemas))
              /\ Ancestry(schemas, id) = Append(FlattenSeq(lines), id)
<1> DEFINE A == DOMAIN schemas
           D == Seq(A)
           Lines(id, f) == [i \in DOMAIN schemas[id].parents |-> f[schemas[id].parents[i]]]
           Line(id, f) == Append(FlattenSeq(Lines(id, f)), id)
           step == [each \in A \X [A -> D] |-> Line(each[1], each[2])]
           line == CHOOSE f : f = [id \in A |-> Line(id, f)]
<1>1. ASSUME NEW id \in A, NEW f,
             \A i \in DOMAIN schemas[id].parents : f[schemas[id].parents[i]] \in D
      PROVE  Lines(id, f) \in Seq(D) /\ Line(id, f) \in D
  <2>1. schemas[id].parents \in Seq(A)
    BY Parents
  <2>2. Lines(id, f) \in Seq(D)
    <3> HIDE DEF A, D
    <3> QED BY <1>1, <2>1, Mapped
  <2> HIDE DEF Lines
  <2>3. FlattenSeq(Lines(id, f)) \in Seq(A)
    <3> HIDE DEF A
    <3> QED BY <2>2, FlattenType
  <2>4. \A s \in Seq(A) : Append(s, id) \in Seq(A)
    OBVIOUS
  <2> HIDE DEF A
  <2> QED BY <2>2, <2>3, <2>4
<1>2. step \in [A \X [A -> D] -> D]
  <2>1. \A id \in A : \A i \in DOMAIN schemas[id].parents : schemas[id].parents[i] \in A
    BY Parents
  <2> HIDE DEF A, D, Line
  <2> QED BY <1>1, <2>1
<1>3. depth \in [A -> Nat] /\ D # {}
  <2>1. <<>> \in D
    OBVIOUS
  <2> HIDE DEF D
  <2> QED BY <2>1 DEF Depths
<1>4. Descends(A, D, depth, step)
  <2>1. ASSUME NEW id \in A, NEW f \in [A -> D], NEW g \in [A -> D],
               \A each \in A : depth[each] < depth[id] => f[each] = g[each]
        PROVE  step[<<id, f>>] = step[<<id, g>>]
    <3>1. \A i \in DOMAIN schemas[id].parents : f[schemas[id].parents[i]] = g[schemas[id].parents[i]]
      BY <2>1, Parents
    <3>2. Lines(id, f) = Lines(id, g)
      BY <3>1
    <3> HIDE DEF A, D, Lines
    <3> QED BY <3>2
  <2> HIDE DEF A, D, Line, step
  <2> QED BY <2>1 DEF Descends
<1>5. PICK g \in [A -> D] : \A id \in A : g[id] = step[<<id, g>>]
  <2> HIDE DEF A, D, step
  <2>1. Solutions(A, D, step) # {}
    BY <1>2, <1>3, <1>4, RecursionExists
  <2> QED BY <2>1 DEF Solutions
<1>6. g = [id \in A |-> Line(id, g)]
  <2> HIDE DEF A, D, Line
  <2> QED BY <1>5
<1>7. line = [id \in A |-> Line(id, line)]
  <2> HIDE DEF A, Line
  <2> QED BY <1>6
<1>8. \A id \in A : Ancestry(schemas, id) = line[id]
  BY DEF Ancestry
<1> HIDE DEF line
<1> DEFINE S == {n \in Nat : \A id \in A : depth[id] < n => line[id] \in D}
<1>9. 0 \in S
  BY <1>3
<1>10. ASSUME NEW n \in Nat, n \in S PROVE n + 1 \in S
  <2>1. SUFFICES ASSUME NEW id \in A, depth[id] < n + 1 PROVE line[id] \in D
    OBVIOUS
  <2>2. ASSUME NEW i \in DOMAIN schemas[id].parents PROVE line[schemas[id].parents[i]] \in D
    <3>1. schemas[id].parents[i] \in A /\ depth[schemas[id].parents[i]] < depth[id]
      BY Parents
    <3>2. depth[schemas[id].parents[i]] < n
      BY <1>3, <2>1, <3>1
    <3> QED BY <1>10, <3>1, <3>2
  <2>3. Line(id, line) \in D
    <3> HIDE DEF A, D, Line, Lines
    <3> QED BY <1>1, <2>2
  <2>4. line[id] = Line(id, line)
    <3> HIDE DEF Line, A
    <3> QED BY <1>7
  <2> QED BY <2>3, <2>4
<1>11. \A n \in Nat : n \in S
  <2> HIDE DEF S
  <2> QED BY <1>9, <1>10, NatSetInduction
<1>12. \A id \in A : line[id] \in D
  <2>1. \A id \in A : depth[id] + 1 \in Nat /\ depth[id] < depth[id] + 1
    BY <1>3
  <2> QED BY <1>11, <2>1
<1>13. ASSUME NEW id \in A
       PROVE  /\ Ancestry(schemas, id) \in D
              /\ [i \in DOMAIN schemas[id].parents |-> Ancestry(schemas, schemas[id].parents[i])] \in Seq(D)
              /\ Ancestry(schemas, id)
                 = Append(FlattenSeq([i \in DOMAIN schemas[id].parents |->
                                        Ancestry(schemas, schemas[id].parents[i])]), id)
  <2>1. \A i \in DOMAIN schemas[id].parents : schemas[id].parents[i] \in A
    BY Parents
  <2>2. Lines(id, line)
        = [i \in DOMAIN schemas[id].parents |-> Ancestry(schemas, schemas[id].parents[i])]
    BY <1>8, <2>1
  <2>3. Lines(id, line) \in Seq(D)
    <3> HIDE DEF A, D, Line, Lines
    <3> QED BY <1>1, <1>12, <2>1
  <2>4. line[id] = Line(id, line)
    <3> HIDE DEF Line, A
    <3> QED BY <1>7
  <2> HIDE DEF A, D, Lines
  <2> QED BY <1>8, <1>12, <2>2, <2>3, <2>4
<1> QED BY <1>13

\* What a loop ends with is what its rounds stay in.
LEMMA EndsType ==
  ASSUME NEW D, NEW T, NEW b \in D, NEW seq \in Seq(T), NEW step
  PROVE  Ends(D, b, seq, step) \subseteq D
<1>1. Len(seq) \in 0..Len(seq)
  OBVIOUS
<1> QED BY <1>1 DEF Ends, Runs

\* The loop over the objects that gives versions to dictionaries.
LEMMA VersionsLoop ==
  ASSUME NEW D, NEW T, NEW b \in D, NEW seq \in Seq(T),
         \A d \in D, x \in T : VersionsFromObject(d, x) \in D
  PROVE  FoldLeft(VersionsFromObject, b, seq)
         \in Ends(D, b, seq, [each \in D \X T |-> VersionsFromObject(each[1], each[2])])
<1> DEFINE step == [each \in D \X T |-> VersionsFromObject(each[1], each[2])]
           iter == CHOOSE f : f = [s \in SUBSET DOMAIN seq |->
                     IF s = {} THEN b ELSE VersionsFromObject(f[s \ {Max(s)}], seq[Max(s)])]
<1>1. step \in [D \X T -> D] /\ \A d \in D, x \in T : step[<<d, x>>] = VersionsFromObject(d, x)
  OBVIOUS
<1> HIDE DEF step
<1>2. PICK g : IsLoop(g, D, b, seq, step)
  BY <1>1, LoopExists
<1>3. \A s \in SUBSET DOMAIN seq : s # {} => seq[Max(s)] \in T /\ s \ {Max(s)} \in SUBSET DOMAIN seq
  BY LoopPoints
<1>4. g \in [SUBSET DOMAIN seq -> D]
  BY <1>2 DEF IsLoop
<1>5. ASSUME NEW s \in SUBSET DOMAIN seq
      PROVE  g[s] = IF s = {} THEN b ELSE VersionsFromObject(g[s \ {Max(s)}], seq[Max(s)])
  BY <1>1, <1>2, <1>3, <1>4 DEF IsLoop
<1>6. g = [s \in SUBSET DOMAIN seq |-> IF s = {} THEN b ELSE VersionsFromObject(g[s \ {Max(s)}], seq[Max(s)])]
  BY <1>4, <1>5
<1>7. iter = [s \in SUBSET DOMAIN seq |-> IF s = {} THEN b ELSE VersionsFromObject(iter[s \ {Max(s)}], seq[Max(s)])]
  BY <1>6
<1>8. FoldLeft(VersionsFromObject, b, seq) = iter[DOMAIN seq]
  BY DEF FoldLeft, MapThenFoldSet
<1> HIDE DEF iter
<1>9. Iterates(iter, D, b, seq, step)
  <2>1. iter[{}] = b
    BY <1>7
  <2>2. ASSUME NEW s \in SUBSET DOMAIN seq, s # {}, iter[s \ {Max(s)}] \in D
        PROVE  iter[s] = step[<<iter[s \ {Max(s)}], seq[Max(s)]>>]
    <3>1. iter[s] = VersionsFromObject(iter[s \ {Max(s)}], seq[Max(s)])
      BY <1>7, <2>2
    <3>2. seq[Max(s)] \in T
      BY <1>3, <2>2
    <3> QED BY <1>1, <2>2, <3>1, <3>2
  <2> QED BY <2>1, <2>2 DEF Iterates
<1>10. iter[DOMAIN seq] \in Ends(D, b, seq, step)
  BY <1>1, <1>9, LoopRuns
<1> QED BY <1>8, <1>10 DEF step

\* The loop over the parameters that become those of the identity.
LEMMA IdentityLoop ==
  ASSUME NEW D, NEW T, NEW b \in D, NEW seq \in Seq(T),
         \A d \in D, x \in T : AddToIdentity(d, x) \in D
  PROVE  FoldLeft(AddToIdentity, b, seq)
         \in Ends(D, b, seq, [each \in D \X T |-> AddToIdentity(each[1], each[2])])
<1> DEFINE step == [each \in D \X T |-> AddToIdentity(each[1], each[2])]
           iter == CHOOSE f : f = [s \in SUBSET DOMAIN seq |->
                     IF s = {} THEN b ELSE AddToIdentity(f[s \ {Max(s)}], seq[Max(s)])]
<1>1. step \in [D \X T -> D] /\ \A d \in D, x \in T : step[<<d, x>>] = AddToIdentity(d, x)
  OBVIOUS
<1> HIDE DEF step
<1>2. PICK g : IsLoop(g, D, b, seq, step)
  BY <1>1, LoopExists
<1>3. \A s \in SUBSET DOMAIN seq : s # {} => seq[Max(s)] \in T /\ s \ {Max(s)} \in SUBSET DOMAIN seq
  BY LoopPoints
<1>4. g \in [SUBSET DOMAIN seq -> D]
  BY <1>2 DEF IsLoop
<1>5. ASSUME NEW s \in SUBSET DOMAIN seq
      PROVE  g[s] = IF s = {} THEN b ELSE AddToIdentity(g[s \ {Max(s)}], seq[Max(s)])
  BY <1>1, <1>2, <1>3, <1>4 DEF IsLoop
<1>6. g = [s \in SUBSET DOMAIN seq |-> IF s = {} THEN b ELSE AddToIdentity(g[s \ {Max(s)}], seq[Max(s)])]
  BY <1>4, <1>5
<1>7. iter = [s \in SUBSET DOMAIN seq |-> IF s = {} THEN b ELSE AddToIdentity(iter[s \ {Max(s)}], seq[Max(s)])]
  BY <1>6
<1>8. FoldLeft(AddToIdentity, b, seq) = iter[DOMAIN seq]
  BY DEF FoldLeft, MapThenFoldSet
<1> HIDE DEF iter
<1>9. Iterates(iter, D, b, seq, step)
  <2>1. iter[{}] = b
    BY <1>7
  <2>2. ASSUME NEW s \in SUBSET DOMAIN seq, s # {}, iter[s \ {Max(s)}] \in D
        PROVE  iter[s] = step[<<iter[s \ {Max(s)}], seq[Max(s)]>>]
    <3>1. iter[s] = AddToIdentity(iter[s \ {Max(s)}], seq[Max(s)])
      BY <1>7, <2>2
    <3>2. seq[Max(s)] \in T
      BY <1>3, <2>2
    <3> QED BY <1>1, <2>2, <3>1, <3>2
  <2> QED BY <2>1, <2>2 DEF Iterates
<1>10. iter[DOMAIN seq] \in Ends(D, b, seq, step)
  BY <1>1, <1>9, LoopRuns
<1> QED BY <1>8, <1>10 DEF step

\* The loop over the properties of a schema that looks for duplicates,
LEMMA LookLoop ==
  ASSUME NEW a, NEW D, NEW T, NEW b \in D, NEW seq \in Seq(T),
         \A d \in D, x \in T : Look(d, a, x) \in D
  PROVE  FoldLeft(LAMBDA f, p : Look(f, a, p), b, seq)
         \in Ends(D, b, seq, [each \in D \X T |-> Look(each[1], a, each[2])])
<1> DEFINE step == [each \in D \X T |-> Look(each[1], a, each[2])]
           iter == CHOOSE f : f = [s \in SUBSET DOMAIN seq |->
                     IF s = {} THEN b ELSE Look(f[s \ {Max(s)}], a, seq[Max(s)])]
<1>1. step \in [D \X T -> D] /\ \A d \in D, x \in T : step[<<d, x>>] = Look(d, a, x)
  OBVIOUS
<1> HIDE DEF step
<1>2. PICK g : IsLoop(g, D, b, seq, step)
  BY <1>1, LoopExists
<1>3. \A s \in SUBSET DOMAIN seq : s # {} => seq[Max(s)] \in T /\ s \ {Max(s)} \in SUBSET DOMAIN seq
  BY LoopPoints
<1>4. g \in [SUBSET DOMAIN seq -> D]
  BY <1>2 DEF IsLoop
<1>5. ASSUME NEW s \in SUBSET DOMAIN seq
      PROVE  g[s] = IF s = {} THEN b ELSE Look(g[s \ {Max(s)}], a, seq[Max(s)])
  BY <1>1, <1>2, <1>3, <1>4 DEF IsLoop
<1>6. g = [s \in SUBSET DOMAIN seq |-> IF s = {} THEN b ELSE Look(g[s \ {Max(s)}], a, seq[Max(s)])]
  BY <1>4, <1>5
<1>7. iter = [s \in SUBSET DOMAIN seq |-> IF s = {} THEN b ELSE Look(iter[s \ {Max(s)}], a, seq[Max(s)])]
  BY <1>6
<1>8. FoldLeft(LAMBDA f, p : Look(f, a, p), b, seq) = iter[DOMAIN seq]
  BY DEF FoldLeft, MapThenFoldSet
<1> HIDE DEF iter
<1>9. Iterates(iter, D, b, seq, step)
  <2>1. iter[{}] = b
    BY <1>7
  <2>2. ASSUME NEW s \in SUBSET DOMAIN seq, s # {}, iter[s \ {Max(s)}] \in D
        PROVE  iter[s] = step[<<iter[s \ {Max(s)}], seq[Max(s)]>>]
    <3>1. iter[s] = Look(iter[s \ {Max(s)}], a, seq[Max(s)])
      BY <1>7, <2>2
    <3>2. seq[Max(s)] \in T
      BY <1>3, <2>2
    <3> QED BY <1>1, <2>2, <3>1, <3>2
  <2> QED BY <2>1, <2>2 DEF Iterates
<1>10. iter[DOMAIN seq] \in Ends(D, b, seq, step)
  BY <1>1, <1>9, LoopRuns
<1> QED BY <1>8, <1>10 DEF step

\* the one over its ancestors,
LEMMA LookAtLoop ==
  ASSUME NEW D, NEW T, NEW b \in D, NEW seq \in Seq(T),
         \A d \in D, x \in T : LookAtAll(d, x) \in D
  PROVE  FoldLeft(LookAtAll, b, seq)
         \in Ends(D, b, seq, [each \in D \X T |-> LookAtAll(each[1], each[2])])
<1> DEFINE step == [each \in D \X T |-> LookAtAll(each[1], each[2])]
           iter == CHOOSE f : f = [s \in SUBSET DOMAIN seq |->
                     IF s = {} THEN b ELSE LookAtAll(f[s \ {Max(s)}], seq[Max(s)])]
<1>1. step \in [D \X T -> D] /\ \A d \in D, x \in T : step[<<d, x>>] = LookAtAll(d, x)
  OBVIOUS
<1> HIDE DEF step
<1>2. PICK g : IsLoop(g, D, b, seq, step)
  BY <1>1, LoopExists
<1>3. \A s \in SUBSET DOMAIN seq : s # {} => seq[Max(s)] \in T /\ s \ {Max(s)} \in SUBSET DOMAIN seq
  BY LoopPoints
<1>4. g \in [SUBSET DOMAIN seq -> D]
  BY <1>2 DEF IsLoop
<1>5. ASSUME NEW s \in SUBSET DOMAIN seq
      PROVE  g[s] = IF s = {} THEN b ELSE LookAtAll(g[s \ {Max(s)}], seq[Max(s)])
  BY <1>1, <1>2, <1>3, <1>4 DEF IsLoop
<1>6. g = [s \in SUBSET DOMAIN seq |-> IF s = {} THEN b ELSE LookAtAll(g[s \ {Max(s)}], seq[Max(s)])]
  BY <1>4, <1>5
<1>7. iter = [s \in SUBSET DOMAIN seq |-> IF s = {} THEN b ELSE LookAtAll(iter[s \ {Max(s)}], seq[Max(s)])]
  BY <1>6
<1>8. FoldLeft(LookAtAll, b, seq) = iter[DOMAIN seq]
  BY DEF FoldLeft, MapThenFoldSet
<1> HIDE DEF iter
<1>9. Iterates(iter, D, b, seq, step)
  <2>1. iter[{}] = b
    BY <1>7
  <2>2. ASSUME NEW s \in SUBSET DOMAIN seq, s # {}, iter[s \ {Max(s)}] \in D
        PROVE  iter[s] = step[<<iter[s \ {Max(s)}], seq[Max(s)]>>]
    <3>1. iter[s] = LookAtAll(iter[s \ {Max(s)}], seq[Max(s)])
      BY <1>7, <2>2
    <3>2. seq[Max(s)] \in T
      BY <1>3, <2>2
    <3> QED BY <1>1, <2>2, <3>1, <3>2
  <2> QED BY <2>1, <2>2 DEF Iterates
<1>10. iter[DOMAIN seq] \in Ends(D, b, seq, step)
  BY <1>1, <1>9, LoopRuns
<1> QED BY <1>8, <1>10 DEF step

\* and the one over all objects.
LEMMA DropLoop ==
  ASSUME NEW D, NEW T, NEW b \in D, NEW seq \in Seq(T),
         \A d \in D, x \in T : DropInherited(d, x) \in D
  PROVE  FoldLeft(DropInherited, b, seq)
         \in Ends(D, b, seq, [each \in D \X T |-> DropInherited(each[1], each[2])])
<1> DEFINE step == [each \in D \X T |-> DropInherited(each[1], each[2])]
           iter == CHOOSE f : f = [s \in SUBSET DOMAIN seq |->
                     IF s = {} THEN b ELSE DropInherited(f[s \ {Max(s)}], seq[Max(s)])]
<1>1. step \in [D \X T -> D] /\ \A d \in D, x \in T : step[<<d, x>>] = DropInherited(d, x)
  OBVIOUS
<1> HIDE DEF step
<1>2. PICK g : IsLoop(g, D, b, seq, step)
  BY <1>1, LoopExists
<1>3. \A s \in SUBSET DOMAIN seq : s # {} => seq[Max(s)] \in T /\ s \ {Max(s)} \in SUBSET DOMAIN seq
  BY LoopPoints
<1>4. g \in [SUBSET DOMAIN seq -> D]
  BY <1>2 DEF IsLoop
<1>5. ASSUME NEW s \in SUBSET DOMAIN seq
      PROVE  g[s] = IF s = {} THEN b ELSE DropInherited(g[s \ {Max(s)}], seq[Max(s)])
  BY <1>1, <1>2, <1>3, <1>4 DEF IsLoop
<1>6. g = [s \in SUBSET DOMAIN seq |-> IF s = {} THEN b ELSE DropInherited(g[s \ {Max(s)}], seq[Max(s)])]
  BY <1>4, <1>5
<1>7. iter = [s \in SUBSET DOMAIN seq |-> IF s = {} THEN b ELSE DropInherited(iter[s \ {Max(s)}], seq[Max(s)])]
  BY <1>6
<1>8. FoldLeft(DropInherited, b, seq) = iter[DOMAIN seq]
  BY DEF FoldLeft, MapThenFoldSet
<1> HIDE DEF iter
<1>9. Iterates(iter, D, b, seq, step)
  <2>1. iter[{}] = b
    BY <1>7
  <2>2. ASSUME NEW s \in SUBSET DOMAIN seq, s # {}, iter[s \ {Max(s)}] \in D
        PROVE  iter[s] = step[<<iter[s \ {Max(s)}], seq[Max(s)]>>]
    <3>1. iter[s] = DropInherited(iter[s \ {Max(s)}], seq[Max(s)])
      BY <1>7, <2>2
    <3>2. seq[Max(s)] \in T
      BY <1>3, <2>2
    <3> QED BY <1>1, <2>2, <3>1, <3>2
  <2> QED BY <2>1, <2>2 DEF Iterates
<1>10. iter[DOMAIN seq] \in Ends(D, b, seq, step)
  BY <1>1, <1>9, LoopRuns
<1> QED BY <1>8, <1>10 DEF step

\* The loop over the headers of the responses.
LEMMA HeaderLoop ==
  ASSUME NEW D, NEW T, NEW b \in D, NEW seq \in Seq(T),
         \A d \in D, x \in T : AddHeaderProperty(d, x[1], x[2]) \in D
  PROVE  FoldLeft(LAMBDA s, each : AddHeaderProperty(s, each[1], each[2]), b, seq)
         \in Ends(D, b, seq, [each \in D \X T |-> AddHeaderProperty(each[1], each[2][1], each[2][2])])
<1> DEFINE step == [each \in D \X T |-> AddHeaderProperty(each[1], each[2][1], each[2][2])]
           iter == CHOOSE f : f = [s \in SUBSET DOMAIN seq |->
                     IF s = {} THEN b ELSE AddHeaderProperty(f[s \ {Max(s)}], seq[Max(s)][1], seq[Max(s)][2])]
<1>1. step \in [D \X T -> D] /\ \A d \in D, x \in T : step[<<d, x>>] = AddHeaderProperty(d, x[1], x[2])
  OBVIOUS
<1> HIDE DEF step
<1>2. PICK g : IsLoop(g, D, b, seq, step)
  BY <1>1, LoopExists
<1>3. \A s \in SUBSET DOMAIN seq : s # {} => seq[Max(s)] \in T /\ s \ {Max(s)} \in SUBSET DOMAIN seq
  BY LoopPoints
<1>4. g \in [SUBSET DOMAIN seq -> D]
  BY <1>2 DEF IsLoop
<1>5. ASSUME NEW s \in SUBSET DOMAIN seq
      PROVE  g[s] = IF s = {} THEN b ELSE AddHeaderProperty(g[s \ {Max(s)}], seq[Max(s)][1], seq[Max(s)][2])
  BY <1>1, <1>2, <1>3, <1>4 DEF IsLoop
<1>6. g = [s \in SUBSET DOMAIN seq |-> IF s = {} THEN b ELSE AddHeaderProperty(g[s \ {Max(s)}], seq[Max(s)][1], seq[Max(s)][2])]
  BY <1>4, <1>5
<1>7. iter = [s \in SUBSET DOMAIN seq |-> IF s = {} THEN b ELSE AddHeaderProperty(iter[s \ {Max(s)}], seq[Max(s)][1], seq[Max(s)][2])]
  BY <1>6
<1>8. FoldLeft(LAMBDA s, each : AddHeaderProperty(s, each[1], each[2]), b, seq) = iter[DOMAIN seq]
  BY DEF FoldLeft, MapThenFoldSet
<1> HIDE DEF iter
<1>9. Iterates(iter, D, b, seq, step)
  <2>1. iter[{}] = b
    BY <1>7
  <2>2. ASSUME NEW s \in SUBSET DOMAIN seq, s # {}, iter[s \ {Max(s)}] \in D
        PROVE  iter[s] = step[<<iter[s \ {Max(s)}], seq[Max(s)]>>]
    <3>1. iter[s] = AddHeaderProperty(iter[s \ {Max(s)}], seq[Max(s)][1], seq[Max(s)][2])
      BY <1>7, <2>2
    <3>2. seq[Max(s)] \in T
      BY <1>3, <2>2
    <3> QED BY <1>1, <2>2, <3>1, <3>2
  <2> QED BY <2>1, <2>2 DEF Iterates
<1>10. iter[DOMAIN seq] \in Ends(D, b, seq, step)
  BY <1>1, <1>9, LoopRuns
<1> QED BY <1>8, <1>10 DEF step


\* What most plugins leave as it is of a schema, and of all.
Kept(x, y) ==
  DOMAIN y = DOMAIN x /\ y.type = x.type /\ y.parents = x.parents /\ y.props = x.props
Alike(s, t) ==
  /\ t \in [DOMAIN s -> {t[id] : id \in DOMAIN s}]
  /\ \A id \in DOMAIN s : Kept(s[id], t[id])

\* Every schema is one of those that its one of the sets of schemas allows.
Selections(one) ==
  {t \in [DOMAIN one -> UNION {one[id] : id \in DOMAIN one}] : \A id \in DOMAIN one : t[id] \in one[id]}
LEMMA Chosen ==
  ASSUME NEW one, NEW t, DOMAIN t = DOMAIN one, t = [id \in DOMAIN t |-> t[id]],
         \A id \in DOMAIN one : t[id] \in one[id]
  PROVE  t \in Selections(one)
<1>1. t \in [DOMAIN one -> UNION {one[id] : id \in DOMAIN one}]
  OBVIOUS
<1> QED BY <1>1 DEF Selections

\* The versions that dictionaries get of the objects.
LEMMA VersionsKept ==
  ASSUME NEW s, AreSchemas(s), s = [id \in DOMAIN s |-> s[id]], NEW seq \in Seq(DOMAIN s)
  PROVE  Alike(s, FoldLeft(VersionsFromObject, s, seq))
<1> DEFINE ids == DOMAIN s
           W == {s[id].versions : id \in ids}
           One(x) == {x} \cup {[x EXCEPT !.versions = v] : v \in W}
           one == [id \in ids |-> One(s[id])]
           D == Selections(one)
           end == FoldLeft(VersionsFromObject, s, seq)
<1>1. ASSUME NEW id \in ids, NEW x \in One(s[id])
      PROVE  x.versions \in W /\ Kept(s[id], x) /\ \A v \in W : [x EXCEPT !.versions = v] \in One(s[id])
  <2>1. "versions" \in DOMAIN s[id] /\ "type" \in DOMAIN s[id] /\ "parents" \in DOMAIN s[id] /\ "props" \in DOMAIN s[id]
    BY DEF AreSchemas, IsSchema, PlainSchema
  <2>2. x = s[id] \/ \E v \in W : x = [s[id] EXCEPT !.versions = v]
    OBVIOUS
  <2>3. Kept(s[id], x)
    BY <2>1, <2>2 DEF Kept
  <2>4. x.versions \in W
    BY <2>1, <2>2
  <2>5. \A v \in W : [x EXCEPT !.versions = v] = [s[id] EXCEPT !.versions = v]
    BY <2>1, <2>2
  <2> QED BY <2>3, <2>4, <2>5
<1>2. s \in D
  <2>1. DOMAIN s = DOMAIN one /\ \A id \in DOMAIN one : s[id] \in one[id]
    OBVIOUS
  <2> HIDE DEF one
  <2> QED BY <2>1, Chosen
<1>3. ASSUME NEW t \in D PROVE DOMAIN t = ids /\ t = [id \in ids |-> t[id]] /\ \A id \in ids : t[id] \in One(s[id])
  <2>1. DOMAIN one = ids /\ \A id \in ids : one[id] = One(s[id])
    OBVIOUS
  <2> HIDE DEF one, One
  <2> QED BY <2>1 DEF Selections
<1>4. ASSUME NEW t \in D, NEW x \in ids PROVE VersionsFromObject(t, x) \in D
  <2> DEFINE new == VersionsFromObject(t, x)
  <2>1. /\ DOMAIN t = ids /\ \A id \in ids : t[id] \in One(s[id])
        /\ t[x].versions \in W
    <3> HIDE DEF D, One, W
    <3> QED BY <1>1, <1>3
  <2>2. /\ DOMAIN new = ids /\ new = [id \in DOMAIN new |-> new[id]]
        /\ \A id \in ids : new[id] = t[id] \/ new[id] = [t[id] EXCEPT !.versions = t[x].versions]
    <3> HIDE DEF ids, D, One, W
    <3> QED BY <2>1 DEF VersionsFromObject
  <2>3. \A id \in ids : new[id] \in One(s[id])
    <3> HIDE DEF ids, D, One, W, new
    <3> QED BY <1>1, <2>1, <2>2
  <2>4. DOMAIN one = ids /\ \A id \in ids : one[id] = One(s[id])
    OBVIOUS
  <2> HIDE DEF one, One, new, ids
  <2>5. new \in D
    BY <2>2, <2>3, <2>4, Chosen
  <2> QED BY <2>5 DEF new
<1>5. end \in D
  <2> HIDE DEF D
  <2>1. end \in Ends(D, s, seq, [each \in D \X ids |-> VersionsFromObject(each[1], each[2])])
    BY <1>2, <1>4, VersionsLoop
  <2> QED BY <1>2, <2>1, EndsType
<1>6. DOMAIN end = ids /\ end = [id \in ids |-> end[id]] /\ \A id \in ids : Kept(s[id], end[id])
  <2> HIDE DEF D, One, ids, end
  <2> QED BY <1>1, <1>3, <1>5
<1> HIDE DEF end
<1>7. Alike(s, end)
  BY <1>6 DEF Alike
<1> QED BY <1>7 DEF end

\* What a plugin that keeps the schemas of a model makes of them.
Remade(s, t) ==
  /\ t \in [DOMAIN s -> {t[id] : id \in DOMAIN s}]
  /\ \A id \in DOMAIN s :
       IsSchema(t[id], DOMAIN s) /\ t[id].type = s[id].type /\ t[id].parents = s[id].parents

\* The operations, and what a plugin makes of them, one for one.
AreCalls(ops, ids) == ops \in Seq(ToSet(ops)) /\ \A i \in DOMAIN ops : IsCall(ops[i], ids)
SameOps(ops, new) == DOMAIN new = DOMAIN ops /\ \A i \in DOMAIN ops : new[i].id = ops[i].id

\* A model whose schemas have depths, and what a plugin makes of one.
Grounded(m) == IsModel(m) /\ Depths(m.schemas) # {}
Becomes(m, m2) == Grounded(m2) /\ SameOps(m.operations, m2.operations)

\* The schemas that no plugin but one takes anything from.
Sers(schema) == {p.ser : p \in ToSet(schema.props)}
Grown(s, t) ==
  /\ DOMAIN s \subseteq DOMAIN t
  /\ \A id \in DOMAIN s : t[id].parents = s[id].parents /\ Sers(s[id]) \subseteq Sers(t[id])

Fields == {"schemas", "objects", "others", "operations", "error"}

\* The parts of a model.
LEMMA ModelParts ==
  ASSUME NEW m, IsModel(m)
  PROVE  /\ AreSchemas(m.schemas) /\ m.schemas = [id \in DOMAIN m.schemas |-> m.schemas[id]]
         /\ <<"string">> \in DOMAIN m.schemas
         /\ m.objects \in Seq(DOMAIN m.schemas)
         /\ ToSet(m.objects) = {id \in DOMAIN m.schemas : m.schemas[id].type = "object"}
         /\ m.others \in Seq(DOMAIN m.schemas)
         /\ AreCalls(m.operations, DOMAIN m.schemas)
         /\ Fields \subseteq DOMAIN m
<1>1. AreSchemas(m.schemas) /\ m.schemas = [id \in DOMAIN m.schemas |-> m.schemas[id]]
  BY DEF IsModel, AreSchemas
<1>2. AreCalls(m.operations, DOMAIN m.schemas)
  <2>1. \A i \in DOMAIN m.operations : m.operations[i] \in ToSet(m.operations)
    BY DEF ToSet
  <2> QED BY <2>1 DEF IsModel, AreCalls
<1> QED BY <1>1, <1>2 DEF IsModel, Fields

\* A model with schemas remade and other operations.
LEMMA ModelRemade ==
  ASSUME NEW m, Grounded(m), NEW m2, Fields \subseteq DOMAIN m2, Remade(m.schemas, m2.schemas),
         m2.objects = m.objects, m2.others = m.others,
         AreCalls(m2.operations, DOMAIN m.schemas), SameOps(m.operations, m2.operations)
  PROVE  Becomes(m, m2)
<1> DEFINE s == m.schemas
           t == m2.schemas
<1>1. t \in [DOMAIN s -> {t[id] : id \in DOMAIN s}] /\ DOMAIN t = DOMAIN s
  BY DEF Remade
<1>2. \A id \in DOMAIN s :
        IsSchema(t[id], DOMAIN s) /\ t[id].type = s[id].type /\ t[id].parents = s[id].parents
  BY DEF Remade
<1>3. {id \in DOMAIN t : t[id].type = "object"} = {id \in DOMAIN s : s[id].type = "object"}
  <2> HIDE DEF s, t
  <2> QED BY <1>1, <1>2
<1>4. \A op \in ToSet(m2.operations) : IsCall(op, DOMAIN s)
  BY DEF AreCalls, ToSet
<1>5. IsModel(m2)
  <2>1. \A id \in DOMAIN t : IsSchema(t[id], DOMAIN t)
    <3> HIDE DEF s, t
    <3> QED BY <1>1, <1>2
  <2>2. <<"string">> \in DOMAIN t
    BY <1>1 DEF Grounded, IsModel
  <2>3. m2.objects \in Seq(DOMAIN t) /\ ToSet(m2.objects) = {id \in DOMAIN t : t[id].type = "object"}
    BY <1>1, <1>3 DEF Grounded, IsModel
  <2>4. m2.others \in Seq(DOMAIN t)
    BY <1>1 DEF Grounded, IsModel
  <2>5. m2.operations \in Seq(ToSet(m2.operations)) /\ \A op \in ToSet(m2.operations) : IsCall(op, DOMAIN t)
    BY <1>1, <1>4 DEF AreCalls
  <2>6. t \in [DOMAIN t -> {t[id] : id \in DOMAIN t}]
    <3> HIDE DEF s, t
    <3> QED BY <1>1
  <2> HIDE DEF s
  <2> QED BY <2>1, <2>2, <2>3, <2>4, <2>5, <2>6 DEF IsModel, Fields
<1>6. Depths(t) = Depths(s)
  <2> HIDE DEF s, t
  <2> QED BY <1>1, <1>2 DEF Depths
<1> QED BY <1>5, <1>6 DEF Becomes, Grounded

\* Schemas and operations that are left as they are.
LEMMA Unremade ==
  ASSUME NEW m, IsModel(m)
  PROVE  /\ Remade(m.schemas, m.schemas) /\ Grown(m.schemas, m.schemas)
         /\ SameOps(m.operations, m.operations)
<1>1. AreSchemas(m.schemas) /\ m.schemas \in [DOMAIN m.schemas -> {m.schemas[id] : id \in DOMAIN m.schemas}]
  BY DEF IsModel, AreSchemas
<1> QED BY <1>1 DEF AreSchemas, Remade, Grown, SameOps

\* One operation made of each.
LEMMA CallsMade ==
  ASSUME NEW ops, ops \in Seq(ToSet(ops)), NEW new, new = [i \in DOMAIN ops |-> new[i]], NEW ids,
         \A i \in DOMAIN ops : IsCall(new[i], ids) /\ new[i].id = ops[i].id
  PROVE  AreCalls(new, ids) /\ SameOps(ops, new)
<1>1. Len(ops) \in Nat /\ DOMAIN ops = 1..Len(ops)
  OBVIOUS
<1>2. \A i \in DOMAIN ops : new[i] \in ToSet(new)
  BY DEF ToSet
<1>3. new \in Seq(ToSet(new))
  <2> DEFINE T == ToSet(new)
  <2>1. new \in [1..Len(ops) -> T]
    BY <1>1, <1>2
  <2> HIDE DEF T
  <2>2. new \in Seq(T)
    BY <1>1, <2>1
  <2> QED BY <2>2 DEF T
<1>4. DOMAIN new = DOMAIN ops
  OBVIOUS
<1> QED BY <1>3, <1>4 DEF AreCalls, SameOps

\* What is alike is remade.
LEMMA AlikeRemade ==
  ASSUME NEW s, AreSchemas(s), NEW t, Alike(s, t)
  PROVE  Remade(s, t) /\ Grown(s, t)
<1>1. ASSUME NEW id \in DOMAIN s PROVE IsSchema(t[id], DOMAIN s)
  <2>1. IsSchema(s[id], DOMAIN s) /\ Kept(s[id], t[id])
    BY DEF AreSchemas, Alike
  <2> QED BY <2>1 DEF IsSchema, Kept
<1>2. t \in [DOMAIN s -> {t[id] : id \in DOMAIN s}] /\ \A id \in DOMAIN s : Kept(s[id], t[id])
  BY DEF Alike
<1>3. DOMAIN t = DOMAIN s
  BY <1>2
<1>4. \A id \in DOMAIN s : Sers(s[id]) \subseteq Sers(t[id])
  BY <1>2 DEF Kept, Sers
<1> QED BY <1>1, <1>2, <1>3, <1>4 DEF Remade, Grown, Kept

\* What a property of a schema has to have.
IsProperty(p, ids) == {"ser", "schema"} \subseteq DOMAIN p /\ p.schema \in ids
Properties(seq, ids) == seq \in Seq(ToSet(seq)) /\ \A p \in ToSet(seq) : IsProperty(p, ids)

\* What is in a sequence over a set, and the sequence over what is in it.
LEMMA Contents ==
  ASSUME NEW T, NEW seq \in Seq(T)
  PROVE  seq \in Seq(ToSet(seq)) /\ ToSet(seq) \subseteq T /\ \A i \in DOMAIN seq : seq[i] \in ToSet(seq)
<1>1. Len(seq) \in Nat /\ DOMAIN seq = 1..Len(seq) /\ \A i \in DOMAIN seq : seq[i] \in T
  OBVIOUS
<1>2. ToSet(seq) \subseteq T /\ \A i \in DOMAIN seq : seq[i] \in ToSet(seq)
  BY <1>1 DEF ToSet
<1>3. seq \in Seq(ToSet(seq))
  <2> DEFINE S == ToSet(seq)
  <2>1. seq \in [1..Len(seq) -> S]
    BY <1>1, <1>2
  <2> HIDE DEF S
  <2>2. seq \in Seq(S)
    BY <1>1, <2>1
  <2> QED BY <2>2 DEF S
<1> QED BY <1>2, <1>3

\* What is kept of a sequence.
LEMMA ThoseElements ==
  ASSUME NEW T, NEW seq \in Seq(T), NEW positions
  PROVE  /\ Those(seq, positions) \in Seq(T)
         /\ ToSet(Those(seq, positions)) = {seq[i] : i \in DOMAIN seq \cap positions}
<1> DEFINE kept == Those(seq, positions)
<1>1. kept \in Seq(T) /\ Places(seq, positions, kept) # {}
  BY ThosePlaces
<1> HIDE DEF kept
<1>2. PICK e : e \in Places(seq, positions, kept)
  BY <1>1
<1>3. \A k \in DOMAIN kept : e[k] \in DOMAIN seq \cap positions /\ kept[k] = seq[e[k]]
  BY <1>2 DEF Places
<1>4. \A i \in DOMAIN seq \cap positions : \E k \in DOMAIN kept : e[k] = i
  BY <1>2 DEF Places
<1>5. ToSet(kept) = {seq[i] : i \in DOMAIN seq \cap positions}
  BY <1>3, <1>4 DEF ToSet
<1> QED BY <1>1, <1>5 DEF kept

\* The properties made of headers.
LEMMA HeaderPropertiesType ==
  ASSUME NEW T, NEW headers \in Seq(T), NEW ids, <<"string">> \in ids
  PROVE  Properties(HeaderProperties(headers), ids)
<1> DEFINE One(h) == [PlainProperty(h, h, <<"string">>) EXCEPT !.header = "Header"]
           one == [h \in T |-> One(h)]
           P == {One(h) : h \in T}
           new == HeaderProperties(headers)
<1>1. \A i \in DOMAIN headers : headers[i] \in T
  OBVIOUS
<1>2. \A i \in DOMAIN headers : one[headers[i]] \in P
  <2> HIDE DEF One
  <2> QED BY <1>1
<1>3. [i \in DOMAIN headers |-> one[headers[i]]] \in Seq(P)
  <2> HIDE DEF one, P
  <2> QED BY <1>2, Mapped
<1>4. new = [i \in DOMAIN headers |-> one[headers[i]]]
  <2>1. new = [i \in DOMAIN headers |-> One(headers[i])]
    BY DEF HeaderProperties
  <2> HIDE DEF One
  <2> QED BY <1>1, <2>1
<1>5. \A p \in P : IsProperty(p, ids)
  BY DEF PlainProperty, IsProperty
<1>6. new \in Seq(ToSet(new)) /\ ToSet(new) \subseteq P
  <2> HIDE DEF P, new, one
  <2> QED BY <1>3, <1>4, Contents
<1> HIDE DEF P, new
<1>7. Properties(new, ids)
  BY <1>5, <1>6 DEF Properties
<1> QED BY <1>7 DEF new

\* The schemas that an operation needs for headers.
LEMMA HeaderSchemasType ==
  ASSUME NEW ids, NEW op, IsCall(op, ids)
  PROVE  LET made == HeaderSchemas(op)
         IN /\ made \in Seq(ToSet(made))
            /\ \A each \in ToSet(made) : Properties(each.props, ids \cup {<<"string">>})
            /\ {each.id : each \in ToSet(made)}
               = {HeaderSchema(op, r) : r \in {x \in ToSet(op.responses) : NeedsHeaderSchema(x)}}
<1> DEFINE R == ToSet(op.responses)
           at == {i \in DOMAIN op.responses : NeedsHeaderSchema(op.responses[i])}
           needs == Those(op.responses, at)
           Make(r) == [id |-> HeaderSchema(op, r), props |-> HeaderProperties(r.headers)]
           make == [r \in R |-> Make(r)]
           made == HeaderSchemas(op)
<1>1. op.responses \in Seq(R) /\ \A r \in R : IsResponse(r, ids)
  BY DEF IsCall
<1>2. needs \in Seq(R) /\ ToSet(needs) = {op.responses[i] : i \in DOMAIN op.responses \cap at}
  <2> HIDE DEF R, at
  <2> QED BY <1>1, ThoseElements
<1>3. made = [i \in DOMAIN needs |-> Make(needs[i])]
  BY DEF HeaderSchemas, Filtered
<1> HIDE DEF needs, made
<1>4. \A i \in DOMAIN needs : needs[i] \in R
  <2> HIDE DEF R
  <2> QED BY <1>2
<1>5. made = [i \in DOMAIN needs |-> make[needs[i]]]
  <2> HIDE DEF R, Make
  <2> QED BY <1>3, <1>4
<1>6. made \in Seq({Make(r) : r \in R})
  <2> DEFINE M == {Make(r) : r \in R}
  <2>1. \A i \in DOMAIN needs : make[needs[i]] \in M
    <3> HIDE DEF R, Make
    <3> QED BY <1>4
  <2> HIDE DEF M, make, R
  <2>2. made \in Seq(M)
    BY <1>2, <1>5, <2>1, Mapped
  <2> QED BY <2>2 DEF M
<1>7. made \in Seq(ToSet(made)) /\ ToSet(made) \subseteq {Make(r) : r \in R}
  <2> HIDE DEF R, Make
  <2> QED BY <1>6, Contents
<1>8. ASSUME NEW r \in R PROVE Properties(Make(r).props, ids \cup {<<"string">>})
  <2>1. r.headers \in Seq(ToSet(r.headers))
    BY <1>1 DEF IsResponse
  <2>2. Properties(HeaderProperties(r.headers), ids \cup {<<"string">>})
    BY <2>1, HeaderPropertiesType
  <2> QED BY <2>2
<1>9. \A each \in ToSet(made) : Properties(each.props, ids \cup {<<"string">>})
  <2> HIDE DEF R, Make
  <2> QED BY <1>7, <1>8
<1>10. {each.id : each \in ToSet(made)} = {HeaderSchema(op, r) : r \in {x \in R : NeedsHeaderSchema(x)}}
  <2>1. ASSUME NEW k \in DOMAIN needs
        PROVE  needs[k] \in {x \in R : NeedsHeaderSchema(x)} /\ made[k].id = HeaderSchema(op, needs[k])
    <3>1. needs[k] \in ToSet(needs)
      BY DEF ToSet
    <3>2. \E i \in DOMAIN op.responses \cap at : needs[k] = op.responses[i]
      <4> HIDE DEF R, at
      <4> QED BY <1>2, <3>1
    <3>3. NeedsHeaderSchema(needs[k])
      BY <3>2
    <3> QED BY <1>3, <1>4, <3>3
  <2>2. ASSUME NEW r \in R, NeedsHeaderSchema(r) PROVE \E k \in DOMAIN needs : needs[k] = r
    <3>1. PICK i \in DOMAIN op.responses : op.responses[i] = r
      BY DEF ToSet
    <3>2. i \in DOMAIN op.responses \cap at
      BY <2>2, <3>1
    <3>3. r \in ToSet(needs)
      <4> HIDE DEF at, R
      <4> QED BY <1>2, <3>1, <3>2
    <3> QED BY <3>3 DEF ToSet
  <2>3. DOMAIN made = DOMAIN needs
    BY <1>3
  <2>4. ToSet(made) = {made[k] : k \in DOMAIN needs}
    BY <2>3 DEF ToSet
  <2> HIDE DEF R, Make, make, at
  <2>5. {each.id : each \in ToSet(made)} = {made[k].id : k \in DOMAIN needs}
    BY <2>4
  <2> DEFINE S == {x \in R : NeedsHeaderSchema(x)}
  <2>6. \A r \in S : \E k \in DOMAIN needs : needs[k] = r
    BY <2>2
  <2>7. \A k \in DOMAIN needs : needs[k] \in S /\ made[k].id = HeaderSchema(op, needs[k])
    BY <2>1
  <2> HIDE DEF S
  <2>8. {made[k].id : k \in DOMAIN needs} = {HeaderSchema(op, r) : r \in S}
    BY <2>6, <2>7
  <2> QED BY <2>5, <2>8 DEF S
<1> HIDE DEF R, Make, make
<1>11. /\ made \in Seq(ToSet(made))
       /\ \A each \in ToSet(made) : Properties(each.props, ids \cup {<<"string">>})
       /\ {each.id : each \in ToSet(made)} = {HeaderSchema(op, r) : r \in {x \in R : NeedsHeaderSchema(x)}}
  BY <1>7, <1>9, <1>10
<1> QED BY <1>11 DEF made, R

\* The schemas that a model needs for headers, and their names.
Needed(m) == FlattenSeq([i \in DOMAIN m.operations |-> HeaderSchemas(m.operations[i])])
NeededIds(m) == {Needed(m)[i].id : i \in DOMAIN Needed(m)}

LEMMA NeededType ==
  ASSUME NEW m, IsModel(m)
  PROVE  /\ Needed(m) \in Seq(ToSet(Needed(m)))
         /\ \A i \in DOMAIN Needed(m) : Properties(Needed(m)[i].props, DOMAIN m.schemas)
         /\ NeededIds(m) = UNION {{HeaderSchema(m.operations[i], r) :
                                     r \in {x \in ToSet(m.operations[i].responses) : NeedsHeaderSchema(x)}} :
                                    i \in DOMAIN m.operations}
<1> DEFINE ops == m.operations
           ids == DOMAIN m.schemas
           seqs == [i \in DOMAIN ops |-> HeaderSchemas(ops[i])]
           M == UNION {ToSet(seqs[i]) : i \in DOMAIN seqs}
           made == FlattenSeq(seqs)
           Of(i) == {HeaderSchema(ops[i], r) : r \in {x \in ToSet(ops[i].responses) : NeedsHeaderSchema(x)}}
<1>1. ids \cup {<<"string">>} = ids /\ AreCalls(ops, ids)
  BY ModelParts
<1>2. DOMAIN seqs = DOMAIN ops /\ Len(ops) \in Nat /\ DOMAIN ops = 1..Len(ops)
  BY <1>1 DEF AreCalls
<1>3. ASSUME NEW i \in DOMAIN ops
      PROVE  /\ seqs[i] \in Seq(ToSet(seqs[i])) /\ \A each \in ToSet(seqs[i]) : Properties(each.props, ids)
             /\ {each.id : each \in ToSet(seqs[i])} = Of(i)
  <2>1. IsCall(ops[i], ids)
    BY <1>1 DEF AreCalls
  <2> DEFINE made1 == HeaderSchemas(ops[i])
  <2>2. /\ made1 \in Seq(ToSet(made1)) /\ \A each \in ToSet(made1) : Properties(each.props, ids \cup {<<"string">>})
        /\ {each.id : each \in ToSet(made1)} = Of(i)
    <3> HIDE DEF ids, ops
    <3> QED BY <2>1, HeaderSchemasType
  <2>3. seqs[i] = made1
    OBVIOUS
  <2> HIDE DEF made1, seqs, Of, ids
  <2> QED BY <1>1, <2>2, <2>3
<1>4. seqs \in Seq(Seq(M))
  <2>1. ASSUME NEW i \in DOMAIN seqs PROVE seqs[i] \in Seq(M)
    <3>1. seqs[i] \in Seq(ToSet(seqs[i])) /\ ToSet(seqs[i]) \subseteq M
      <4> HIDE DEF seqs, Of, ops
      <4> QED BY <1>2, <1>3
    <3> HIDE DEF M, seqs
    <3> QED BY <3>1
  <2>2. seqs = [i \in 1..Len(ops) |-> seqs[i]]
    BY <1>2
  <2> HIDE DEF M, seqs
  <2>3. seqs \in [1..Len(ops) -> Seq(M)]
    BY <1>2, <2>1, <2>2
  <2> QED BY <1>2, <2>3
<1> HIDE DEF seqs
<1>5. made \in Seq(M) /\ ToSet(made) = M
  <2>1. made \in Seq(M) /\ ToSet(made) = UNION {ToSet(seqs[i]) : i \in DOMAIN seqs}
    <3> HIDE DEF M
    <3> QED BY <1>4, FlattenType
  <2> QED BY <2>1
<1>6. Needed(m) = made
  BY DEF Needed, seqs
<1> HIDE DEF made
<1>7. \A each \in M : Properties(each.props, ids)
  <2> HIDE DEF ops, ids, Of
  <2> QED BY <1>2, <1>3
<1>8. \A i \in DOMAIN made : made[i] \in M
  <2> HIDE DEF M
  <2> QED BY <1>5
<1>9. {each.id : each \in M} = UNION {Of(i) : i \in DOMAIN ops}
  <2>1. \A i \in DOMAIN ops : {each.id : each \in ToSet(seqs[i])} = Of(i)
    BY <1>3
  <2> HIDE DEF Of, ops, ids
  <2> QED BY <1>2, <2>1
<1>10. {made[i].id : i \in DOMAIN made} = {each.id : each \in M}
  <2>1. M = {made[i] : i \in DOMAIN made}
    BY <1>5 DEF ToSet
  <2> HIDE DEF M
  <2> QED BY <2>1
<1> HIDE DEF M, Of, ops, ids
<1> QED BY <1>5, <1>6, <1>7, <1>8, <1>9, <1>10 DEF NeededIds, ops, Of, ids

\* What the new schemas are.
LEMMA HeaderSchemaType ==
  ASSUME NEW m, IsModel(m), NEW id \in NeededIds(m)
  PROVE  LET All == FlattenSeq([i \in DOMAIN Filtered(Needed(m), LAMBDA each : each.id = id) |->
                       Filtered(Needed(m), LAMBDA each : each.id = id)[i].props])
         IN Properties(All, DOMAIN m.schemas)
<1> DEFINE ids == DOMAIN m.schemas
           made == Needed(m)
           M == ToSet(made)
           at == {i \in DOMAIN made : made[i].id = id}
           same == Those(made, at)
           P == {p \in UNION {ToSet(each.props) : each \in M} : IsProperty(p, ids)}
           seqs == [i \in DOMAIN same |-> same[i].props]
           props == [each \in M |-> each.props]
<1>1. made \in Seq(M) /\ \A each \in M : Properties(each.props, ids)
  <2>1. \A each \in M : \E i \in DOMAIN made : each = made[i]
    BY DEF ToSet
  <2> HIDE DEF made
  <2> QED BY <2>1, NeededType DEF made
<1>2. same \in Seq(M)
  <2> HIDE DEF M, made, at
  <2> QED BY <1>1, ThoseElements
<1>3. ASSUME NEW each \in M PROVE each.props \in Seq(P)
  <2>1. each.props \in Seq(ToSet(each.props)) /\ \A p \in ToSet(each.props) : IsProperty(p, ids)
    BY <1>1 DEF Properties
  <2>2. ToSet(each.props) \subseteq P
    <3> HIDE DEF M
    <3> QED BY <2>1
  <2> HIDE DEF P, M
  <2> QED BY <2>1, <2>2
<1> HIDE DEF same
<1>4. \A i \in DOMAIN same : same[i] \in M
  <2> HIDE DEF M
  <2> QED BY <1>2
<1>5. [i \in DOMAIN same |-> props[same[i]]] \in Seq(Seq(P))
  <2>1. \A i \in DOMAIN same : props[same[i]] \in Seq(P)
    <3> HIDE DEF M, P
    <3> QED BY <1>3, <1>4
  <2> DEFINE Q == Seq(P)
  <2> HIDE DEF M, Q, props
  <2>2. [i \in DOMAIN same |-> props[same[i]]] \in Seq(Q)
    BY <1>2, <2>1, Mapped DEF Q
  <2> QED BY <2>2 DEF Q
<1>6. seqs = [i \in DOMAIN same |-> props[same[i]]]
  <2> HIDE DEF M
  <2> QED BY <1>4
<1>7. FlattenSeq(seqs) \in Seq(P)
  <2> HIDE DEF P, seqs, props, M
  <2> QED BY <1>5, <1>6, FlattenType
<1>8. Properties(FlattenSeq(seqs), ids)
  <2> DEFINE all == FlattenSeq(seqs)
  <2>1. \A p \in P : IsProperty(p, ids)
    OBVIOUS
  <2> HIDE DEF all, P
  <2>2. Properties(all, ids)
    <3>1. all \in Seq(ToSet(all)) /\ ToSet(all) \subseteq P
      BY <1>7, Contents DEF all
    <3> QED BY <2>1, <3>1 DEF Properties
  <2> QED BY <2>2 DEF all
<1> QED BY <1>8 DEF Filtered, same

\* The first step of the first plugin: the schemas of headers are new, the others are
\* what they were.
LEMMA HeadersAdded ==
  ASSUME NEW m, Grounded(m)
  PROVE  LET n == AddResponseHeaderSchema(m)
         IN /\ Becomes(m, n)
            /\ DOMAIN n.schemas = DOMAIN m.schemas \cup NeededIds(m)
            /\ \A id \in DOMAIN m.schemas \ NeededIds(m) : n.schemas[id] = m.schemas[id]
            /\ \A id \in NeededIds(m) : n.schemas[id].parents = <<>>
            /\ \A i \in DOMAIN m.operations : n.operations[i].params = m.operations[i].params
<1> DEFINE n == AddResponseHeaderSchema(m)
           s == m.schemas
           t == n.schemas
           ids == DOMAIN s
           new == NeededIds(m)
           both == ids \cup new
           made == Needed(m)
           All(id) == FlattenSeq([i \in DOMAIN Filtered(made, LAMBDA each : each.id = id) |->
                                    Filtered(made, LAMBDA each : each.id = id)[i].props])
           Headers(id) == [PlainSchema("object", id) EXCEPT !.props = All(id)]
           names == [i \in DOMAIN made |-> made[i].id]
           ops == m.operations
<1>1. IsModel(m) /\ Fields \subseteq DOMAIN m
  BY ModelParts DEF Grounded
<1>2. /\ Fields \subseteq DOMAIN n
      /\ n.objects = m.objects \o names /\ n.others = m.others
      /\ t = [id \in both |-> IF id \in new THEN Headers(id) ELSE s[id]]
      /\ n.operations = [i \in DOMAIN ops |-> ReferToHeaders(ops[i])]
  BY <1>1 DEF AddResponseHeaderSchema, EachOperation, Fields, NeededIds, Needed
<1>3. /\ AreSchemas(s) /\ <<"string">> \in ids
      /\ m.objects \in Seq(ids) /\ ToSet(m.objects) = {id \in ids : s[id].type = "object"}
      /\ m.others \in Seq(ids) /\ AreCalls(ops, ids)
  BY <1>1, ModelParts
<1>4. ASSUME NEW id \in new PROVE IsSchema(Headers(id), both) /\ Headers(id).type = "object" /\ Headers(id).parents = <<>>
  <2>1. Properties(All(id), ids)
    BY <1>1, HeaderSchemaType
  <2> HIDE DEF All
  <2>2. Properties(All(id), both)
    BY <2>1 DEF Properties, IsProperty
  <2> DEFINE P == PlainSchema("object", id)
  <2>3. /\ DOMAIN P = DOMAIN PlainSchema("any", <<>>) /\ P.type = "object" /\ P.parents = <<>>
        /\ {"type", "parents", "props"} \subseteq DOMAIN P
    BY DEF PlainSchema
  <2> HIDE DEF P
  <2>4. /\ DOMAIN Headers(id) = DOMAIN PlainSchema("any", <<>>) /\ Headers(id).type = "object"
        /\ Headers(id).parents = <<>> /\ Headers(id).props = All(id)
    BY <2>3 DEF P
  <2>5. <<>> \in Seq(both)
    OBVIOUS
  <2> HIDE DEF Headers, both
  <2> QED BY <2>2, <2>4, <2>5 DEF IsSchema, Properties, IsProperty
<1> HIDE DEF Headers, n
<1>5. \A id \in ids : IsSchema(s[id], both)
  <2>1. \A seq \in Seq(ids) : seq \in Seq(both)
    OBVIOUS
  <2>2. \A id \in ids : id \in both
    OBVIOUS
  <2>3. \A id \in ids : IsSchema(s[id], ids)
    BY <1>3 DEF AreSchemas
  <2> HIDE DEF both, ids
  <2> QED BY <2>1, <2>2, <2>3 DEF IsSchema
<1>6. DOMAIN t = both /\ (\A id \in new : t[id] = Headers(id)) /\ \A id \in ids \ new : t[id] = s[id]
  BY <1>2
<1> HIDE DEF both
<1>7. both = ids \cup new /\ \A id \in both : IsSchema(t[id], both)
  BY <1>4, <1>5, <1>6 DEF both
<1>8. names \in Seq(both) /\ ToSet(names) = new
  <2>1. made \in Seq(ToSet(made))
    BY <1>1, NeededType
  <2>2. \A i \in DOMAIN made : made[i].id \in new
    BY DEF NeededIds
  <2>3. Len(made) \in Nat /\ DOMAIN made = 1..Len(made) /\ names = [i \in 1..Len(made) |-> made[i].id]
    BY <2>1
  <2>4. names \in [1..Len(made) -> both]
    <3> HIDE DEF names, made, new, ids
    <3> QED BY <1>7, <2>2, <2>3
  <2>5. names \in Seq(both)
    <3> HIDE DEF names, made, new, ids
    <3> QED BY <2>3, <2>4
  <2>6. ToSet(names) = new
    BY DEF NeededIds, ToSet
  <2> QED BY <2>5, <2>6
<1> HIDE DEF names
<1>9. n.objects \in Seq(both) /\ ToSet(n.objects) = ToSet(m.objects) \cup new
  <2>1. m.objects \in Seq(both)
    BY <1>3, <1>7
  <2> QED BY <1>2, <1>8, <2>1, Concatenation
<1>10. ToSet(n.objects) = {id \in both : t[id].type = "object"}
  <2> HIDE DEF ids, s, t, new
  <2> QED BY <1>3, <1>4, <1>6, <1>7, <1>9
<1>11. m.others \in Seq(both)
  BY <1>3, <1>7
<1>12. ASSUME NEW i \in DOMAIN ops
       PROVE  /\ IsCall(ReferToHeaders(ops[i]), both) /\ ReferToHeaders(ops[i]).id = ops[i].id
              /\ ReferToHeaders(ops[i]).params = ops[i].params
  <2> DEFINE op == ops[i]
             Named(r) == IF NeedsHeaderSchema(r)
                         THEN [r EXCEPT !.headerSchema = HeaderSchema(op, r)] ELSE r
             seq == [j \in DOMAIN op.responses |-> Named(op.responses[j])]
             after == ReferToHeaders(op)
  <2>1. IsCall(op, ids)
    BY <1>3 DEF AreCalls
  <2>2. after = [op EXCEPT !.responses = seq]
    BY DEF ReferToHeaders
  <2>3. /\ after.id = op.id /\ after.params = op.params /\ after.exceptions = op.exceptions
        /\ after.responses = seq /\ DOMAIN after = DOMAIN op
    <3> HIDE DEF op, seq, after
    <3> QED BY <2>1, <2>2 DEF IsCall
  <2>4. ASSUME NEW r, IsResponse(r, ids) PROVE IsResponse(r, both)
    BY <1>7, <2>4 DEF IsResponse
  <2>5. ASSUME NEW j \in DOMAIN op.responses PROVE IsResponse(Named(op.responses[j]), both)
    <3> DEFINE r == op.responses[j]
    <3>1. r \in ToSet(op.responses)
      BY DEF ToSet
    <3>2. IsResponse(r, ids)
      <4> HIDE DEF r, op
      <4> QED BY <2>1, <3>1 DEF IsCall
    <3>3. NeedsHeaderSchema(r) => HeaderSchema(op, r) \in both
      <4>1. NeedsHeaderSchema(r) => r \in {x \in ToSet(op.responses) : NeedsHeaderSchema(x)}
        BY <3>1
      <4>2. NeedsHeaderSchema(r) => HeaderSchema(op, r) \in new
        BY <1>1, <4>1, NeededType
      <4> QED BY <1>7, <4>2
    <3> HIDE DEF r, op
    <3>4. \A h \in both : IsResponse([r EXCEPT !.headerSchema = h], both)
      BY <2>4, <3>2 DEF IsResponse
    <3> QED BY <2>4, <3>2, <3>3, <3>4 DEF r
  <2>6. op.responses \in Seq(ToSet(op.responses)) /\ op.exceptions \in Seq(ToSet(op.exceptions))
    BY <2>1 DEF IsCall
  <2> HIDE DEF Named
  <2>7. seq \in Seq({Named(op.responses[j]) : j \in DOMAIN op.responses})
    <3> DEFINE N == {Named(op.responses[j]) : j \in DOMAIN op.responses}
               k == Len(op.responses)
    <3>1. k \in Nat /\ DOMAIN op.responses = 1..k
      BY <2>6
    <3>2. seq \in [1..k -> N]
      <4> HIDE DEF k, op
      <4> QED BY <3>1
    <3> HIDE DEF N, k, seq, op
    <3>3. seq \in Seq(N)
      BY <3>1, <3>2
    <3> QED BY <3>3 DEF N
  <2>8. seq \in Seq(ToSet(seq)) /\ \A r \in ToSet(seq) : IsResponse(r, both)
    <3> HIDE DEF seq, op
    <3>1. seq \in Seq(ToSet(seq)) /\ ToSet(seq) \subseteq {Named(op.responses[j]) : j \in DOMAIN op.responses}
      BY <2>7, Contents
    <3> QED BY <2>5, <3>1
  <2>9. \A r \in ToSet(op.exceptions) : IsResponse(r, both)
    <3> HIDE DEF op
    <3> QED BY <2>1, <2>4 DEF IsCall
  <2> HIDE DEF op, seq, after
  <2>10. IsCall(after, both)
    BY <2>1, <2>3, <2>6, <2>8, <2>9 DEF IsCall
  <2> QED BY <2>3, <2>10 DEF op, after
<1>13. AreCalls(n.operations, both) /\ SameOps(ops, n.operations)
  <2> DEFINE after == n.operations
  <2> HIDE DEF ops, s, ids
  <2>1. after = [i \in DOMAIN ops |-> after[i]] /\ \A i \in DOMAIN ops : after[i] = ReferToHeaders(ops[i])
    BY <1>2
  <2> HIDE DEF after
  <2>2. \A i \in DOMAIN ops : IsCall(after[i], both) /\ after[i].id = ops[i].id
    BY <1>12, <2>1
  <2>3. ops \in Seq(ToSet(ops)) /\ after = [i \in DOMAIN ops |-> after[i]]
    BY <1>3, <2>1 DEF AreCalls
  <2>4. AreCalls(after, both) /\ SameOps(ops, after)
    BY SMTT(20), <2>2, <2>3, CallsMade
  <2> QED BY <2>4 DEF after
<1>14. \A i \in DOMAIN ops : n.operations[i].params = ops[i].params
  BY <1>2, <1>12
<1>15. IsModel(n)
  <2>1. t \in [both -> {t[id] : id \in both}]
    BY <1>2, <1>6
  <2>2. \A op \in ToSet(n.operations) : IsCall(op, both)
    BY <1>13 DEF AreCalls, ToSet
  <2>3. <<"string">> \in both
    BY <1>3, <1>7
  <2> HIDE DEF s, ids, new, ops, made
  <2> QED BY <1>2, <1>6, <1>7, <1>9, <1>10, <1>11, <1>13, <2>1, <2>2, <2>3 DEF IsModel, Fields, AreCalls
<1>16. Depths(t) # {}
  <2>1. PICK depth \in [ids -> Nat] : \A id \in ids : \A p \in ToSet(s[id].parents) : depth[p] < depth[id]
    BY DEF Grounded, Depths
  <2> DEFINE more == [id \in both |-> IF id \in ids THEN depth[id] ELSE 0]
  <2>2. more \in [both -> Nat]
    BY <2>1
  <2>3. ASSUME NEW id \in both, NEW p \in ToSet(t[id].parents) PROVE more[p] < more[id]
    <3>1. ToSet(<<>>) = {}
      BY DEF ToSet
    <3>2. id \in ids \ new /\ t[id].parents = s[id].parents
      <4> HIDE DEF ids, new, s, t
      <4> QED BY <1>4, <1>6, <1>7, <2>3, <3>1
    <3>3. p \in ids
      <4>1. s[id].parents \in Seq(ids)
        BY <1>3, <3>2, Parents
      <4>2. ToSet(s[id].parents) \subseteq ids
        <5> HIDE DEF ids, s
        <5> QED BY <4>1, Contents
      <4> QED BY <2>3, <3>2, <4>2
    <3>4. depth[p] < depth[id]
      BY <2>1, <2>3, <3>2
    <3> HIDE DEF ids, s, t, new
    <3> QED BY <1>7, <3>2, <3>3, <3>4
  <2> HIDE DEF more, t
  <2>4. more \in Depths(t)
    BY <1>6, <2>2, <2>3 DEF Depths
  <2> QED BY <2>4
<1>17. /\ Becomes(m, n) /\ DOMAIN t = ids \cup new /\ (\A id \in ids \ new : t[id] = s[id])
       /\ \A id \in new : t[id].parents = <<>>
       /\ \A i \in DOMAIN ops : n.operations[i].params = ops[i].params
  <2> HIDE DEF s, ids, new, made
  <2> QED BY <1>4, <1>6, <1>7, <1>13, <1>14, <1>15, <1>16 DEF Becomes, Grounded
<1> QED BY <1>17 DEF n

\* A plugin that changes nothing but schemas.
LEMMA OnlySchemas ==
  ASSUME NEW m, Grounded(m), NEW t, Remade(m.schemas, t)
  PROVE  LET n == [m EXCEPT !.schemas = t]
         IN Becomes(m, n) /\ n.schemas = t /\ n.operations = m.operations /\ n.objects = m.objects
<1> DEFINE n == [m EXCEPT !.schemas = t]
<1>1. IsModel(m) /\ Fields \subseteq DOMAIN m /\ AreCalls(m.operations, DOMAIN m.schemas)
  BY ModelParts DEF Grounded
<1>2. /\ Fields \subseteq DOMAIN n /\ n.schemas = t /\ n.operations = m.operations
      /\ n.objects = m.objects /\ n.others = m.others
  BY <1>1 DEF Fields
<1> HIDE DEF n
<1>3. SameOps(m.operations, n.operations)
  BY <1>2 DEF SameOps
<1>4. Becomes(m, n)
  BY <1>1, <1>2, <1>3, ModelRemade
<1> QED BY <1>2, <1>4 DEF n

\* Fields that no theorem is about can be set in any schema.
LEMMA AlikeEach ==
  ASSUME NEW s, AreSchemas(s), NEW t, t = [id \in DOMAIN s |-> t[id]],
         \A id \in DOMAIN s : Kept(s[id], t[id])
  PROVE  Alike(s, t) /\ AreSchemas(t) /\ Remade(s, t) /\ Grown(s, t)
<1>1. Alike(s, t)
  BY DEF Alike
<1>2. Remade(s, t) /\ Grown(s, t)
  BY <1>1, AlikeRemade
<1> QED BY <1>1, <1>2 DEF Remade, AreSchemas

\* Dictionaries get versions,
LEMMA VersionsAdded ==
  ASSUME NEW m, Grounded(m)
  PROVE  LET n == AddDictionaryApiVersion(m)
         IN Becomes(m, n) /\ Alike(m.schemas, n.schemas) /\ n.operations = m.operations
<1> DEFINE s == m.schemas
           Dictionary(id) == s[id].type = "dictionary" /\ s[id].versions = {}
           FromElement(id) == IF Dictionary(id) /\ s[id].element # <<>>
                              THEN s[s[id].element].versions ELSE s[id].versions
           elements == [id \in DOMAIN s |-> [s[id] EXCEPT !.versions = FromElement(id)]]
           end == FoldLeft(VersionsFromObject, elements, m.objects)
<1>1. AreSchemas(s) /\ m.objects \in Seq(DOMAIN s) /\ Fields \subseteq DOMAIN m
  BY ModelParts DEF Grounded
<1>2. AddDictionaryApiVersion(m) = [m EXCEPT !.schemas = end]
  BY <1>1 DEF AddDictionaryApiVersion, Fields
<1>3. Alike(s, elements) /\ AreSchemas(elements) /\ elements = [id \in DOMAIN elements |-> elements[id]]
  <2> HIDE DEF FromElement
  <2>1. ASSUME NEW id \in DOMAIN s PROVE Kept(s[id], elements[id])
    <3>1. {"type", "parents", "props"} \subseteq DOMAIN s[id]
      BY <1>1 DEF AreSchemas, IsSchema, PlainSchema
    <3>2. elements[id] = [s[id] EXCEPT !.versions = FromElement(id)]
      OBVIOUS
    <3> HIDE DEF elements, s
    <3> QED BY <3>1, <3>2 DEF Kept
  <2>2. elements = [id \in DOMAIN s |-> elements[id]] /\ DOMAIN elements = DOMAIN s
    OBVIOUS
  <2> HIDE DEF elements, s
  <2> QED BY <1>1, <2>1, <2>2, AlikeEach
<1> HIDE DEF elements
<1>4. Alike(elements, end)
  <2>1. DOMAIN elements = DOMAIN s
    BY <1>3 DEF Alike
  <2> HIDE DEF s
  <2> QED BY <1>1, <1>3, <2>1, VersionsKept
<1> HIDE DEF end
<1>5. Alike(s, end)
  <2> HIDE DEF s
  <2> QED BY <1>3, <1>4 DEF Alike, Kept
<1>6. Remade(s, end)
  <2> HIDE DEF s
  <2> QED BY <1>1, <1>5, AlikeRemade
<1>7. /\ Becomes(m, [m EXCEPT !.schemas = end]) /\ [m EXCEPT !.schemas = end].schemas = end
      /\ [m EXCEPT !.schemas = end].operations = m.operations
  BY <1>6, OnlySchemas
<1> QED BY <1>2, <1>5, <1>7

\* objects are marked,
LEMMA NoInlineMarked ==
  ASSUME NEW m, Grounded(m)
  PROVE  LET n == HandleNoInline(m)
         IN Becomes(m, n) /\ Alike(m.schemas, n.schemas) /\ n.operations = m.operations
<1> DEFINE s == m.schemas
           Marked(id) == IF id \in ToSet(m.objects) /\ s[id].name \in NoInline
                         THEN [s[id] EXCEPT !.skipInline = TRUE] ELSE s[id]
           t == [id \in DOMAIN s |-> Marked(id)]
<1>1. AreSchemas(s) /\ Fields \subseteq DOMAIN m
  BY ModelParts DEF Grounded
<1>2. HandleNoInline(m) = [m EXCEPT !.schemas = t]
  BY <1>1 DEF HandleNoInline, Fields
<1>3. ASSUME NEW id \in DOMAIN s PROVE Kept(s[id], t[id])
  <2>1. {"type", "parents", "props"} \subseteq DOMAIN s[id]
    BY <1>1 DEF AreSchemas, IsSchema, PlainSchema
  <2>2. t[id] = Marked(id)
    OBVIOUS
  <2> HIDE DEF t
  <2> QED BY <2>1, <2>2 DEF Kept
<1>4. t = [id \in DOMAIN s |-> t[id]]
  OBVIOUS
<1> HIDE DEF t
<1>5. Alike(s, t) /\ Remade(s, t)
  <2> HIDE DEF s
  <2> QED BY <1>1, <1>3, <1>4, AlikeEach
<1>6. /\ Becomes(m, [m EXCEPT !.schemas = t]) /\ [m EXCEPT !.schemas = t].schemas = t
      /\ [m EXCEPT !.schemas = t].operations = m.operations
  BY <1>5, OnlySchemas
<1> QED BY <1>2, <1>5, <1>6

\* All of the first plugin: a model becomes another, which has the same parameters and
\* all schemas that are not those of headers.
HasParameters(m) == \A i \in DOMAIN m.operations : IsParameterized(m.operations[i], DOMAIN m.schemas)

LEMMA TweakM4Grounded ==
  ASSUME NEW m, Grounded(m)
  PROVE  LET n == TweakM4(m)
         IN /\ Becomes(m, n)
            /\ HasParameters(m) => HasParameters(n)
            /\ DOMAIN n.schemas = DOMAIN m.schemas \cup NeededIds(m)
            /\ \A id \in DOMAIN m.schemas \ NeededIds(m) : Kept(m.schemas[id], n.schemas[id])
            /\ \A id \in NeededIds(m) : n.schemas[id].parents = <<>>
<1> DEFINE a == AddResponseHeaderSchema(m)
           b == AddDictionaryApiVersion(a)
           c == HandleNoInline(b)
<1>1. /\ Becomes(m, a)
      /\ DOMAIN a.schemas = DOMAIN m.schemas \cup NeededIds(m)
      /\ \A id \in DOMAIN m.schemas \ NeededIds(m) : a.schemas[id] = m.schemas[id]
      /\ \A id \in NeededIds(m) : a.schemas[id].parents = <<>>
      /\ \A i \in DOMAIN m.operations : a.operations[i].params = m.operations[i].params
  BY HeadersAdded
<1> HIDE DEF a
<1>2. Becomes(a, b) /\ Alike(a.schemas, b.schemas) /\ b.operations = a.operations
  BY <1>1, VersionsAdded DEF Becomes
<1> HIDE DEF b
<1>3. Becomes(b, c) /\ Alike(b.schemas, c.schemas) /\ c.operations = b.operations
  BY <1>2, NoInlineMarked DEF Becomes
<1> HIDE DEF c
<1>4. DOMAIN b.schemas = DOMAIN a.schemas /\ DOMAIN c.schemas = DOMAIN b.schemas
  BY <1>2, <1>3 DEF Alike
<1>5. Becomes(m, c)
  BY <1>1, <1>2, <1>3 DEF Becomes, SameOps
<1>6. ASSUME HasParameters(m) PROVE HasParameters(c)
  <2>1. DOMAIN c.operations = DOMAIN m.operations
    BY <1>5 DEF Becomes, SameOps
  <2>2. \A i \in DOMAIN m.operations : c.operations[i].params = m.operations[i].params
    BY <1>1, <1>2, <1>3
  <2>3. DOMAIN m.schemas \subseteq DOMAIN c.schemas
    BY <1>1, <1>4
  <2> QED BY <1>6, <2>1, <2>2, <2>3 DEF HasParameters, IsParameterized
<1>7. ASSUME NEW id \in DOMAIN m.schemas \ NeededIds(m) PROVE Kept(m.schemas[id], c.schemas[id])
  <2>1. a.schemas[id] = m.schemas[id] /\ id \in DOMAIN a.schemas
    BY <1>1
  <2>2. Kept(a.schemas[id], b.schemas[id]) /\ Kept(b.schemas[id], c.schemas[id])
    BY <1>2, <1>3, <1>4, <2>1 DEF Alike
  <2> QED BY <2>1, <2>2 DEF Kept
<1>8. ASSUME NEW id \in NeededIds(m) PROVE c.schemas[id].parents = <<>>
  <2>1. a.schemas[id].parents = <<>> /\ id \in DOMAIN a.schemas
    BY <1>1
  <2>2. Kept(a.schemas[id], b.schemas[id]) /\ Kept(b.schemas[id], c.schemas[id])
    BY <1>2, <1>3, <1>4, <2>1 DEF Alike
  <2> QED BY <2>1, <2>2 DEF Kept
<1>9. TweakM4(m) = c
  BY DEF TweakM4, a, b, c
<1> QED BY <1>1, <1>4, <1>5, <1>6, <1>7, <1>8, <1>9

\* The parameters of the identity: what is made of those in paths.
LEMMA IdentityProperties ==
  ASSUME NEW ids, NEW T, NEW seq \in Seq(T), \A p \in T : p.schema \in ids
  PROVE  Properties(FoldLeft(AddToIdentity, <<>>, seq), ids)
<1> DEFINE P == {PlainProperty(p.ser, p.name, p.schema) : p \in T}
           D == Seq(P)
           end == FoldLeft(AddToIdentity, <<>>, seq)
<1>1. <<>> \in D
  OBVIOUS
<1>2. ASSUME NEW d \in D, NEW p \in T PROVE AddToIdentity(d, p) \in D
  <2>1. PlainProperty(p.ser, p.name, p.schema) \in P
    OBVIOUS
  <2> HIDE DEF P
  <2> QED BY <2>1 DEF AddToIdentity
<1> HIDE DEF D
<1>3. end \in D
  <2>1. end \in Ends(D, <<>>, seq, [each \in D \X T |-> AddToIdentity(each[1], each[2])])
    BY <1>1, <1>2, IdentityLoop
  <2> QED BY <1>1, <2>1, EndsType
<1>4. \A p \in P : IsProperty(p, ids)
  BY DEF PlainProperty, IsProperty
<1> HIDE DEF end, P
<1>5. Properties(end, ids)
  <2>1. end \in Seq(ToSet(end)) /\ ToSet(end) \subseteq P
    BY <1>3, Contents DEF D
  <2> QED BY <1>4, <2>1 DEF Properties
<1> QED BY <1>5 DEF end

\* A plugin that adds a schema without parents.
LEMMA SchemaAdded ==
  ASSUME NEW m, Grounded(m), NEW id, NEW schema,
         IsSchema(schema, DOMAIN m.schemas \cup {id}), schema.type = "object", schema.parents = <<>>
  PROVE  Becomes(m, [m EXCEPT !.objects = Append(@, id), !.schemas = With(@, id, schema)])
<1> DEFINE n == [m EXCEPT !.objects = Append(@, id), !.schemas = With(@, id, schema)]
           s == m.schemas
           t == With(s, id, schema)
           ids == DOMAIN s
           both == ids \cup {id}
<1>1. IsModel(m) /\ Fields \subseteq DOMAIN m
  BY ModelParts DEF Grounded
<1>2. /\ AreSchemas(s) /\ <<"string">> \in ids
      /\ m.objects \in Seq(ids) /\ ToSet(m.objects) = {x \in ids : s[x].type = "object"}
      /\ m.others \in Seq(ids) /\ AreCalls(m.operations, ids)
  BY <1>1, ModelParts
<1>3. /\ Fields \subseteq DOMAIN n /\ n.objects = Append(m.objects, id) /\ n.schemas = t
      /\ n.operations = m.operations /\ n.others = m.others
  BY <1>1 DEF Fields
<1> HIDE DEF n
<1>4. DOMAIN t = both /\ t[id] = schema /\ \A x \in ids \ {id} : t[x] = s[x]
  BY DEF With
<1>5. t \in [both -> {t[x] : x \in both}]
  BY DEF With
<1> HIDE DEF t
<1>6. \A x \in both : IsSchema(t[x], both)
  <2>1. \A seq \in Seq(ids) : seq \in Seq(both)
    OBVIOUS
  <2>2. \A x \in ids : x \in both
    OBVIOUS
  <2>3. \A x \in ids : IsSchema(s[x], ids)
    BY <1>2 DEF AreSchemas
  <2>4. \A x \in both : x = id \/ x \in ids \ {id}
    OBVIOUS
  <2> HIDE DEF both, ids
  <2>5. ASSUME NEW x \in ids PROVE IsSchema(s[x], both)
    BY <2>1, <2>2, <2>3 DEF IsSchema
  <2>6. IsSchema(schema, both)
    BY DEF both, ids
  <2> QED BY <1>4, <2>4, <2>5, <2>6
<1>7. n.objects \in Seq(both) /\ ToSet(n.objects) = ToSet(m.objects) \cup {id}
  <2> DEFINE one == <<id>>
             objects == m.objects
  <2>1. objects \in Seq(both) /\ one \in Seq(both) /\ ToSet(one) = {id}
    BY <1>2 DEF ToSet
  <2>2. n.objects = objects \o one
    BY <1>2, <1>3
  <2> HIDE DEF both, ids, one, objects
  <2>3. objects \o one \in Seq(both) /\ ToSet(objects \o one) = ToSet(objects) \cup ToSet(one)
    BY <2>1, Concatenation
  <2> QED BY <2>1, <2>2, <2>3 DEF objects
<1>8. ToSet(n.objects) = {x \in both : t[x].type = "object"}
  <2> HIDE DEF s
  <2> QED BY <1>2, <1>4, <1>7
<1>9. m.others \in Seq(both)
  BY <1>2
<1>10. \A op \in ToSet(m.operations) : IsCall(op, both)
  <2>1. \A op \in ToSet(m.operations) : IsCall(op, ids)
    BY <1>2 DEF AreCalls, ToSet
  <2>2. ASSUME NEW r, IsResponse(r, ids) PROVE IsResponse(r, both)
    BY <2>2 DEF IsResponse
  <2> HIDE DEF both, ids
  <2> QED BY <2>1, <2>2 DEF IsCall
<1>11. IsModel(n)
  <2>1. <<"string">> \in both /\ m.operations \in Seq(ToSet(m.operations))
    BY <1>2 DEF AreCalls
  <2> HIDE DEF s, both
  <2> QED BY <1>3, <1>4, <1>5, <1>6, <1>7, <1>8, <1>9, <1>10, <2>1 DEF IsModel, Fields
<1>12. Depths(t) # {}
  <2>1. PICK depth \in [ids -> Nat] : \A x \in ids : \A p \in ToSet(s[x].parents) : depth[p] < depth[x]
    BY DEF Grounded, Depths
  <2> DEFINE more == [x \in both |-> IF x \in ids THEN depth[x] ELSE 0]
  <2>2. more \in [both -> Nat]
    BY <2>1
  <2>3. ASSUME NEW x \in both, NEW p \in ToSet(t[x].parents) PROVE more[p] < more[x]
    <3>1. ToSet(<<>>) = {}
      BY DEF ToSet
    <3>2. x \in ids \ {id} /\ t[x].parents = s[x].parents
      <4> HIDE DEF ids, s
      <4> QED BY <1>4, <2>3, <3>1
    <3>3. p \in ids
      <4>1. s[x].parents \in Seq(ids)
        BY <1>2, <3>2, Parents
      <4>2. ToSet(s[x].parents) \subseteq ids
        <5> HIDE DEF ids, s
        <5> QED BY <4>1, Contents
      <4> QED BY <2>3, <3>2, <4>2
    <3>4. depth[p] < depth[x]
      BY <2>1, <2>3, <3>2
    <3> HIDE DEF ids, s
    <3> QED BY <3>2, <3>3, <3>4
  <2> HIDE DEF more
  <2>4. more \in Depths(t)
    BY <1>4, <2>2, <2>3 DEF Depths
  <2> QED BY <2>4
<1>13. Becomes(m, n)
  BY <1>3, <1>11, <1>12 DEF Becomes, Grounded, SameOps
<1> QED BY <1>13 DEF n

\* The identity is a schema of the model.
LEMMA IdentityAdded ==
  ASSUME NEW m, Grounded(m), HasParameters(m)
  PROVE  LET n == UniversalId(m)
         IN /\ Becomes(m, n) /\ n.operations = m.operations
            /\ DOMAIN n.schemas = DOMAIN m.schemas \cup {Identity}
            /\ \A id \in DOMAIN m.schemas \ {Identity} : n.schemas[id] = m.schemas[id]
            /\ n.schemas[Identity].parents = <<>>
<1> DEFINE ids == DOMAIN m.schemas
           ops == m.operations
           InPath(i) == {j \in DOMAIN ops[i].params : ops[i].params[j].in = "path"}
           seqs == [i \in DOMAIN ops |-> Those(ops[i].params, InPath(i))]
           T == {p \in UNION {ToSet(ops[i].params) : i \in DOMAIN ops} : p.schema \in ids}
           paths == FlattenSeq(seqs)
           props == FoldLeft(AddToIdentity, <<>>, paths)
           id == IF Azure THEN <<PlainProperty(<<"id">>, <<"id">>, <<"string">>)>> ELSE <<>>
           schema == [PlainSchema("object", Identity) EXCEPT !.props = props \o id,
                                                            !.uid = "universal-parameter-type"]
           n == [m EXCEPT !.objects = Append(@, Identity), !.schemas = With(@, Identity, schema)]
<1>1. UniversalId(m) = n
  BY DEF UniversalId, Filtered
<1>2. IsModel(m) /\ <<"string">> \in ids /\ AreCalls(ops, ids) /\ Fields \subseteq DOMAIN m
  BY ModelParts DEF Grounded
<1>3. ASSUME NEW i \in DOMAIN ops PROVE ops[i].params \in Seq(T)
  <2>1. ops[i].params \in Seq(ToSet(ops[i].params)) /\ \A p \in ToSet(ops[i].params) : p.schema \in ids
    BY DEF HasParameters, IsParameterized
  <2>2. ToSet(ops[i].params) \subseteq T
    <3> HIDE DEF ids, ops
    <3> QED BY <2>1
  <2> HIDE DEF T, ops
  <2> QED BY <2>1, <2>2
<1>4. seqs \in Seq(Seq(T))
  <2>1. \A i \in DOMAIN ops : Those(ops[i].params, InPath(i)) \in Seq(T)
    <3> HIDE DEF T, InPath, ops
    <3> QED BY <1>3, ThoseElements
  <2>2. Len(ops) \in Nat /\ DOMAIN ops = 1..Len(ops)
    BY <1>2 DEF AreCalls
  <2>3. seqs \in [1..Len(ops) -> Seq(T)]
    <3> HIDE DEF T, InPath, ops
    <3> QED BY <2>1, <2>2
  <2> HIDE DEF T, seqs, ops
  <2> QED BY <2>2, <2>3
<1>5. paths \in Seq(T)
  <2> HIDE DEF T, seqs
  <2> QED BY <1>4, FlattenType
<1>6. Properties(props, ids)
  <2>1. \A p \in T : p.schema \in ids
    OBVIOUS
  <2> HIDE DEF T, ids, paths
  <2> QED BY <1>5, <2>1, IdentityProperties
<1> HIDE DEF props
<1>7. Properties(props \o id, ids \cup {Identity})
  <2> DEFINE P == {p \in ToSet(props) \cup ToSet(id) : IsProperty(p, ids)}
  <2>1. id \in Seq(ToSet(id)) /\ \A p \in ToSet(id) : IsProperty(p, ids)
    <3> DEFINE q == PlainProperty(<<"id">>, <<"id">>, <<"string">>)
    <3>1. IsProperty(q, ids)
      BY <1>2 DEF PlainProperty, IsProperty
    <3> HIDE DEF q
    <3>2. /\ <<q>> \in Seq({q}) /\ ToSet(<<q>>) = {q}
          /\ <<>> \in Seq({}) /\ ToSet(<<>>) = {}
      BY DEF ToSet
    <3>3. id = <<q>> \/ id = <<>>
      BY DEF q
    <3> HIDE DEF id
    <3> QED BY <3>1, <3>2, <3>3
  <2>2. props \in Seq(ToSet(props)) /\ \A p \in ToSet(props) : IsProperty(p, ids)
    BY <1>6 DEF Properties
  <2> HIDE DEF id
  <2>3. id \in Seq(P) /\ props \in Seq(P)
    <3>1. ToSet(id) \subseteq P /\ ToSet(props) \subseteq P
      BY <2>1, <2>2
    <3> HIDE DEF P
    <3> QED BY <2>1, <2>2, <3>1
  <2>4. \A p \in P : IsProperty(p, ids \cup {Identity})
    BY DEF IsProperty
  <2> HIDE DEF P
  <2> DEFINE all == props \o id
  <2>5. all \in Seq(P)
    BY <2>3
  <2> HIDE DEF all
  <2>6. all \in Seq(ToSet(all)) /\ ToSet(all) \subseteq P
    BY <2>5, Contents
  <2>7. Properties(all, ids \cup {Identity})
    BY <2>4, <2>6 DEF Properties
  <2> QED BY <2>7 DEF all
<1>8. IsSchema(schema, ids \cup {Identity}) /\ schema.type = "object" /\ schema.parents = <<>>
  <2> DEFINE P == PlainSchema("object", Identity)
             all == props \o id
  <2>1. /\ DOMAIN P = DOMAIN PlainSchema("any", <<>>) /\ P.type = "object" /\ P.parents = <<>>
        /\ {"type", "parents", "props"} \subseteq DOMAIN P
    BY DEF PlainSchema
  <2> HIDE DEF P, all
  <2>2. schema = [P EXCEPT !.props = all, !.uid = "universal-parameter-type"]
    BY DEF P, all
  <2>3. /\ DOMAIN schema = DOMAIN PlainSchema("any", <<>>) /\ schema.type = "object"
        /\ schema.parents = <<>> /\ schema.props = all
    <3> HIDE DEF schema
    <3> QED BY <2>1, <2>2
  <2>4. <<>> \in Seq(ids \cup {Identity}) /\ Properties(all, ids \cup {Identity})
    BY <1>7 DEF all
  <2> HIDE DEF schema, ids
  <2> QED BY <2>3, <2>4 DEF IsSchema, Properties, IsProperty
<1> HIDE DEF schema
<1>9. Becomes(m, n)
  BY <1>8, SchemaAdded
<1>10. n.operations = m.operations /\ n.schemas = With(m.schemas, Identity, schema)
  BY <1>2 DEF Fields
<1> HIDE DEF n
<1>11. /\ DOMAIN n.schemas = DOMAIN m.schemas \cup {Identity} /\ n.schemas[Identity] = schema
       /\ \A x \in DOMAIN m.schemas \ {Identity} : n.schemas[x] = m.schemas[x]
  BY <1>10 DEF With
<1> QED BY <1>1, <1>8, <1>9, <1>10, <1>11

\* Schemas that have got other properties, all of what they had among them.
PropsOf(schema, P) ==
  {q \in Seq(P) : /\ Sers(schema) \subseteq {p.ser : p \in ToSet(q)}
                  /\ schema.type # "object" => q = <<>>}
WithProps(s, P) ==
  Selections([id \in DOMAIN s |-> {s[id]} \cup {[s[id] EXCEPT !.props = q] : q \in PropsOf(s[id], P)}])

LEMMA WithPropsType ==
  ASSUME NEW s, AreSchemas(s), s = [id \in DOMAIN s |-> s[id]], NEW P,
         \A p \in P : IsProperty(p, DOMAIN s), NEW t \in WithProps(s, P)
  PROVE  /\ Remade(s, t) /\ Grown(s, t) /\ t = [id \in DOMAIN s |-> t[id]]
         /\ \A id \in DOMAIN s :
              /\ t[id] \in {s[id]} \cup {[s[id] EXCEPT !.props = q] : q \in PropsOf(s[id], P)}
              /\ \A q : [t[id] EXCEPT !.props = q] = [s[id] EXCEPT !.props = q]
              /\ Sers(s[id]) \subseteq Sers(t[id])
              /\ s[id].props \in Seq(P) => t[id].props \in Seq(P)
<1> DEFINE ids == DOMAIN s
           One(id) == {s[id]} \cup {[s[id] EXCEPT !.props = q] : q \in PropsOf(s[id], P)}
           one == [id \in ids |-> One(id)]
<1>1. DOMAIN t = ids /\ t = [id \in ids |-> t[id]] /\ \A id \in ids : t[id] \in One(id)
  <2>1. DOMAIN one = ids /\ \A id \in ids : one[id] = One(id)
    OBVIOUS
  <2>2. t \in Selections(one)
    BY DEF WithProps
  <2> HIDE DEF one, One
  <2> QED BY <2>1, <2>2 DEF Selections
<1>2. ASSUME NEW id \in ids
      PROVE  /\ \A q : [t[id] EXCEPT !.props = q] = [s[id] EXCEPT !.props = q]
             /\ Sers(s[id]) \subseteq Sers(t[id]) /\ IsSchema(t[id], ids)
             /\ s[id].props \in Seq(P) => t[id].props \in Seq(P)
             /\ t[id].type = s[id].type /\ t[id].parents = s[id].parents
  <2>1. IsSchema(s[id], ids)
    BY DEF AreSchemas
  <2>2. {"type", "parents", "props"} \subseteq DOMAIN s[id]
    BY <2>1 DEF IsSchema, PlainSchema
  <2>3. t[id] = s[id] \/ \E q \in PropsOf(s[id], P) : t[id] = [s[id] EXCEPT !.props = q]
    BY <1>1
  <2> HIDE DEF One, one
  <2>4. CASE t[id] = s[id]
    BY <2>1, <2>4
  <2>5. CASE \E q \in PropsOf(s[id], P) : t[id] = [s[id] EXCEPT !.props = q]
    <3>1. PICK q \in PropsOf(s[id], P) : t[id] = [s[id] EXCEPT !.props = q]
      BY <2>5
    <3>2. q \in Seq(P) /\ Sers(s[id]) \subseteq {p.ser : p \in ToSet(q)} /\ (s[id].type # "object" => q = <<>>)
      BY DEF PropsOf
    <3>3. /\ t[id].props = q /\ t[id].type = s[id].type /\ t[id].parents = s[id].parents
          /\ DOMAIN t[id] = DOMAIN s[id]
      BY <2>2, <3>1
    <3>4. q \in Seq(ToSet(q)) /\ ToSet(q) \subseteq P
      BY <3>2, Contents
    <3>5. IsSchema(t[id], ids)
      BY <2>1, <3>2, <3>3, <3>4 DEF IsSchema, IsProperty
    <3>6. \A x : [t[id] EXCEPT !.props = x] = [s[id] EXCEPT !.props = x]
      BY <3>1
    <3> QED BY <3>2, <3>3, <3>5, <3>6 DEF Sers
  <2> QED BY <2>3, <2>4, <2>5
<1>3. t \in [DOMAIN s -> {t[id] : id \in DOMAIN s}]
  BY <1>1
<1> HIDE DEF one
<1> QED BY <1>1, <1>2, <1>3 DEF Remade, Grown

\* Changing the properties once more.
Changes(s, P, t, q, new) ==
  \A id \in DOMAIN s :
    \/ new[id] = t[id]
    \/ /\ new[id] = [t[id] EXCEPT !.props = q[id]]
       /\ q[id] \in Seq(P) /\ Sers(t[id]) \subseteq {p.ser : p \in ToSet(q[id])}
       /\ s[id].type # "object" => q[id] = <<>>
LEMMA WithPropsAgain ==
  ASSUME NEW s, AreSchemas(s), s = [id \in DOMAIN s |-> s[id]], NEW P,
         \A p \in P : IsProperty(p, DOMAIN s), NEW t \in WithProps(s, P), NEW q,
         NEW new, new = [id \in DOMAIN s |-> new[id]], Changes(s, P, t, q, new)
  PROVE  new \in WithProps(s, P)
<1> DEFINE ids == DOMAIN s
           One(id) == {s[id]} \cup {[s[id] EXCEPT !.props = x] : x \in PropsOf(s[id], P)}
           one == [id \in ids |-> One(id)]
<1>1. \A id \in ids : /\ t[id] \in One(id) /\ Sers(s[id]) \subseteq Sers(t[id])
                      /\ \A x : [t[id] EXCEPT !.props = x] = [s[id] EXCEPT !.props = x]
  BY WithPropsType
<1>2. ASSUME NEW id \in ids PROVE new[id] \in One(id)
  <2>1. CASE new[id] = t[id]
    BY <1>1, <2>1
  <2>2. CASE /\ new[id] = [t[id] EXCEPT !.props = q[id]]
             /\ q[id] \in Seq(P) /\ Sers(t[id]) \subseteq {p.ser : p \in ToSet(q[id])}
             /\ s[id].type # "object" => q[id] = <<>>
    <3>1. q[id] \in PropsOf(s[id], P)
      BY <1>1, <2>2 DEF PropsOf
    <3>2. new[id] = [s[id] EXCEPT !.props = q[id]]
      <4> HIDE DEF One, one
      <4> QED BY <1>1, <2>2
    <3> QED BY <3>1, <3>2
  <2> HIDE DEF One, one
  <2> QED BY <2>1, <2>2 DEF Changes
<1>3. DOMAIN one = ids /\ \A id \in ids : one[id] = One(id)
  OBVIOUS
<1>4. DOMAIN new = DOMAIN one /\ new = [id \in DOMAIN new |-> new[id]] /\ \A id \in DOMAIN one : new[id] \in one[id]
  <2> HIDE DEF One, one
  <2> QED BY <1>2, <1>3
<1>5. new \in Selections(one)
  <2> HIDE DEF one
  <2> QED BY <1>4, Chosen
<1> QED BY <1>5 DEF WithProps

\* Schemas have their own properties.
LEMMA OwnProps ==
  ASSUME NEW s, s = [id \in DOMAIN s |-> s[id]], NEW P
  PROVE  s \in WithProps(s, P)
<1> DEFINE ids == DOMAIN s
           One(id) == {s[id]} \cup {[s[id] EXCEPT !.props = x] : x \in PropsOf(s[id], P)}
           one == [id \in ids |-> One(id)]
<1>1. DOMAIN s = DOMAIN one /\ \A id \in DOMAIN one : s[id] \in one[id]
  OBVIOUS
<1> HIDE DEF one
<1>2. s \in Selections(one)
  BY <1>1, Chosen
<1> QED BY <1>2 DEF WithProps, one

\* A header that becomes a property, and a property that a header shares.
HeaderProperty(h) == [PlainProperty(h, h, <<"string">>) EXCEPT !.header = "Header"]
InBoth(p) == [p EXCEPT !.header = "HeaderAndBody"]

LEMMA HeaderRound ==
  ASSUME NEW s, AreSchemas(s), s = [id \in DOMAIN s |-> s[id]], NEW P,
         \A p \in P : IsProperty(p, DOMAIN s) /\ InBoth(p) \in P,
         \A id \in DOMAIN s : s[id].props \in Seq(P),
         NEW t \in WithProps(s, P), NEW id \in DOMAIN s, NEW header, HeaderProperty(header) \in P
  PROVE  AddHeaderProperty(t, id, header) \in WithProps(s, P)
<1> DEFINE ids == DOMAIN s
           all == AllProperties(t, id)
           named == {i \in DOMAIN all : all[i].name = header}
           p == all[Min(named)]
           Both(q) == IF q = p /\ q.header = "none" THEN InBoth(q) ELSE q
           line == Lineage(t, id)
           longer == [t EXCEPT ![id].props = Append(@, HeaderProperty(header))]
           marked == [x \in DOMAIN t |->
                        IF x \notin line THEN t[x]
                        ELSE [t[x] EXCEPT !.props = [i \in DOMAIN @ |-> Both(@[i])]]]
<1>1. AddHeaderProperty(t, id, header) \in {t, marked} \cup (IF t[id].type = "object" THEN {longer} ELSE {})
  BY DEF AddHeaderProperty, HeaderProperty, InBoth
<1> HIDE DEF p, line
<1>2. /\ t = [x \in ids |-> t[x]] /\ Remade(s, t)
      /\ \A x \in ids : t[x].props \in Seq(P)
  BY WithPropsType
<1>3. \A x \in ids : t[x].type = s[x].type /\ (s[x].type # "object" => t[x].props = <<>>)
  BY <1>2 DEF Remade, IsSchema
<1>4. \A x \in ids : "props" \in DOMAIN t[x]
  BY <1>2 DEF Remade, IsSchema, PlainSchema
<1>5. t[id].type = "object" => longer \in WithProps(s, P)
  <2> DEFINE q == [x \in ids |-> Append(t[x].props, HeaderProperty(header))]
  <2>1. longer = [x \in ids |-> longer[x]] /\ \A x \in ids : longer[x] = t[x] \/ x = id
    BY <1>2
  <2>2. longer[id] = [t[id] EXCEPT !.props = q[id]]
    BY <1>2
  <2>3. q[id] \in Seq(P) /\ Sers(t[id]) \subseteq {r.ser : r \in ToSet(q[id])}
    <3> DEFINE a == t[id].props
               h == HeaderProperty(header)
    <3>1. a \in Seq(P) /\ h \in P /\ q[id] = Append(a, h)
      BY <1>2
    <3> HIDE DEF a, h, q
    <3>2. q[id] \in Seq(P) /\ \A i \in DOMAIN a : i \in DOMAIN q[id] /\ q[id][i] = a[i]
      BY <3>1
    <3>3. ToSet(a) \subseteq ToSet(q[id])
      BY <3>2 DEF ToSet
    <3> QED BY <3>2, <3>3 DEF Sers, a
  <2> HIDE DEF q, longer
  <2>4. ASSUME t[id].type = "object"
        PROVE  Changes(s, P, t, q, longer)
    BY <1>3, <2>1, <2>2, <2>3, <2>4 DEF Changes
  <2> QED BY <2>1, <2>4, WithPropsAgain
<1>6. marked \in WithProps(s, P)
  <2> DEFINE q == [x \in ids |-> [i \in DOMAIN t[x].props |-> Both(t[x].props[i])]]
  <2>1. marked = [x \in ids |-> marked[x]] /\ \A x \in ids : marked[x] = t[x] \/ marked[x] = [t[x] EXCEPT !.props = q[x]]
    <3> HIDE DEF Both
    <3> QED BY <1>2
  <2>2. \A r \in P : Both(r) \in P /\ Both(r).ser = r.ser
    BY DEF IsProperty, InBoth
  <2> HIDE DEF marked, Both
  <2>3. ASSUME NEW x \in ids
        PROVE  /\ q[x] \in Seq(P) /\ Sers(t[x]) \subseteq {r.ser : r \in ToSet(q[x])}
               /\ s[x].type # "object" => q[x] = <<>>
    <3> DEFINE a == t[x].props
               both == [r \in P |-> Both(r)]
    <3>1. a \in Seq(P) /\ q[x] = [i \in DOMAIN a |-> Both(a[i])] /\ (s[x].type # "object" => a = <<>>)
      BY <1>2, <1>3
    <3> HIDE DEF a, q
    <3>2. \A i \in DOMAIN a : a[i] \in P
      BY <3>1
    <3>3. [i \in DOMAIN a |-> both[a[i]]] \in Seq(P)
      <4>1. \A i \in DOMAIN a : both[a[i]] \in P
        BY <2>2, <3>2
      <4> HIDE DEF both
      <4> QED BY <3>1, <4>1, Mapped
    <3>4. q[x] = [i \in DOMAIN a |-> both[a[i]]]
      BY <3>1, <3>2
    <3>5. \A i \in DOMAIN a : i \in DOMAIN q[x] /\ q[x][i].ser = a[i].ser
      BY <2>2, <3>1, <3>2
    <3>6. Sers(t[x]) \subseteq {r.ser : r \in ToSet(q[x])}
      BY <3>5 DEF Sers, ToSet, a
    <3>7. s[x].type # "object" => q[x] = <<>>
      BY <3>1
    <3> QED BY <3>3, <3>4, <3>6, <3>7
  <2> HIDE DEF q
  <2>4. Changes(s, P, t, q, marked)
    BY <2>1, <2>3 DEF Changes
  <2> QED BY <2>1, <2>4, WithPropsAgain
<1> HIDE DEF longer, marked
<1> QED BY <1>1, <1>5, <1>6

\* What headers do to schemas.
LEMMA HeadersKeep ==
  ASSUME NEW s, AreSchemas(s), s = [id \in DOMAIN s |-> s[id]], <<"string">> \in DOMAIN s,
         NEW T, \A each \in T : each[1] \in DOMAIN s, NEW seq \in Seq(T)
  PROVE  LET end == FoldLeft(LAMBDA t, each : AddHeaderProperty(t, each[1], each[2]), s, seq)
         IN Remade(s, end) /\ Grown(s, end)
<1> DEFINE ids == DOMAIN s
           H == {each[2] : each \in T}
           P1 == (UNION {ToSet(s[id].props) : id \in ids}) \cup {HeaderProperty(h) : h \in H}
           P2 == {InBoth(p) : p \in P1}
           P == P1 \cup P2
           D == WithProps(s, P)
           end == FoldLeft(LAMBDA t, each : AddHeaderProperty(t, each[1], each[2]), s, seq)
<1>1. \A p \in P1 : IsProperty(p, ids)
  <2>1. \A id \in ids : \A p \in ToSet(s[id].props) : IsProperty(p, ids)
    BY DEF AreSchemas, IsSchema, IsProperty
  <2>2. \A h \in H : IsProperty(HeaderProperty(h), ids)
    BY DEF HeaderProperty, PlainProperty, IsProperty
  <2> QED BY <2>1, <2>2
<1>2. \A id \in ids : s[id].props \in Seq(P)
  <2>1. \A id \in ids : s[id].props \in Seq(ToSet(s[id].props)) /\ ToSet(s[id].props) \subseteq P
    BY DEF AreSchemas, IsSchema
  <2> HIDE DEF P
  <2> QED BY <2>1
<1>3. \A h \in H : HeaderProperty(h) \in P
  OBVIOUS
<1> HIDE DEF P1
<1>4. \A p \in P : IsProperty(p, ids) /\ InBoth(p) \in P
  <2>1. \A p \in P1 : IsProperty(InBoth(p), ids)
    BY <1>1 DEF IsProperty, InBoth
  <2>2. ASSUME NEW p \in P1 PROVE InBoth(InBoth(p)) = InBoth(p)
    BY DEF InBoth
  <2>3. \A p \in P1 : InBoth(p) \in P2
    OBVIOUS
  <2>4. \A p \in P2 : \E r \in P1 : p = InBoth(r)
    OBVIOUS
  <2> HIDE DEF P2
  <2> QED BY <1>1, <2>1, <2>2, <2>3, <2>4
<1> HIDE DEF P
<1>5. s \in D
  BY OwnProps
<1>6. seq \in Seq(T) /\ \A each \in T : each[1] \in ids /\ each[2] \in H
  OBVIOUS
<1> HIDE DEF H, ids
<1>7. \A t \in D, each \in T : AddHeaderProperty(t, each[1], each[2]) \in D
  BY <1>2, <1>3, <1>4, <1>6, HeaderRound DEF ids
<1> HIDE DEF D
<1>9. end \in D
  <2>1. end \in Ends(D, s, seq, [each \in D \X T |-> AddHeaderProperty(each[1], each[2][1], each[2][2])])
    BY <1>5, <1>6, <1>7, HeaderLoop
  <2> QED BY <1>5, <1>6, <2>1, EndsType
<1> HIDE DEF end
<1>8. Remade(s, end) /\ Grown(s, end)
  BY <1>4, <1>9, WithPropsType DEF D, ids
<1> QED BY <1>8 DEF end

\* Sequences of what each has are one sequence of what all have.
LEMMA Flattened ==
  ASSUME NEW n \in Nat, NEW seqs, seqs = [i \in 1..n |-> seqs[i]],
         \A i \in 1..n : seqs[i] \in Seq(ToSet(seqs[i]))
  PROVE  LET all == UNION {ToSet(seqs[i]) : i \in 1..n}
         IN FlattenSeq(seqs) \in Seq(all) /\ ToSet(FlattenSeq(seqs)) = all
<1> DEFINE all == UNION {ToSet(seqs[i]) : i \in 1..n}
<1>1. \A i \in 1..n : ToSet(seqs[i]) \subseteq all
  OBVIOUS
<1>2. DOMAIN seqs = 1..n
  OBVIOUS
<1>3. UNION {ToSet(seqs[i]) : i \in DOMAIN seqs} = all
  BY <1>2
<1> HIDE DEF all
<1>4. \A i \in 1..n : seqs[i] \in Seq(all)
  BY <1>1
<1>5. seqs \in Seq(Seq(all))
  <2>1. seqs \in [1..n -> Seq(all)]
    BY <1>4
  <2> QED BY <2>1
<1>6. FlattenSeq(seqs) \in Seq(all) /\ ToSet(FlattenSeq(seqs)) = UNION {ToSet(seqs[i]) : i \in DOMAIN seqs}
  BY <1>5, FlattenType
<1> QED BY <1>3, <1>6 DEF all

\* What the headers of a response are with the schema they go to.
LEMMA HeadersOfType ==
  ASSUME NEW ids, NEW r, IsResponse(r, ids)
  PROVE  HeadersOf(r) \in Seq(ToSet(HeadersOf(r))) /\ \A each \in ToSet(HeadersOf(r)) : each[1] \in ids
<1>1. CASE r.schema = <<>>
  <2>1. HeadersOf(r) = <<>> /\ ToSet(<<>>) = {}
    BY <1>1 DEF HeadersOf, ToSet
  <2> QED BY <2>1
<1>2. CASE r.schema # <<>>
  <2> DEFINE headers == r.headers
             new == [i \in DOMAIN headers |-> <<r.schema, headers[i]>>]
  <2>1. HeadersOf(r) = new
    BY <1>2 DEF HeadersOf
  <2>2. r.schema \in ids /\ headers \in Seq(ToSet(headers))
    BY <1>2 DEF IsResponse
  <2>3. DOMAIN headers = 1..Len(headers) /\ Len(headers) \in Nat
    BY <2>2
  <2>4. \A i \in DOMAIN new : new[i] \in ToSet(new) /\ new[i][1] = r.schema
    BY DEF ToSet
  <2>5. \A each \in ToSet(new) : \E i \in DOMAIN new : each = new[i]
    BY DEF ToSet
  <2>6. new = [i \in 1..Len(headers) |-> new[i]] /\ DOMAIN new = 1..Len(headers)
    BY <2>3
  <2> HIDE DEF new
  <2>7. new \in Seq(ToSet(new))
    <3> DEFINE T == ToSet(new)
    <3>1. \A i \in 1..Len(headers) : new[i] \in T
      BY <2>4, <2>6
    <3> HIDE DEF T
    <3>2. new \in [1..Len(headers) -> T]
      BY <2>6, <3>1
    <3> QED BY <2>3, <3>2 DEF T
  <2> QED BY <2>1, <2>2, <2>4, <2>5, <2>7
<1> QED BY <1>1, <1>2

\* Headers become properties,
LEMMA HeaderPropertiesAdded ==
  ASSUME NEW m, Grounded(m)
  PROVE  LET n == AddHeaderProperties(m)
         IN Becomes(m, n) /\ Grown(m.schemas, n.schemas) /\ n.operations = m.operations
<1> DEFINE s == m.schemas
           ids == DOMAIN s
           ops == m.operations
           R(i) == ops[i].responses
           rs == [i \in DOMAIN ops |-> R(i)]
           responses == FlattenSeq(rs)
           hs == [i \in DOMAIN responses |-> HeadersOf(responses[i])]
           headers == FlattenSeq(hs)
           end == FoldLeft(LAMBDA t, each : AddHeaderProperty(t, each[1], each[2]), s, headers)
<1>1. /\ AreSchemas(s) /\ s = [id \in ids |-> s[id]] /\ <<"string">> \in ids /\ AreCalls(ops, ids)
      /\ Fields \subseteq DOMAIN m
  BY ModelParts DEF Grounded
<1>2. Len(ops) \in Nat /\ DOMAIN ops = 1..Len(ops)
  BY <1>1 DEF AreCalls
<1>3. AddHeaderProperties(m) = [m EXCEPT !.schemas = end]
  BY <1>1 DEF AddHeaderProperties, Fields
<1> HIDE DEF end
<1>4. \A i \in DOMAIN ops : R(i) \in Seq(ToSet(R(i))) /\ \A r \in ToSet(R(i)) : IsResponse(r, ids)
  BY <1>1 DEF AreCalls, IsCall
<1>5. rs = [i \in 1..Len(ops) |-> rs[i]] /\ \A i \in DOMAIN ops : rs[i] = R(i)
  BY <1>2
<1> HIDE DEF R, rs
<1> DEFINE all == UNION {ToSet(rs[i]) : i \in 1..Len(ops)}
<1>6. responses \in Seq(all) /\ \A r \in all : IsResponse(r, ids)
  <2>1. responses \in Seq(all)
    <3>1. \A i \in 1..Len(ops) : rs[i] \in Seq(ToSet(rs[i]))
      BY <1>2, <1>4, <1>5
    <3> QED BY <1>2, <1>5, <3>1, Flattened
  <2>2. \A i \in 1..Len(ops) : \A r \in ToSet(rs[i]) : IsResponse(r, ids)
    BY <1>2, <1>4, <1>5
  <2> HIDE DEF ids, ops
  <2> QED BY <2>1, <2>2
<1> HIDE DEF all, responses
<1>7. /\ Len(responses) \in Nat /\ DOMAIN responses = 1..Len(responses)
      /\ \A i \in 1..Len(responses) : IsResponse(responses[i], ids)
  <2>1. Len(responses) \in Nat /\ DOMAIN responses = 1..Len(responses) /\ \A i \in 1..Len(responses) : responses[i] \in all
    BY <1>6
  <2> HIDE DEF ids
  <2> QED BY <1>6, <2>1
<1>8. /\ hs = [i \in 1..Len(responses) |-> hs[i]]
      /\ \A i \in 1..Len(responses) : hs[i] = HeadersOf(responses[i])
  BY <1>7
<1> HIDE DEF hs
<1>9. \A i \in 1..Len(responses) : hs[i] \in Seq(ToSet(hs[i])) /\ \A each \in ToSet(hs[i]) : each[1] \in ids
  <2> HIDE DEF ids
  <2> QED BY <1>7, <1>8, HeadersOfType
<1> DEFINE T == UNION {ToSet(hs[i]) : i \in 1..Len(responses)}
<1>10. headers \in Seq(T) /\ \A each \in T : each[1] \in ids
  <2>1. headers \in Seq(T)
    BY <1>7, <1>8, <1>9, Flattened
  <2> HIDE DEF ids
  <2> QED BY <1>9, <2>1
<1> HIDE DEF T, headers
<1>11. Remade(s, end) /\ Grown(s, end)
  <2> HIDE DEF s
  <2> QED BY <1>1, <1>10, HeadersKeep DEF ids, end
<1> DEFINE n == [m EXCEPT !.schemas = end]
<1>12. Becomes(m, n) /\ n.schemas = end /\ n.operations = m.operations
  BY <1>11, OnlySchemas
<1> QED BY <1>3, <1>11, <1>12

\* A schema whose properties are changed one by one, and keep their keys.
LEMMA PropsMapped ==
  ASSUME NEW ids, NEW x, IsSchema(x, ids), NEW y,
         DOMAIN y = DOMAIN x, y.type = x.type, y.parents = x.parents,
         NEW f, y.props = [i \in DOMAIN x.props |-> f[x.props[i]]],
         \A p \in ToSet(x.props) : IsProperty(f[p], ids) /\ f[p].ser = p.ser
  PROVE  IsSchema(y, ids) /\ Sers(y) = Sers(x)
<1> DEFINE a == x.props
           b == y.props
           P == ToSet(a)
           Q == {f[p] : p \in P}
<1>1. /\ a \in Seq(P) /\ b = [i \in DOMAIN a |-> f[a[i]]]
      /\ \A i \in DOMAIN a : a[i] \in P
  BY DEF IsSchema, ToSet
<1>2. P = {a[i] : i \in DOMAIN a} /\ ToSet(b) = {b[i] : i \in DOMAIN b}
  BY DEF ToSet
<1> HIDE DEF a, b, P
<1>3. b \in Seq(Q) /\ \A i \in DOMAIN a : f[a[i]] \in Q
  <2>1. \A i \in DOMAIN a : f[a[i]] \in Q
    BY <1>1
  <2> HIDE DEF Q
  <2>2. [i \in DOMAIN a |-> f[a[i]]] \in Seq(Q)
    BY <1>1, <2>1, Mapped
  <2> QED BY <1>1, <2>1, <2>2
<1>4. ToSet(b) = Q
  <2>1. DOMAIN b = DOMAIN a /\ \A i \in DOMAIN a : b[i] = f[a[i]]
    BY <1>1
  <2>2. ToSet(b) = {f[a[i]] : i \in DOMAIN a}
    BY <1>2, <2>1
  <2>3. \A p \in P : \E i \in DOMAIN a : p = a[i]
    BY <1>2
  <2>4. {f[a[i]] : i \in DOMAIN a} = Q
    BY <1>1, <2>3
  <2> QED BY <2>2, <2>4
<1>5. \A q \in Q : IsProperty(q, ids)
  BY DEF P, a
<1>6. x.type # "object" => b = <<>>
  <2>1. x.type # "object" => a = <<>>
    BY DEF IsSchema, a
  <2>2. a = <<>> => DOMAIN a = {}
    OBVIOUS
  <2> QED BY <1>3, <2>1, <2>2, <1>1
<1> HIDE DEF Q
<1>7. IsSchema(y, ids)
  <2>1. b \in Seq(ToSet(b)) /\ \A q \in ToSet(b) : {"ser", "schema"} \subseteq DOMAIN q /\ q.schema \in ids
    BY <1>3, <1>4, <1>5 DEF IsProperty
  <2> QED BY <1>6, <2>1 DEF IsSchema, b
<1>8. {q.ser : q \in Q} = {p.ser : p \in P}
  BY DEF P, Q, a
<1> QED BY <1>4, <1>7, <1>8 DEF Sers, a, b, P

\* constants are marked,
LEMMA ConstantsMarked ==
  ASSUME NEW m, Grounded(m)
  PROVE  LET n == MarkConstants(m)
         IN Becomes(m, n) /\ Grown(m.schemas, n.schemas)
<1> DEFINE s == m.schemas
           ids == DOMAIN s
           ops == m.operations
           params == UNION {{[schema |-> p.schema, required |-> p.required] : p \in ToSet(op.params)} :
                              op \in ToSet(ops)}
           props == UNION {{[schema |-> p.schema, required |-> p.required] : p \in ToSet(s[id].props)} :
                             id \in ToSet(m.objects)}
           Mark(each) == [each EXCEPT !.constant = @ \/ IsConstant(s, each)]
           Marked(id) == [s[id] EXCEPT !.props = [i \in DOMAIN @ |-> Mark(@[i])]]
           marked == [id \in ids |-> Marked(id)]
           t == SkipSealed(marked, params \cup props)
           Change(op) == [op EXCEPT !.params = [i \in DOMAIN @ |-> Mark(@[i])]]
           new == [i \in DOMAIN ops |-> Change(ops[i])]
           n == MarkConstants(m)
<1>1. AreSchemas(s) /\ AreCalls(ops, ids) /\ Fields \subseteq DOMAIN m
  BY ModelParts DEF Grounded
<1>2. n = [[m EXCEPT !.schemas = t] EXCEPT !.operations = [i \in DOMAIN @ |-> Change(@[i])]]
  BY <1>1 DEF MarkConstants, EachOperation, Fields
<1> HIDE DEF t, n
<1>3. /\ Fields \subseteq DOMAIN n /\ n.schemas = t /\ n.operations = new
      /\ n.objects = m.objects /\ n.others = m.others
  BY <1>1, <1>2 DEF Fields
<1>4. ASSUME NEW id \in ids
      PROVE  IsSchema(t[id], ids) /\ t[id].type = s[id].type /\ t[id].parents = s[id].parents
             /\ Sers(t[id]) = Sers(s[id])
  <2> DEFINE x == s[id]
             P == ToSet(x.props)
             f == [p \in P |-> Mark(p)]
  <2>1. IsSchema(x, ids)
    BY <1>1 DEF AreSchemas
  <2>2. marked[id] = Marked(id) /\ DOMAIN marked = ids
    OBVIOUS
  <2>3. {"type", "parents", "props", "skip"} \subseteq DOMAIN x
    BY <2>1 DEF IsSchema, PlainSchema
  <2> DEFINE y == marked[id]
  <2>4. /\ DOMAIN y = DOMAIN x /\ y.type = x.type /\ y.parents = x.parents
        /\ y.props = [i \in DOMAIN x.props |-> Mark(x.props[i])]
    BY <2>2, <2>3
  <2> HIDE DEF marked
  <2>5. /\ DOMAIN t[id] = DOMAIN y /\ t[id].type = y.type /\ t[id].parents = y.parents
        /\ t[id].props = y.props
    BY <2>2, <2>3, <2>4 DEF SkipSealed, t
  <2> HIDE DEF Mark, y
  <2>6. t[id].props = [i \in DOMAIN x.props |-> f[x.props[i]]]
    BY <2>4, <2>5 DEF ToSet
  <2>7. \A p \in P : IsProperty(f[p], ids) /\ f[p].ser = p.ser
    <3>1. \A p \in P : {"ser", "schema"} \subseteq DOMAIN p /\ p.schema \in ids
      BY <2>1 DEF IsSchema
    <3> QED BY <3>1 DEF Mark, IsProperty
  <2> HIDE DEF f
  <2>8. IsSchema(t[id], ids) /\ Sers(t[id]) = Sers(x)
    BY <2>1, <2>4, <2>5, <2>6, <2>7, PropsMapped
  <2> QED BY <2>4, <2>5, <2>8
<1>5. t = [id \in ids |-> t[id]]
  BY DEF t, SkipSealed
<1>6. Remade(s, t) /\ Grown(s, t)
  BY <1>4, <1>5 DEF Remade, Grown
<1>7. AreCalls(new, ids) /\ SameOps(ops, new)
  <2>1. ASSUME NEW i \in DOMAIN ops PROVE IsCall(new[i], ids) /\ new[i].id = ops[i].id
    <3>1. IsCall(ops[i], ids) /\ new[i] = Change(ops[i])
      BY <1>1 DEF AreCalls
    <3> QED BY <3>1 DEF IsCall
  <2>2. ops \in Seq(ToSet(ops)) /\ new = [i \in DOMAIN ops |-> new[i]]
    BY <1>1 DEF AreCalls
  <2> HIDE DEF new, ops, ids
  <2> QED BY <2>1, <2>2, CallsMade
<1> HIDE DEF new
<1>8. Becomes(m, n)
  BY <1>3, <1>6, <1>7, ModelRemade
<1> QED BY <1>3, <1>6, <1>8 DEF n

\* Schemas that have lost properties.
Left(s) ==
  Selections([id \in DOMAIN s |-> {s[id]} \cup {[s[id] EXCEPT !.props = q] : q \in Seq(ToSet(s[id].props))}])

SameButProps(x, y) == \A q : [x EXCEPT !.props = q] = [y EXCEPT !.props = q]

LEMMA LeftType ==
  ASSUME NEW s, AreSchemas(s), NEW t \in Left(s)
  PROVE  /\ Remade(s, t) /\ DOMAIN t = DOMAIN s /\ t = [id \in DOMAIN s |-> t[id]]
         /\ \A id \in DOMAIN s :
              /\ t[id].props \in Seq(ToSet(s[id].props)) /\ ToSet(t[id].props) \subseteq ToSet(s[id].props)
              /\ "props" \in DOMAIN t[id]
              /\ SameButProps(t[id], s[id])
<1> DEFINE ids == DOMAIN s
           P(id) == ToSet(s[id].props)
           One(id) == {s[id]} \cup {[s[id] EXCEPT !.props = q] : q \in Seq(P(id))}
           one == [id \in ids |-> One(id)]
<1>1. DOMAIN t = ids /\ t = [id \in ids |-> t[id]] /\ \A id \in ids : t[id] \in One(id)
  <2>1. DOMAIN one = ids /\ \A id \in ids : one[id] = One(id)
    OBVIOUS
  <2>2. t \in Selections(one)
    BY DEF Left
  <2> HIDE DEF one, One
  <2> QED BY <2>1, <2>2 DEF Selections
<1>2. ASSUME NEW id \in ids
      PROVE  /\ SameButProps(t[id], s[id])
             /\ t[id].props \in Seq(P(id)) /\ ToSet(t[id].props) \subseteq P(id) /\ "props" \in DOMAIN t[id]
             /\ IsSchema(t[id], ids) /\ t[id].type = s[id].type /\ t[id].parents = s[id].parents
  <2>1. IsSchema(s[id], ids)
    BY DEF AreSchemas
  <2>2. {"type", "parents", "props"} \subseteq DOMAIN s[id] /\ s[id].props \in Seq(P(id))
    BY <2>1 DEF IsSchema, PlainSchema
  <2>3. t[id] = s[id] \/ \E q \in Seq(P(id)) : t[id] = [s[id] EXCEPT !.props = q]
    BY <1>1
  <2> HIDE DEF One, one
  <2>4. CASE t[id] = s[id]
    BY <2>1, <2>2, <2>4 DEF SameButProps
  <2>5. CASE \E q \in Seq(P(id)) : t[id] = [s[id] EXCEPT !.props = q]
    <3>1. PICK q \in Seq(P(id)) : t[id] = [s[id] EXCEPT !.props = q]
      BY <2>5
    <3>2. /\ t[id].props = q /\ t[id].type = s[id].type /\ t[id].parents = s[id].parents
          /\ DOMAIN t[id] = DOMAIN s[id]
      BY <2>2, <3>1
    <3>3. q \in Seq(ToSet(q)) /\ ToSet(q) \subseteq P(id)
      <4> HIDE DEF P
      <4> QED BY Contents
    <3>4. s[id].type # "object" => q = <<>>
      <4>1. s[id].type # "object" => P(id) = {}
        BY <2>1 DEF IsSchema, ToSet
      <4> HIDE DEF P
      <4>2. P(id) = {} => q = <<>>
        OBVIOUS
      <4> QED BY <4>1, <4>2
    <3>5. \A p \in P(id) : {"ser", "schema"} \subseteq DOMAIN p /\ p.schema \in ids
      BY <2>1 DEF IsSchema
    <3>6. s[id].parents \in Seq(ids) /\ DOMAIN s[id] = DOMAIN PlainSchema("any", <<>>)
          /\ (s[id].type # "object" => s[id].parents = <<>>)
      BY <2>1 DEF IsSchema
    <3> HIDE DEF P
    <3>7. IsSchema(t[id], ids)
      BY <3>2, <3>3, <3>4, <3>5, <3>6 DEF IsSchema
    <3>8. SameButProps(t[id], s[id])
      BY <3>1 DEF SameButProps
    <3> QED BY <2>2, <3>2, <3>3, <3>7, <3>8
  <2> QED BY <2>3, <2>4, <2>5
<1>3. t \in [DOMAIN s -> {t[id] : id \in DOMAIN s}]
  BY <1>1
<1> HIDE DEF one
<1> QED BY <1>1, <1>2, <1>3 DEF Remade

\* Some have lost more, or none any.
LEMMA LeftAgain ==
  ASSUME NEW s, AreSchemas(s), NEW t \in Left(s), NEW a \in DOMAIN s, NEW q \in Seq(ToSet(s[a].props))
  PROVE  [t EXCEPT ![a].props = q] \in Left(s)
<1> DEFINE ids == DOMAIN s
           One(id) == {s[id]} \cup {[s[id] EXCEPT !.props = x] : x \in Seq(ToSet(s[id].props))}
           one == [id \in ids |-> One(id)]
           new == [t EXCEPT ![a].props = q]
<1>1. /\ DOMAIN t = ids /\ t = [id \in ids |-> t[id]]
      /\ [t[a] EXCEPT !.props = q] = [s[a] EXCEPT !.props = q]
  <2>1. DOMAIN t = ids /\ t = [id \in ids |-> t[id]]
    <3>1. Remade(s, t)
      BY LeftType
    <3> QED BY <3>1 DEF Remade
  <2>2. SameButProps(t[a], s[a])
    BY LeftType
  <2> QED BY <2>1, <2>2 DEF SameButProps
<1>2. DOMAIN one = ids /\ \A id \in ids : one[id] = One(id)
  OBVIOUS
<1>3. \A id \in ids : t[id] \in One(id)
  <2>1. t \in Selections(one)
    BY DEF Left
  <2> HIDE DEF one, One
  <2> QED BY <1>2, <2>1 DEF Selections
<1>4. new = [id \in ids |-> IF id = a THEN [t[a] EXCEPT !.props = q] ELSE t[id]]
  BY <1>1
<1>5. [s[a] EXCEPT !.props = q] \in One(a)
  OBVIOUS
<1>6. \A id \in ids : new[id] \in One(id)
  <2> HIDE DEF One, one, new
  <2> QED BY <1>1, <1>3, <1>4, <1>5
<1>7. DOMAIN new = DOMAIN one /\ new = [id \in DOMAIN new |-> new[id]] /\ \A id \in DOMAIN one : new[id] \in one[id]
  <2> HIDE DEF One, one
  <2>1. DOMAIN new = ids /\ new = [id \in ids |-> new[id]]
    BY <1>4
  <2> HIDE DEF new
  <2> QED BY <1>2, <1>6, <2>1
<1>8. new \in Selections(one)
  <2> HIDE DEF one, new
  <2> QED BY <1>7, Chosen
<1> QED BY <1>8 DEF Left

LEMMA LeftAll ==
  ASSUME NEW s, AreSchemas(s), s = [id \in DOMAIN s |-> s[id]]
  PROVE  s \in Left(s)
<1> DEFINE ids == DOMAIN s
           One(id) == {s[id]} \cup {[s[id] EXCEPT !.props = x] : x \in Seq(ToSet(s[id].props))}
           one == [id \in ids |-> One(id)]
<1>1. DOMAIN s = DOMAIN one /\ \A id \in DOMAIN one : s[id] \in one[id]
  OBVIOUS
<1> HIDE DEF one
<1>2. s \in Selections(one)
  BY <1>1, Chosen
<1> QED BY <1>2 DEF Left, one

\* What is found while duplicates are dropped: what is left of the schemas, a map of
\* their properties, and whether all is well.
PropsIn(s) == UNION {ToSet(s[id].props) : id \in DOMAIN s}
Maps(s) == UNION {[K -> PropsIn(s)] : K \in SUBSET {p.ser : p \in PropsIn(s)}}
Found(s) == [schemas : Left(s), map : Maps(s), ok : BOOLEAN]

\* What a schema loses when one of its properties is looked at.
Without(props, ser) == Those(props, {i \in DOMAIN props : props[i].ser # ser})
Dropped(found, a, p) ==
  [found EXCEPT !.schemas = [@ EXCEPT ![a].props = Without(found.schemas[a].props, p.ser)]]

\* What looking at a property can do.
LEMMA LookCases ==
  ASSUME NEW found, NEW a, NEW p
  PROVE  \/ /\ p.ser \notin DOMAIN found.map
            /\ Look(found, a, p) = [found EXCEPT !.map = With(found.map, p.ser, p)]
         \/ /\ p.ser \in DOMAIN found.map
            /\ Look(found, a, p) \in {found, Dropped(found, a, p), [found EXCEPT !.ok = FALSE]}
<1>1. [found EXCEPT !.schemas[a].props = Filtered(@, LAMBDA r : r.ser # p.ser)] = Dropped(found, a, p)
  BY DEF Dropped, Without, Filtered
<1>2. [found EXCEPT !.map = With(@, p.ser, p)] = [found EXCEPT !.map = With(found.map, p.ser, p)]
  OBVIOUS
<1> QED BY <1>1, <1>2 DEF Look

LEMMA LookKeeps ==
  ASSUME NEW s, AreSchemas(s), NEW found \in Found(s), NEW a \in DOMAIN s, NEW p \in PropsIn(s)
  PROVE  Look(found, a, p) \in Found(s)
<1>1. /\ found.schemas \in Left(s) /\ found.map \in Maps(s) /\ found.ok \in BOOLEAN
      /\ \A t \in Left(s) : [found EXCEPT !.schemas = t] \in Found(s)
      /\ \A map \in Maps(s) : [found EXCEPT !.map = map] \in Found(s)
      /\ [found EXCEPT !.ok = FALSE] \in Found(s)
  BY DEF Found
<1>2. With(found.map, p.ser, p) \in Maps(s)
  <2> DEFINE N == {r.ser : r \in PropsIn(s)}
             map == found.map
             new == With(map, p.ser, p)
  <2>1. DOMAIN map \in SUBSET N /\ \A k \in DOMAIN map : map[k] \in PropsIn(s)
    BY <1>1 DEF Maps
  <2>2. new = [k \in DOMAIN map \cup {p.ser} |-> IF k = p.ser THEN p ELSE map[k]]
    BY DEF With
  <2>3. p.ser \in N
    OBVIOUS
  <2> HIDE DEF N, map, new
  <2>4. new \in [DOMAIN map \cup {p.ser} -> PropsIn(s)]
    BY <2>1, <2>2
  <2>5. DOMAIN map \cup {p.ser} \in SUBSET N
    BY <2>1, <2>3
  <2> QED BY <2>4, <2>5 DEF Maps, N, new, map
<1>3. Dropped(found, a, p) \in Found(s)
  <2> DEFINE t == found.schemas
             q == Without(t[a].props, p.ser)
  <2>1. t[a].props \in Seq(ToSet(s[a].props))
    BY <1>1, LeftType
  <2>2. q \in Seq(ToSet(s[a].props))
    BY <2>1, ThoseElements DEF Without
  <2> HIDE DEF q
  <2>3. [t EXCEPT ![a].props = q] \in Left(s)
    BY <1>1, <2>2, LeftAgain
  <2> QED BY <1>1, <2>3 DEF Dropped, q
<1> QED BY <1>1, <1>2, <1>3, LookCases

LEMMA LookAtKeeps ==
  ASSUME NEW s, AreSchemas(s), NEW found \in Found(s), NEW a \in DOMAIN s
  PROVE  LookAtAll(found, a) \in Found(s)
<1> DEFINE D == Found(s)
           T == PropsIn(s)
           seq == found.schemas[a].props
           step == [each \in D \X T |-> Look(each[1], a, each[2])]
           end == FoldLeft(LAMBDA f, p : Look(f, a, p), found, seq)
<1>1. seq \in Seq(T)
  <2>1. found.schemas \in Left(s)
    BY DEF Found
  <2>2. seq \in Seq(ToSet(s[a].props))
    BY <2>1, LeftType
  <2>3. ToSet(s[a].props) \subseteq T
    BY DEF PropsIn
  <2> HIDE DEF seq, T
  <2> QED BY <2>2, <2>3
<1>2. \A d \in D, x \in T : Look(d, a, x) \in D
  BY LookKeeps
<1>3. end \in D
  <2> HIDE DEF D, T, seq
  <2>1. end \in Ends(D, found, seq, step)
    BY <1>1, <1>2, LookLoop DEF D
  <2> HIDE DEF end, step
  <2> QED BY <1>1, <2>1, EndsType DEF D
<1> HIDE DEF end
<1>4. LookAtAll(found, a) \in {end, found}
  BY DEF LookAtAll, end
<1> QED BY <1>3, <1>4

\* Schemas that are remade have the same depths, and ancestors that are among them.
LEMMA DepthsRemade ==
  ASSUME NEW s, AreSchemas(s), NEW t, Remade(s, t)
  PROVE  AreSchemas(t) /\ DOMAIN t = DOMAIN s /\ Depths(t) = Depths(s)
<1>1. DOMAIN t = DOMAIN s
  BY DEF Remade
<1>2. \A id \in DOMAIN s : t[id].parents = s[id].parents
  BY DEF Remade
<1>3. AreSchemas(t)
  BY <1>1 DEF Remade, AreSchemas
<1> QED BY <1>1, <1>2, <1>3 DEF Depths

LEMMA DropKeeps ==
  ASSUME NEW s, AreSchemas(s), Depths(s) # {}, NEW found \in Found(s), NEW id \in DOMAIN s
  PROVE  DropInherited(found, id) \in Found(s)
<1> DEFINE D == Found(s)
           T == DOMAIN s
           f0 == [found EXCEPT !.map = <<>>]
           seq == Ancestry(f0.schemas, id)
           step == [each \in D \X T |-> LookAtAll(each[1], each[2])]
           end == FoldLeft(LookAtAll, f0, seq)
<1>1. f0 \in D /\ f0.schemas = found.schemas
  <2>1. <<>> \in Maps(s)
    <3>1. <<>> \in [{} -> PropsIn(s)]
      OBVIOUS
    <3>2. {} \in SUBSET {p.ser : p \in PropsIn(s)}
      OBVIOUS
    <3> QED BY <3>1, <3>2 DEF Maps
  <2> QED BY <2>1 DEF Found
<1>2. seq \in Seq(T)
  <2>1. found.schemas \in Left(s)
    BY DEF Found
  <2>2. Remade(s, found.schemas)
    BY <2>1, LeftType
  <2>3. AreSchemas(found.schemas) /\ DOMAIN found.schemas = DOMAIN s /\ Depths(found.schemas) = Depths(s)
    BY <2>2, DepthsRemade
  <2>4. PICK depth \in Depths(found.schemas) : TRUE
    BY <2>3
  <2>5. Ancestry(found.schemas, id) \in Seq(DOMAIN found.schemas)
    BY <2>3, <2>4, AncestryType
  <2> QED BY <1>1, <2>3, <2>5
<1>3. \A d \in D, x \in T : LookAtAll(d, x) \in D
  BY LookAtKeeps
<1>4. end \in D
  <2> HIDE DEF D, T, seq, f0
  <2>1. end \in Ends(D, f0, seq, step)
    BY <1>1, <1>2, <1>3, LookAtLoop
  <2> HIDE DEF end, step
  <2> QED BY <1>1, <1>2, <2>1, EndsType
<1> HIDE DEF end
<1>5. DropInherited(found, id) \in {end, found}
  BY DEF DropInherited, DropDuplicates, end
<1> QED BY <1>4, <1>5

\* duplicates are dropped,
LEMMA DuplicatesDropped ==
  ASSUME NEW m, Grounded(m)
  PROVE  LET n == DropAllDuplicates(m)
         IN Becomes(m, n) /\ n.operations = m.operations /\ n.objects = m.objects /\ n.schemas \in Left(m.schemas)
<1> DEFINE s == m.schemas
           D == Found(s)
           T == DOMAIN s
           f0 == [schemas |-> s, map |-> <<>>, ok |-> TRUE]
           seq == m.objects
           step == [each \in D \X T |-> DropInherited(each[1], each[2])]
           end == FoldLeft(DropInherited, f0, seq)
           n == [m EXCEPT !.schemas = end.schemas, !.error = ~end.ok]
<1>1. /\ AreSchemas(s) /\ s = [id \in T |-> s[id]] /\ m.objects \in Seq(T) /\ AreCalls(m.operations, T)
      /\ Fields \subseteq DOMAIN m
  BY ModelParts DEF Grounded
<1>2. f0 \in D
  <2>1. <<>> \in Maps(s)
    <3>1. <<>> \in [{} -> PropsIn(s)]
      OBVIOUS
    <3>2. {} \in SUBSET {p.ser : p \in PropsIn(s)}
      OBVIOUS
    <3> QED BY <3>1, <3>2 DEF Maps
  <2>2. s \in Left(s)
    <3> HIDE DEF s
    <3> QED BY <1>1, LeftAll
  <2> QED BY <2>1, <2>2 DEF Found
<1>3. \A d \in D, x \in T : DropInherited(d, x) \in D
  BY <1>1, DropKeeps DEF Grounded
<1>4. end \in D
  <2> HIDE DEF D, T, seq, f0
  <2>1. end \in Ends(D, f0, seq, step)
    BY <1>1, <1>2, <1>3, DropLoop DEF seq
  <2> HIDE DEF end, step
  <2> QED BY <1>1, <1>2, <2>1, EndsType DEF seq
<1>5. DropAllDuplicates(m) = n
  BY DEF DropAllDuplicates
<1> HIDE DEF end
<1>6. end.schemas \in Left(s)
  BY <1>4 DEF Found
<1>7. Remade(s, end.schemas)
  <2> HIDE DEF s
  <2> QED BY <1>1, <1>6, LeftType
<1>8. /\ Fields \subseteq DOMAIN n /\ n.schemas = end.schemas /\ n.objects = m.objects
      /\ n.others = m.others /\ n.operations = m.operations
  BY <1>1 DEF Fields
<1> HIDE DEF n
<1>9. SameOps(m.operations, n.operations)
  BY <1>8 DEF SameOps
<1>10. Becomes(m, n)
  BY <1>1, <1>7, <1>8, <1>9, ModelRemade
<1> QED BY <1>5, <1>6, <1>8, <1>10

\* so all of the second plugin leaves a model.
LEMMA TweakGrounded ==
  ASSUME NEW m, Grounded(m), HasParameters(m)
  PROVE  Becomes(m, Tweak(m))
<1> DEFINE a == UniversalId(m)
           b == DropAllDuplicates(a)
           c == AddHeaderProperties(b)
           d == MarkConstants(c)
<1>1. Becomes(m, a)
  BY IdentityAdded
<1> HIDE DEF a
<1>2. Becomes(a, b)
  BY <1>1, DuplicatesDropped DEF Becomes
<1> HIDE DEF b
<1>3. Becomes(b, c)
  BY <1>2, HeaderPropertiesAdded DEF Becomes
<1> HIDE DEF c
<1>4. Becomes(c, d)
  BY <1>3, ConstantsMarked DEF Becomes
<1> HIDE DEF d
<1>5. Tweak(m) \in {b, d}
  BY DEF Tweak, a, b, c, d
<1>6. Becomes(m, b)
  BY <1>1, <1>2 DEF Becomes, SameOps
<1>7. Becomes(m, d)
  BY <1>6, <1>3, <1>4 DEF Becomes, SameOps
<1> QED BY <1>5, <1>6, <1>7

\* The third plugin changes operations one by one, and what schemas are passed by.
LEMMA AzureCall ==
  ASSUME NEW ids, NEW op, IsCall(op, ids), NEW pages
  PROVE  LET new == ApiVersions(LongRunning([op EXCEPT !.pageable = pages]))
         IN IsCall(new, ids) /\ new.id = op.id
<1> DEFINE a == [op EXCEPT !.pageable = pages]
           b == LongRunning(a)
           c == ApiVersions(b)
           Same(x, y) == /\ {"id", "responses", "exceptions", "params"} \subseteq DOMAIN y
                         /\ y.id = x.id /\ y.exceptions = x.exceptions
           Fine(y) == y.responses \in Seq(ToSet(y.responses)) /\ \A r \in ToSet(y.responses) : IsResponse(r, ids)
<1>1. {"id", "responses", "exceptions", "params"} \subseteq DOMAIN op /\ Fine(op)
  BY DEF IsCall
<1>2. Same(op, a) /\ a.responses = op.responses
  BY <1>1
<1> HIDE DEF a
<1>3. Same(a, b) /\ Fine(b)
  <2>1. CASE ~a.lro
    BY <1>1, <1>2, <2>1 DEF LongRunning
  <2>2. CASE a.lro
    <3> DEFINE at == {i \in DOMAIN a.responses : a.responses[i].code \notin {"created", "accepted"}}
               rs == Those(a.responses, at)
               R == ToSet(a.responses)
    <3>1. b = [a EXCEPT !.asjob = TRUE, !.responses = rs]
      BY <1>2, <2>2 DEF LongRunning, Filtered
    <3>2. a.responses \in Seq(R) /\ \A r \in R : IsResponse(r, ids)
      BY <1>1, <1>2
    <3> HIDE DEF rs, at, R
    <3>3. rs \in Seq(R)
      BY <3>2, ThoseElements DEF rs
    <3>4. rs \in Seq(ToSet(rs)) /\ ToSet(rs) \subseteq R
      BY <3>3, Contents
    <3>5. Same(a, b) /\ b.responses = rs
      BY <1>2, <3>1
    <3> HIDE DEF Same
    <3> QED BY <3>2, <3>4, <3>5
  <2> QED BY <2>1, <2>2
<1> HIDE DEF b
<1>4. Same(b, c) /\ c.responses = b.responses
  BY <1>3 DEF ApiVersions
<1> HIDE DEF c
<1>5. Fine(c) /\ c.id = op.id /\ c.exceptions = op.exceptions
      /\ {"id", "responses", "exceptions", "params"} \subseteq DOMAIN c
  BY <1>2, <1>3, <1>4
<1>6. IsCall(c, ids)
  BY <1>5 DEF IsCall
<1> QED BY <1>5, <1>6 DEF a, b, c

LEMMA ReferencesMarked ==
  ASSUME NEW m, Grounded(m)
  PROVE  LET n == ByReference(m)
         IN Becomes(m, n) /\ Alike(m.schemas, n.schemas) /\ n.operations = m.operations
<1> DEFINE s == m.schemas
           HasId(id) == \E p \in ToSet(AllProperties(s, id)) : p.ser = <<"id">>
           Put(id) == \E op \in ToSet(m.operations) :
                        op.method = "put" /\ \E r \in ToSet(op.responses) : r.schema = id
           Marked(id) == IF id \in ToSet(m.objects) /\ HasId(id) /\ Put(id)
                         THEN [s[id] EXCEPT !.byReference = TRUE] ELSE s[id]
           t == [id \in DOMAIN s |-> Marked(id)]
<1>1. AreSchemas(s) /\ Fields \subseteq DOMAIN m /\ IsModel(m)
  BY ModelParts DEF Grounded
<1>2. ByReference(m) \in {m, [m EXCEPT !.schemas = t]}
  BY <1>1 DEF ByReference, Fields
<1>3. ASSUME NEW id \in DOMAIN s PROVE Kept(s[id], t[id]) /\ Kept(s[id], s[id])
  <2>1. {"type", "parents", "props"} \subseteq DOMAIN s[id]
    BY <1>1 DEF AreSchemas, IsSchema, PlainSchema
  <2>2. t[id] \in {s[id], [s[id] EXCEPT !.byReference = TRUE]}
    OBVIOUS
  <2> HIDE DEF t
  <2> QED BY <2>1, <2>2 DEF Kept
<1>4. t = [id \in DOMAIN s |-> t[id]]
  OBVIOUS
<1> HIDE DEF t
<1>5. Alike(s, t) /\ Remade(s, t)
  <2> HIDE DEF s
  <2> QED BY <1>1, <1>3, <1>4, AlikeEach
<1>6. /\ Becomes(m, [m EXCEPT !.schemas = t]) /\ [m EXCEPT !.schemas = t].schemas = t
      /\ [m EXCEPT !.schemas = t].operations = m.operations
  BY <1>5, OnlySchemas
<1>7. Becomes(m, m) /\ Alike(s, s)
  <2>1. SameOps(m.operations, m.operations)
    BY DEF SameOps
  <2>2. Alike(s, s)
    BY <1>1, <1>3 DEF Alike, IsModel
  <2> QED BY <2>1, <2>2 DEF Becomes
<1> QED BY <1>2, <1>5, <1>6, <1>7

LEMMA AzureGrounded ==
  ASSUME NEW m, Grounded(m)
  PROVE  Becomes(m, TweakAzure(m)) /\ Alike(m.schemas, TweakAzure(m).schemas)
<1> DEFINE s == m.schemas
           ids == DOMAIN s
           ops == m.operations
           Change(op) == ApiVersions(LongRunning([op EXCEPT !.pageable = Pageable(s, op)]))
           new == [i \in DOMAIN ops |-> Change(ops[i])]
           n == [m EXCEPT !.operations = [i \in DOMAIN @ |-> Change(@[i])]]
           end == ByReference(n)
<1>1. AreCalls(ops, ids) /\ Fields \subseteq DOMAIN m /\ IsModel(m)
  BY ModelParts DEF Grounded
<1>2. /\ Fields \subseteq DOMAIN n /\ n.schemas = s /\ n.operations = new
      /\ n.objects = m.objects /\ n.others = m.others
  BY <1>1 DEF Fields
<1>3. TweakAzure(m) = end
  BY DEF TweakAzure, EachOperation
<1> HIDE DEF n
<1>4. AreCalls(new, ids) /\ SameOps(ops, new)
  <2>1. ASSUME NEW i \in DOMAIN ops PROVE IsCall(new[i], ids) /\ new[i].id = ops[i].id
    <3>1. IsCall(ops[i], ids) /\ new[i] = Change(ops[i])
      BY <1>1 DEF AreCalls
    <3> HIDE DEF new, ids
    <3> QED BY <3>1, AzureCall
  <2>2. ops \in Seq(ToSet(ops)) /\ new = [i \in DOMAIN ops |-> new[i]]
    BY <1>1 DEF AreCalls
  <2> HIDE DEF new, ops, ids
  <2> QED BY <2>1, <2>2, CallsMade
<1> HIDE DEF new
<1>5. Becomes(m, n)
  <2>1. Remade(s, s)
    BY <1>1, Unremade
  <2> QED BY <1>2, <1>4, <2>1, ModelRemade
<1>6. Becomes(n, end) /\ Alike(n.schemas, end.schemas)
  BY <1>5, ReferencesMarked DEF Becomes
<1> HIDE DEF end
<1>7. Becomes(m, end)
  BY <1>5, <1>6 DEF Becomes, SameOps
<1> QED BY <1>2, <1>3, <1>6, <1>7

\* The loop over the schemas that get names,
LEMMA NameLoop ==
  ASSUME NEW D, NEW T, NEW b \in D, NEW seq \in Seq(T),
         \A d \in D, x \in T : NameSchema(d, x) \in D
  PROVE  FoldLeft(NameSchema, b, seq)
         \in Ends(D, b, seq, [each \in D \X T |-> NameSchema(each[1], each[2])])
<1> DEFINE step == [each \in D \X T |-> NameSchema(each[1], each[2])]
           iter == CHOOSE f : f = [s \in SUBSET DOMAIN seq |->
                     IF s = {} THEN b ELSE NameSchema(f[s \ {Max(s)}], seq[Max(s)])]
<1>1. step \in [D \X T -> D] /\ \A d \in D, x \in T : step[<<d, x>>] = NameSchema(d, x)
  OBVIOUS
<1> HIDE DEF step
<1>2. PICK g : IsLoop(g, D, b, seq, step)
  BY <1>1, LoopExists
<1>3. \A s \in SUBSET DOMAIN seq : s # {} => seq[Max(s)] \in T /\ s \ {Max(s)} \in SUBSET DOMAIN seq
  BY LoopPoints
<1>4. g \in [SUBSET DOMAIN seq -> D]
  BY <1>2 DEF IsLoop
<1>5. ASSUME NEW s \in SUBSET DOMAIN seq
      PROVE  g[s] = IF s = {} THEN b ELSE NameSchema(g[s \ {Max(s)}], seq[Max(s)])
  BY <1>1, <1>2, <1>3, <1>4 DEF IsLoop
<1>6. g = [s \in SUBSET DOMAIN seq |-> IF s = {} THEN b ELSE NameSchema(g[s \ {Max(s)}], seq[Max(s)])]
  BY <1>4, <1>5
<1>7. iter = [s \in SUBSET DOMAIN seq |-> IF s = {} THEN b ELSE NameSchema(iter[s \ {Max(s)}], seq[Max(s)])]
  BY <1>6
<1>8. FoldLeft(NameSchema, b, seq) = iter[DOMAIN seq]
  BY DEF FoldLeft, MapThenFoldSet
<1> HIDE DEF iter
<1>9. Iterates(iter, D, b, seq, step)
  <2>1. iter[{}] = b
    BY <1>7
  <2>2. ASSUME NEW s \in SUBSET DOMAIN seq, s # {}, iter[s \ {Max(s)}] \in D
        PROVE  iter[s] = step[<<iter[s \ {Max(s)}], seq[Max(s)]>>]
    <3>1. iter[s] = NameSchema(iter[s \ {Max(s)}], seq[Max(s)])
      BY <1>7, <2>2
    <3>2. seq[Max(s)] \in T
      BY <1>3, <2>2
    <3> QED BY <1>1, <2>2, <3>1, <3>2
  <2> QED BY <2>1, <2>2 DEF Iterates
<1>10. iter[DOMAIN seq] \in Ends(D, b, seq, step)
  BY <1>1, <1>9, LoopRuns
<1> QED BY <1>8, <1>10 DEF step

\* and the one over the operations.
LEMMA NameOperationLoop ==
  ASSUME NEW D, NEW T, NEW b \in D, NEW seq \in Seq(T),
         \A d \in D, x \in T : NameOperation(d, x) \in D
  PROVE  FoldLeft(NameOperation, b, seq)
         \in Ends(D, b, seq, [each \in D \X T |-> NameOperation(each[1], each[2])])
<1> DEFINE step == [each \in D \X T |-> NameOperation(each[1], each[2])]
           iter == CHOOSE f : f = [s \in SUBSET DOMAIN seq |->
                     IF s = {} THEN b ELSE NameOperation(f[s \ {Max(s)}], seq[Max(s)])]
<1>1. step \in [D \X T -> D] /\ \A d \in D, x \in T : step[<<d, x>>] = NameOperation(d, x)
  OBVIOUS
<1> HIDE DEF step
<1>2. PICK g : IsLoop(g, D, b, seq, step)
  BY <1>1, LoopExists
<1>3. \A s \in SUBSET DOMAIN seq : s # {} => seq[Max(s)] \in T /\ s \ {Max(s)} \in SUBSET DOMAIN seq
  BY LoopPoints
<1>4. g \in [SUBSET DOMAIN seq -> D]
  BY <1>2 DEF IsLoop
<1>5. ASSUME NEW s \in SUBSET DOMAIN seq
      PROVE  g[s] = IF s = {} THEN b ELSE NameOperation(g[s \ {Max(s)}], seq[Max(s)])
  BY <1>1, <1>2, <1>3, <1>4 DEF IsLoop
<1>6. g = [s \in SUBSET DOMAIN seq |-> IF s = {} THEN b ELSE NameOperation(g[s \ {Max(s)}], seq[Max(s)])]
  BY <1>4, <1>5
<1>7. iter = [s \in SUBSET DOMAIN seq |-> IF s = {} THEN b ELSE NameOperation(iter[s \ {Max(s)}], seq[Max(s)])]
  BY <1>6
<1>8. FoldLeft(NameOperation, b, seq) = iter[DOMAIN seq]
  BY DEF FoldLeft, MapThenFoldSet
<1> HIDE DEF iter
<1>9. Iterates(iter, D, b, seq, step)
  <2>1. iter[{}] = b
    BY <1>7
  <2>2. ASSUME NEW s \in SUBSET DOMAIN seq, s # {}, iter[s \ {Max(s)}] \in D
        PROVE  iter[s] = step[<<iter[s \ {Max(s)}], seq[Max(s)]>>]
    <3>1. iter[s] = NameOperation(iter[s \ {Max(s)}], seq[Max(s)])
      BY <1>7, <2>2
    <3>2. seq[Max(s)] \in T
      BY <1>3, <2>2
    <3> QED BY <1>1, <2>2, <3>1, <3>2
  <2> QED BY <2>1, <2>2 DEF Iterates
<1>10. iter[DOMAIN seq] \in Ends(D, b, seq, step)
  BY <1>1, <1>9, LoopRuns
<1> QED BY <1>8, <1>10 DEF step

\* Names that schemas can get: their own, or one with a number.
Numberings(names) == names \cup {Append(name, ToString(Min(free))) : name \in names, free \in SUBSET Nat}

LEMMA NumberedType ==
  ASSUME NEW names, NEW name \in names, NEW used
  PROVE  Numbered(name, used) \in Numberings(names)
<1> DEFINE free == {n \in 1..Cardinality(used) + 1 : Append(name, ToString(n)) \notin used}
<1>1. free \in SUBSET Nat
  OBVIOUS
<1>2. Numbered(name, used) = Append(name, ToString(Min(free)))
  BY DEF Numbered
<1> HIDE DEF free
<1> QED BY <1>1, <1>2 DEF Numberings

\* What a name changes of a schema.
Called(x, c, w) == [x EXCEPT !.cs = c, !.space = w]

LEMMA SchemasNamed ==
  ASSUME NEW s, AreSchemas(s), s = [id \in DOMAIN s |-> s[id]], NEW seq \in Seq(DOMAIN s)
  PROVE  Alike(s, FoldLeft(NameSchema, [schemas |-> s, used |-> {}], seq).schemas)
<1> DEFINE ids == DOMAIN s
           C == Numberings({s[id].name : id \in ids})
           W == {NamespaceOf(s[id]) : id \in ids}
           One(x) == {x} \cup {Called(x, each[1], each[2]) : each \in C \X W}
           one == [id \in ids |-> One(s[id])]
           S == Selections(one)
           D == [schemas : S, used : SUBSET (W \X C)]
           b == [schemas |-> s, used |-> {}]
           end == FoldLeft(NameSchema, b, seq)
           step == [each \in D \X ids |-> NameSchema(each[1], each[2])]
<1>1. DOMAIN one = ids /\ \A id \in ids : one[id] = One(s[id])
  OBVIOUS
<1> HIDE DEF C, W, one, S
<1>2. ASSUME NEW t \in S
      PROVE  /\ DOMAIN t = ids /\ t = [id \in ids |-> t[id]] /\ \A id \in ids : t[id] \in One(s[id])
  <2> HIDE DEF One
  <2> QED BY <1>1 DEF Selections, S
<1>3. ASSUME NEW id \in ids, NEW x \in One(s[id])
      PROVE  /\ Kept(s[id], x) /\ x.name = s[id].name /\ NamespaceOf(x) = NamespaceOf(s[id])
             /\ \A c, w : Called(x, c, w) = Called(s[id], c, w)
  <2>1. {"type", "parents", "props", "name", "uid", "versions", "cs", "space"} \subseteq DOMAIN s[id]
    <3>1. IsSchema(s[id], ids)
      BY DEF AreSchemas
    <3> HIDE DEF One
    <3> QED BY <3>1 DEF IsSchema, PlainSchema
  <2>2. x = s[id] \/ \E each \in C \X W : x = Called(s[id], each[1], each[2])
    OBVIOUS
  <2> HIDE DEF One
  <2>3. /\ DOMAIN x = DOMAIN s[id] /\ x.type = s[id].type /\ x.parents = s[id].parents
        /\ x.props = s[id].props /\ x.name = s[id].name /\ x.uid = s[id].uid /\ x.versions = s[id].versions
    BY <2>1, <2>2 DEF Called
  <2>4. \A c, w : Called(x, c, w) = Called(s[id], c, w)
    BY <2>2 DEF Called
  <2> QED BY <2>3, <2>4 DEF Kept, NamespaceOf
<1>4. ASSUME NEW d \in D, NEW id \in ids PROVE NameSchema(d, id) \in D
  <2> DEFINE t == d.schemas
             x == t[id]
             space == NamespaceOf(x)
             used == {taken[2] : taken \in {each \in d.used : each[1] = space}}
             name == IF x.name \in used THEN Numbered(x.name, used) ELSE x.name
             new == [t EXCEPT ![id].cs = name, ![id].space = space]
             more == IF HasClass(x) THEN d.used \cup {<<space, name>>} ELSE d.used
  <2>1. t \in S /\ d.used \in SUBSET (W \X C)
    OBVIOUS
  <2>2. DOMAIN t = ids /\ t = [i \in ids |-> t[i]] /\ \A i \in ids : t[i] \in One(s[i])
    <3> HIDE DEF One, D
    <3> QED BY <1>2, <2>1
  <2>3. /\ x.name = s[id].name /\ space = NamespaceOf(s[id])
        /\ \A c, w : Called(x, c, w) = Called(s[id], c, w)
    <3> HIDE DEF One
    <3> QED BY <1>3, <2>2
  <2>4. space \in W
    <3> HIDE DEF space, x
    <3> QED BY <2>3 DEF W
  <2>5. name \in C
    <3> DEFINE names == {s[i].name : i \in ids}
    <3> HIDE DEF used, x
    <3>1. x.name \in names
      BY <2>3
    <3> HIDE DEF names
    <3>2. Numbered(x.name, used) \in Numberings(names)
      BY <3>1, NumberedType
    <3>3. x.name \in Numberings(names)
      BY <3>1 DEF Numberings
    <3> QED BY <3>2, <3>3 DEF C, names
  <2> HIDE DEF name, space
  <2>6. new = [i \in ids |-> IF i = id THEN Called(x, name, space) ELSE t[i]]
    BY <2>2 DEF Called
  <2>7. Called(s[id], name, space) \in One(s[id])
    <3>1. <<name, space>> \in C \X W
      BY <2>4, <2>5
    <3> QED BY <3>1
  <2>8. new \in S
    <3>1. Called(x, name, space) \in One(s[id])
      <4> HIDE DEF One, x, t
      <4> QED BY <2>3, <2>7
    <3> HIDE DEF One
    <3>2. \A i \in ids : new[i] \in One(s[i])
      <4> HIDE DEF x, t, new
      <4> QED BY <2>2, <2>6, <3>1
    <3>3. DOMAIN new = ids /\ new = [i \in ids |-> new[i]]
      BY <2>6
    <3>4. DOMAIN new = DOMAIN one /\ new = [i \in DOMAIN new |-> new[i]] /\ \A i \in DOMAIN one : new[i] \in one[i]
      <4> HIDE DEF new
      <4> QED BY <1>1, <3>2, <3>3
    <3> HIDE DEF new
    <3> QED BY <3>4, Chosen DEF S
  <2>9. more \in SUBSET (W \X C)
    BY <2>1, <2>4, <2>5
  <2>10. NameSchema(d, id) = [schemas |-> new, used |-> more]
    BY DEF NameSchema, name, space, used, x
  <2> HIDE DEF new, more
  <2> QED BY <2>8, <2>9, <2>10
<1>5. b \in D
  <2>1. \A id \in DOMAIN one : s[id] \in one[id]
    <3>1. \A id \in ids : s[id] \in One(s[id])
      OBVIOUS
    <3> HIDE DEF One
    <3> QED BY <1>1, <3>1
  <2>2. s \in S
    BY <1>1, <2>1, Chosen DEF S
  <2> QED BY <2>2
<1>6. end \in D
  <2> HIDE DEF D, b, ids
  <2>1. end \in Ends(D, b, seq, step)
    BY <1>4, <1>5, NameLoop DEF ids
  <2> HIDE DEF end, step
  <2> QED BY <1>5, <2>1, EndsType DEF ids
<1> HIDE DEF end
<1>7. end.schemas \in S
  <2> QED BY <1>6
<1> DEFINE t == end.schemas
<1>8. DOMAIN t = ids /\ t = [id \in ids |-> t[id]] /\ \A id \in ids : t[id] \in One(s[id])
  <2> HIDE DEF One
  <2> QED BY <1>2, <1>7
<1>9. \A id \in ids : Kept(s[id], t[id])
  <2> HIDE DEF One, t
  <2> QED BY <1>3, <1>8
<1> HIDE DEF t
<1>10. Alike(s, t)
  BY <1>8, <1>9 DEF Alike
<1> QED BY <1>10 DEF t, end

\* What a name changes of an operation.
CalledInCs(op, c) == [op EXCEPT !.cs = c]

LEMMA OperationsNamed ==
  ASSUME NEW ids, NEW ops, AreCalls(ops, ids)
  PROVE  AreCalls(SetOperationNames(ops), ids) /\ SameOps(ops, SetOperationNames(ops))
<1> DEFINE T == ToSet(ops)
           Name(op) == op.group \o op.name
           C == Numberings({Name(op) : op \in T})
           Q == {CalledInCs(each[1], each[2]) : each \in T \X C}
           D == [used : SUBSET C, seq : Seq(Q)]
           b == [used |-> {}, seq |-> <<>>]
           step == [each \in D \X T |-> NameOperation(each[1], each[2])]
           end == FoldLeft(NameOperation, b, ops)
           N == Len(ops)
           new == SetOperationNames(ops)
<1>1. /\ ops \in Seq(T) /\ N \in Nat /\ DOMAIN ops = 1..N /\ \A i \in 1..N : ops[i] \in T
      /\ \A op \in T : IsCall(op, ids)
  BY DEF AreCalls, ToSet
<1> HIDE DEF T, C
<1>2. ASSUME NEW d \in D, NEW op \in T
      PROVE  /\ NameOperation(d, op) \in D
             /\ NameOperation(d, op).seq \in {Append(d.seq, CalledInCs(op, c)) : c \in C}
  <2> DEFINE cs == IF Name(op) \in d.used THEN Numbered(Name(op), d.used) ELSE Name(op)
  <2>1. cs \in C
    <3> DEFINE names == {Name(each) : each \in T}
    <3>1. Name(op) \in names
      OBVIOUS
    <3> HIDE DEF names, Name
    <3>2. Numbered(Name(op), d.used) \in Numberings(names)
      BY <3>1, NumberedType
    <3>3. Name(op) \in Numberings(names)
      BY <3>1 DEF Numberings
    <3> QED BY <3>2, <3>3 DEF C, names
  <2>2. NameOperation(d, op) = [used |-> d.used \cup {cs}, seq |-> Append(d.seq, CalledInCs(op, cs))]
    BY DEF NameOperation, CalledInCs
  <2> HIDE DEF cs
  <2>3. CalledInCs(op, cs) \in Q
    <3>1. <<op, cs>> \in T \X C
      BY <2>1
    <3> QED BY <3>1
  <2> HIDE DEF Q
  <2> QED BY <2>1, <2>2, <2>3
<1>3. b \in D
  OBVIOUS
<1> HIDE DEF b
<1>4. PICK h \in Runs(D, b, ops, step) : end = h[N]
  <2> HIDE DEF D
  <2>1. \A d \in D, x \in T : NameOperation(d, x) \in D
    BY <1>2
  <2>2. end \in Ends(D, b, ops, step)
    BY <1>1, <1>3, <2>1, NameOperationLoop
  <2> HIDE DEF end, step
  <2> QED BY <2>2 DEF Ends
<1> HIDE DEF end
<1>5. /\ h \in [0..N -> D] /\ h[0] = b
      /\ \A i \in 1..N : h[i] = step[<<h[i-1], ops[i]>>]
  BY <1>4 DEF Runs
<1> DEFINE Made(n) == /\ Len(h[n].seq) = n
                      /\ \A i \in 1..n : \E c \in C : h[n].seq[i] = CalledInCs(ops[i], c)
           S == {n \in Nat : n <= N => Made(n)}
<1>6. 0 \in S
  <2>1. h[0].seq = <<>>
    BY <1>5 DEF b
  <2> QED BY <2>1
<1>7. ASSUME NEW n \in Nat, n \in S PROVE n + 1 \in S
  <2>1. SUFFICES ASSUME n + 1 <= N PROVE Made(n + 1)
    <3> HIDE DEF Made
    <3> QED OBVIOUS
  <2>2. Made(n) /\ n + 1 \in 1..N /\ n \in 0..N /\ (n + 1) - 1 = n
    BY <1>1, <1>7, <2>1
  <2>3. h[n] \in D /\ ops[n+1] \in T
    <3> HIDE DEF D, N
    <3> QED BY <1>1, <1>5, <2>2
  <2>4. h[n+1] = NameOperation(h[n], ops[n+1])
    <3>1. h[n+1] = step[<<h[n], ops[n+1]>>]
      <4> HIDE DEF step, D, N, Made
      <4> QED BY <1>5, <2>2
    <3> HIDE DEF D, Made
    <3> QED BY <2>3, <3>1
  <2>5. PICK c \in C : h[n+1].seq = Append(h[n].seq, CalledInCs(ops[n+1], c))
    <3> HIDE DEF D
    <3> QED BY <1>2, <2>3, <2>4
  <2>6. h[n].seq \in Seq(Q)
    BY <2>3
  <2> HIDE DEF Q, D, step, N
  <2>7. /\ Len(h[n+1].seq) = n + 1 /\ h[n+1].seq[n+1] = CalledInCs(ops[n+1], c)
        /\ \A i \in 1..n : h[n+1].seq[i] = h[n].seq[i]
    BY <2>2, <2>5, <2>6
  <2>8. ASSUME NEW i \in 1..n+1 PROVE \E e \in C : h[n+1].seq[i] = CalledInCs(ops[i], e)
    <3>1. i \in 1..n \/ i = n + 1
      OBVIOUS
    <3> QED BY <2>2, <2>7, <3>1
  <2> QED BY <2>7, <2>8
<1>8. Made(N)
  <2>1. \A n \in Nat : n \in S
    <3> HIDE DEF S
    <3> QED BY <1>6, <1>7, NatSetInduction
  <2> HIDE DEF Made
  <2> QED BY <1>1, <2>1
<1>9. new = h[N].seq /\ new \in Seq(Q)
  <2>1. new = end.seq
    BY DEF SetOperationNames, end, b
  <2>2. h[N] \in D
    <3> HIDE DEF D, N
    <3> QED BY <1>1, <1>5
  <2> HIDE DEF N, new
  <2> QED BY <1>4, <2>1, <2>2
<1> HIDE DEF new, Q, D, step
<1>10. DOMAIN new = 1..N /\ \A i \in 1..N : \E c \in C : new[i] = CalledInCs(ops[i], c)
  BY <1>8, <1>9
<1>11. ASSUME NEW i \in DOMAIN ops PROVE IsCall(new[i], ids) /\ new[i].id = ops[i].id
  <2>1. PICK c \in C : new[i] = CalledInCs(ops[i], c)
    BY <1>1, <1>10
  <2>2. IsCall(ops[i], ids)
    BY <1>1
  <2> QED BY <2>1, <2>2 DEF IsCall, CalledInCs
<1>12. new = [i \in DOMAIN ops |-> new[i]]
  BY <1>1, <1>9, <1>10
<1>13. AreCalls(new, ids) /\ SameOps(ops, new)
  <2> HIDE DEF N
  <2> QED BY SMTT(20), <1>1, <1>11, <1>12, CallsMade DEF T
<1> QED BY <1>13 DEF new

\* Names are given,
LEMMA CsNamed ==
  ASSUME NEW m, Grounded(m)
  PROVE  Becomes(m, CsName(m)) /\ Alike(m.schemas, CsName(m).schemas)
<1> DEFINE s == m.schemas
           t == SetSchemaNames(m)
           new == SetOperationNames(m.operations)
           n == [m EXCEPT !.schemas = t, !.operations = new]
           seq == m.objects \o m.others
<1>1. /\ AreSchemas(s) /\ s = [id \in DOMAIN s |-> s[id]] /\ AreCalls(m.operations, DOMAIN s)
      /\ m.objects \in Seq(DOMAIN s) /\ m.others \in Seq(DOMAIN s) /\ Fields \subseteq DOMAIN m
  BY ModelParts DEF Grounded
<1>2. Alike(s, t) /\ Remade(s, t)
  <2>1. seq \in Seq(DOMAIN s)
    BY <1>1, Concatenation
  <2> HIDE DEF s, seq
  <2>2. Alike(s, FoldLeft(NameSchema, [schemas |-> s, used |-> {}], seq).schemas)
    BY <1>1, <2>1, SchemasNamed
  <2>3. Alike(s, t)
    BY <2>2 DEF SetSchemaNames, seq, s
  <2> HIDE DEF t
  <2> QED BY <1>1, <2>3, AlikeRemade
<1>3. AreCalls(new, DOMAIN s) /\ SameOps(m.operations, new)
  BY <1>1, OperationsNamed
<1>4. CsName(m) = n
  BY <1>1 DEF CsName, Fields
<1> HIDE DEF t, new
<1>5. /\ Fields \subseteq DOMAIN n /\ n.schemas = t /\ n.objects = m.objects
      /\ n.others = m.others /\ n.operations = new
  BY <1>1 DEF Fields
<1> HIDE DEF n
<1>6. Becomes(m, n)
  BY <1>2, <1>3, <1>5, ModelRemade
<1> QED BY <1>2, <1>4, <1>5, <1>6

\* and changed by directives.
LEMMA DirectiveGrounded ==
  ASSUME NEW m, Grounded(m), NEW d, NEW seq, NEW vs
  PROVE  LET t == Apply(d, [commands |-> seq, schemas |-> m.schemas, virt |-> vs]).schemas
             n == [m EXCEPT !.schemas = t]
         IN Becomes(m, n) /\ Alike(m.schemas, n.schemas) /\ n.operations = m.operations
<1> DEFINE s == m.schemas
           x == [commands |-> seq, schemas |-> s, virt |-> vs]
           t == Apply(d, x).schemas
           n == [m EXCEPT !.schemas = t]
           named == RenameModels(d, s, vs)
           enums == RenameEnums(d, s)
<1>1. AreSchemas(s) /\ Fields \subseteq DOMAIN m /\ IsModel(m) /\ s = [id \in DOMAIN s |-> s[id]]
  BY ModelParts DEF Grounded
<1>2. t \in {s, named, enums}
  BY DEF Apply
<1>3. \A id \in DOMAIN s : \A c : Kept(s[id], s[id]) /\ Kept(s[id], [s[id] EXCEPT !.cs = c])
  <2>1. \A id \in DOMAIN s : {"type", "parents", "props"} \subseteq DOMAIN s[id]
    BY <1>1 DEF AreSchemas, IsSchema, PlainSchema
  <2> QED BY <2>1 DEF Kept
<1>4. named = [id \in DOMAIN s |-> named[id]] /\ \A id \in DOMAIN s : Kept(s[id], named[id])
  BY <1>3 DEF RenameModels
<1>5. enums = [id \in DOMAIN s |-> enums[id]] /\ \A id \in DOMAIN s : Kept(s[id], enums[id])
  BY <1>3 DEF RenameEnums
<1> HIDE DEF t, named, enums
<1>6. t = [id \in DOMAIN s |-> t[id]] /\ \A id \in DOMAIN s : Kept(s[id], t[id])
  BY <1>1, <1>2, <1>3, <1>4, <1>5
<1>7. Alike(s, t) /\ Remade(s, t)
  <2> HIDE DEF s
  <2> QED BY <1>1, <1>6, AlikeEach
<1>8. Becomes(m, n) /\ n.schemas = t /\ n.operations = m.operations
  BY <1>7, OnlySchemas
<1> QED BY <1>7, <1>8 DEF t

\* A command of one of some operations, and commands that all are.
OfOne(c, ids) == "op" \in DOMAIN c /\ c.op \in ids
OfOperations(seq, ids) == \A i \in DOMAIN seq : OfOne(seq[i], ids)
OperationIds(m) == {op.id : op \in ToSet(m.operations)}

\* A model that becomes another keeps the ids of its operations and their number.
LEMMA SameIds ==
  ASSUME NEW m, Grounded(m), NEW m2, Becomes(m, m2)
  PROVE  OperationIds(m2) = OperationIds(m) /\ Len(m2.operations) = Len(m.operations)
<1> DEFINE a == m.operations
           b == m2.operations
<1>1. DOMAIN b = DOMAIN a /\ \A i \in DOMAIN a : b[i].id = a[i].id
  BY DEF Becomes, SameOps
<1>2. /\ Len(a) \in Nat /\ DOMAIN a = 1..Len(a)
      /\ Len(b) \in Nat /\ DOMAIN b = 1..Len(b)
  <2>1. a \in Seq(ToSet(a)) /\ b \in Seq(ToSet(b))
    BY DEF Becomes, Grounded, IsModel
  <2> HIDE DEF a, b
  <2> QED BY <2>1
<1>3. ToSet(a) = {a[i] : i \in DOMAIN a} /\ ToSet(b) = {b[i] : i \in DOMAIN b}
  BY DEF ToSet
<1> HIDE DEF a, b
<1>4. {op.id : op \in ToSet(b)} = {op.id : op \in ToSet(a)}
  BY <1>1, <1>3
<1>5. Len(b) = Len(a)
  BY <1>1, <1>2
<1> QED BY <1>4, <1>5 DEF OperationIds, a, b

\* What is made for an operation is of it.
LEMMA MadeOf ==
  ASSUME NumeralsDiffer, NEW r, Inferred(r), NEW op, IsOperation(op), NEW expandable,
         Missing \notin ToSet(InferCommandNames(op)),
         NEW ids, OfOperations(r.commands, ids), op.id \in ids
  PROVE  OfOperations(CreateCommands(r, op, expandable).commands, ids)
<1> DEFINE new == NewCommands(op, ToSet(InferCommandNames(op)))
           old == ToSet(r.commands)
           C == old \cup new
           seq == CreateCommands(r, op, expandable).commands
<1>1. seq \in Seq(C)
  <2>1. CreateCommands(r, op, expandable) \in Inferrers(C)
    BY MadeAmong
  <2> HIDE DEF C
  <2> QED BY <2>1 DEF Inferrers
<1>2. \A c \in C : OfOne(c, ids)
  <2>1. \A c \in new : OfOne(c, ids)
    <3>1. \A c \in new : "op" \in DOMAIN c /\ c.op = op.id
      BY NewCommandsType
    <3> HIDE DEF new
    <3> QED BY <3>1 DEF OfOne
  <2>2. \A c \in old : OfOne(c, ids)
    BY DEF OfOperations, ToSet
  <2> HIDE DEF old, new
  <2> QED BY <2>1, <2>2
<1> HIDE DEF C, seq
<1>3. \A i \in DOMAIN seq : seq[i] \in C
  BY <1>1
<1>4. OfOperations(seq, ids)
  BY <1>2, <1>3 DEF OfOperations
<1> QED BY <1>4 DEF seq

\* What no plugin changes of a command:
LEMMA StillOf ==
  ASSUME NEW ids, NEW c, OfOne(c, ids)
  PROVE  /\ \A v : OfOne([c EXCEPT !.virtual = v], ids)
         /\ \A v : OfOne([c EXCEPT !.params = v], ids)
         /\ OfOne(SanitizeCommand(c), ids)
         /\ \A d : OfOne(ModifyCommand(d, c), ids)
         /\ \A a, b : OfOne([c EXCEPT !.virtual.operation = a, !.virtual.body = b], ids)
         /\ \A n : OfOne(Changed(c, n), ids)
<1>1. "op" \in DOMAIN c /\ c.op \in ids
  BY DEF OfOne
<1>2. \A p, s, v : OfOne([c EXCEPT !.prefix = p, !.subject = s, !.virtual = v], ids)
  BY <1>1 DEF OfOne
<1>3. OfOne(SanitizeCommand(c), ids)
  BY <1>2 DEF SanitizeCommand
<1>4. ASSUME NEW d PROVE OfOne(ModifyCommand(d, c), ids)
  <2> DEFINE subject == Replaced(d.where.subject, c.subject, d.set.subject)
             prefix == Replaced(d.where.prefix, c.prefix, d.set.prefix)
             verb == Replaced(d.where.verb, <<c.verb>>, d.set.verb)[1]
             name == Replaced(d.where.variant, c.name, d.set.variant)
             hidden == IF d.hide = "unset" THEN c.hidden ELSE d.hide = "yes"
             breaking == Breaking(d, c)
             preview == d.set.preview
             alias == (IF d.clearAlias THEN {} ELSE c.alias) \cup d.set.alias
             new == [c EXCEPT !.subject = subject, !.prefix = prefix, !.verb = verb, !.name = name,
                              !.hidden = hidden, !.breaking = breaking, !.preview = preview,
                              !.alias = alias]
  <2>1. ModifyCommand(d, c) = new
    BY DEF ModifyCommand
  <2> HIDE DEF subject, prefix, verb, name, hidden, breaking, preview, alias
  <2>2. "op" \in DOMAIN new /\ new.op = c.op
    BY <1>1
  <2> HIDE DEF new
  <2> QED BY <1>1, <2>1, <2>2 DEF OfOne
<1>5. /\ \A v : OfOne([c EXCEPT !.virtual = v], ids)
      /\ \A v : OfOne([c EXCEPT !.params = v], ids)
  BY <1>1 DEF OfOne
<1>6. \A a, b : OfOne([c EXCEPT !.virtual.operation = a, !.virtual.body = b], ids)
  BY <1>1 DEF OfOne
<1>7. \A n : OfOne(Changed(c, n), ids)
  <2>1. \A name : OfOne([c EXCEPT !.name = name], ids)
    BY <1>1 DEF OfOne
  <2> QED BY <2>1 DEF Changed
<1> QED BY <1>3, <1>4, <1>5, <1>6, <1>7

\* so the namer leaves commands of the same operations,
LEMMA NamedOf ==
  ASSUME NEW ids, NEW seq, OfOperations(seq, ids)
  PROVE  OfOperations(PsNameCommands(seq), ids)
<1> DEFINE Named(c) == IF SanitizeNames THEN SanitizeCommand(c) ELSE c
           new == PsNameCommands(seq)
<1>1. new = [i \in DOMAIN seq |-> [Named(seq[i]) EXCEPT !.virtual = ResolveParameterNames(@)]]
  BY DEF PsNameCommands
<1>2. ASSUME NEW c, OfOne(c, ids) PROVE OfOne(Named(c), ids)
  BY <1>2, StillOf
<1> HIDE DEF Named, new
<1>3. ASSUME NEW i \in DOMAIN seq PROVE OfOne(new[i], ids)
  <2> DEFINE v == ResolveParameterNames(Named(seq[i]).virtual)
  <2>1. new[i] = [Named(seq[i]) EXCEPT !.virtual = v]
    BY <1>1
  <2>2. OfOne(Named(seq[i]), ids)
    BY <1>2 DEF OfOperations
  <2> HIDE DEF v
  <2>3. OfOne([Named(seq[i]) EXCEPT !.virtual = v], ids)
    BY <2>2, StillOf
  <2> QED BY <2>1, <2>3
<1>4. DOMAIN new = DOMAIN seq
  BY <1>1
<1>5. OfOperations(new, ids)
  BY <1>3, <1>4 DEF OfOperations
<1> QED BY <1>5 DEF new

\* a directive does,
LEMMA DirectedOf ==
  ASSUME NEW ids, NEW seq, OfOperations(seq, ids), AreCommands(seq), NEW d, NEW schemas, NEW v
  PROVE  OfOperations(Apply(d, [commands |-> seq, schemas |-> schemas, virt |-> v]).commands, ids)
<1> DEFINE m == [commands |-> seq, schemas |-> schemas, virt |-> v]
           ofParameters == d.where.parameter # AnyName /\ d.select \in {"none", "parameter"}
           Each(params) == [i \in DOMAIN params |-> ModifyParameter(d, params[i])]
           Modified(c) ==
             IF ofParameters
             THEN [c EXCEPT !.virtual.operation = Each(@), !.virtual.body = Each(@)]
             ELSE ModifyCommand(d, c)
           where == WhereCommand(d, seq)
           removed == RemoveCommand(d, seq)
<1>1. m.commands = seq /\ "commands" \in DOMAIN m
  OBVIOUS
<1>2. OfOperations(where, ids)
  <2>1. where = [i \in DOMAIN seq |-> IF Selected(d, seq[i]) THEN Modified(seq[i]) ELSE seq[i]]
    BY DEF WhereCommand
  <2>2. ASSUME NEW c, OfOne(c, ids) PROVE OfOne(Modified(c), ids)
    <3> DEFINE a == Each(c.virtual.operation)
               b == Each(c.virtual.body)
    <3>1. OfOne(ModifyCommand(d, c), ids)
      BY <2>2, StillOf
    <3>2. \A x, y : OfOne([c EXCEPT !.virtual.operation = x, !.virtual.body = y], ids)
      BY <2>2, StillOf
    <3>3. OfOne([c EXCEPT !.virtual.operation = Each(@), !.virtual.body = Each(@)], ids)
      <4> HIDE DEF Each
      <4> QED BY <3>2
    <3> HIDE DEF ofParameters, Each
    <3> QED BY <3>1, <3>3
  <2> HIDE DEF where, Modified
  <2> QED BY <2>1, <2>2 DEF OfOperations
<1>3. OfOperations(removed, ids)
  <2>1. ASSUME NEW positions PROVE OfOperations(Those(seq, positions), ids)
    <3> DEFINE kept == Those(seq, positions)
    <3>1. seq \in Seq(ToSet(seq))
      BY DEF AreCommands
    <3>2. ToSet(kept) = {seq[i] : i \in DOMAIN seq \cap positions}
      BY <3>1, ThoseElements
    <3>3. \A i \in DOMAIN kept : kept[i] \in ToSet(kept)
      BY DEF ToSet
    <3> HIDE DEF kept
    <3>4. OfOperations(kept, ids)
      BY <3>2, <3>3 DEF OfOperations
    <3> QED BY <3>4 DEF kept
  <2> QED BY <2>1 DEF RemoveCommand
<1> HIDE DEF m, where, removed
<1>4. /\ \A x : [m EXCEPT !.commands = x].commands = x
      /\ \A x : [m EXCEPT !.virt = x].commands = seq
      /\ \A x : [m EXCEPT !.schemas = x].commands = seq
      /\ \A x, y : [m EXCEPT !.schemas = x, !.virt = y].commands = seq
  BY <1>1
<1>5. Apply(d, m).commands \in {seq, where, removed}
  BY <1>1, <1>4 DEF Apply, where, removed
<1> QED BY <1>2, <1>3, <1>5 DEF m

\* and so do new numbers.
LEMMA RenumberedOf ==
  ASSUME NumeralsDiffer, NEW ids, NEW seq, OfOperations(seq, ids), AreCommands(seq)
  PROVE  OfOperations(Renumber(seq), ids)
<1> DEFINE after == Renumber(seq)
<1>1. seq \in Seq(ToSet(seq)) /\ \A c \in ToSet(seq) : IsCommand(c)
  BY DEF AreCommands
<1>2. /\ DOMAIN after = DOMAIN seq
      /\ \E kept \in SUBSET DOMAIN seq :
           /\ \A i \in kept : after[i] = seq[i]
           /\ \A i \in DOMAIN seq \ kept :
                \E m \in 1..Len(seq) : after[i] = Changed(seq[i], m)
           /\ \A i, j \in DOMAIN seq :
                i # j /\ (i \in kept <=> j \in kept) => Key(after[i]) # Key(after[j])
  BY <1>1, RenumberDistinguishes
<1> HIDE DEF after
<1>3. ASSUME NEW i \in DOMAIN seq PROVE OfOne(after[i], ids)
  <2>1. OfOne(seq[i], ids)
    BY DEF OfOperations
  <2>2. \A m : OfOne(Changed(seq[i], m), ids)
    BY <2>1, StillOf
  <2> QED BY <1>2, <2>1, <2>2
<1>4. OfOperations(after, ids)
  BY <1>2, <1>3 DEF OfOperations
<1> QED BY <1>4 DEF after

\* The inductive invariant of what is said of the model: it is closed and no object is its
\* own ancestor, commands are of its operations, and classes are made last.
ModelInv ==
  /\ GenerationInv
  /\ phase \in Phases
  /\ Grounded(model)
  /\ phase \in {"tweakm4", "tweak"} => HasParameters(model)
  /\ inferred \in 0..Len(model.operations) /\ applied \in 0..Len(directives)
  /\ OfOperations(inferrer.commands, OperationIds(model))
  /\ OfOperations(commands, OperationIds(model))
  /\ DOMAIN models \subseteq DOMAIN model.schemas
  /\ phase \notin {"completers", "classes", "done"} => models = <<>>
  /\ IF phase = "done" THEN DOMAIN classes = DOMAIN commands ELSE classes = <<>>

LEMMA ModelStart == Init => ModelInv
<1> SUFFICES ASSUME Init PROVE ModelInv
  OBVIOUS
<1>1. GenerationInv
  BY GenerationStart
<1>2. PICK input \in Inputs : model = input.model /\ directives = input.directives
  BY DEF Init
<1>3. /\ IsModel(model) /\ Rooted(model) /\ AreDirectives(directives)
      /\ \A op \in ToSet(model.operations) : IsParameterized(op, DOMAIN model.schemas)
  BY <1>2, InputsAssumption
<1>4. Grounded(model)
  BY <1>3, DepthExists DEF Grounded
<1>5. HasParameters(model)
  BY <1>3 DEF HasParameters, ToSet
<1>6. Len(model.operations) \in Nat /\ Len(directives) \in Nat
  BY <1>3 DEF IsModel, AreDirectives
<1>7. DOMAIN <<>> = {}
  OBVIOUS
<1>8. /\ phase = "tweakm4" /\ inferred = 0 /\ applied = 0 /\ models = <<>> /\ classes = <<>>
      /\ commands = <<>> /\ inferrer.commands = <<>>
  BY DEF Init, Inferrer
<1>9. \A ids : OfOperations(<<>>, ids)
  BY <1>7 DEF OfOperations
<1> QED BY <1>1, <1>4, <1>5, <1>6, <1>7, <1>8, <1>9 DEF ModelInv, Phases

\* A step that changes the model, and nothing else but the virtual properties and the commands,
LEMMA ModelChanged ==
  ASSUME ModelInv, GenerationInv', Becomes(model, model'),
         UNCHANGED <<inferred, inferrer, directives, models, classes>>,
         OfOperations(commands', OperationIds(model)), applied' \in 0..Len(directives),
         phase \notin {"completers", "classes", "done"},
         phase' \in Phases \ {"completers", "classes", "done"},
         phase' \in {"tweakm4", "tweak"} => HasParameters(model')
  PROVE  ModelInv'
<1>1. OperationIds(model') = OperationIds(model) /\ Len(model'.operations) = Len(model.operations)
  BY SameIds DEF ModelInv
<1>2. Grounded(model')
  BY DEF Becomes
<1>3. DOMAIN <<>> = {}
  OBVIOUS
<1> QED BY <1>1, <1>2, <1>3 DEF ModelInv

\* and one that does not change it.
LEMMA ModelUnchanged ==
  ASSUME ModelInv, GenerationInv',
         UNCHANGED <<model, directives>>, inferred' \in 0..Len(model.operations),
         OfOperations(inferrer'.commands, OperationIds(model)),
         OfOperations(commands', OperationIds(model)), applied' \in 0..Len(directives),
         phase \notin {"tweakm4", "tweak"}, phase' \in Phases \ {"tweakm4", "tweak"},
         DOMAIN models' \subseteq DOMAIN model.schemas,
         phase' \notin {"completers", "classes", "done"} => models' = <<>>,
         IF phase' = "done" THEN DOMAIN classes' = DOMAIN commands' ELSE classes' = <<>>
  PROVE  ModelInv'
BY DEF ModelInv

\* The commands of the next operation are of it.
LEMMA InferredOf ==
  ASSUME NumeralsDiffer, ModelInv, InferOperation
  PROVE  OfOperations(inferrer'.commands, OperationIds(model))
<1> DEFINE op == model.operations[inferred + 1]
<1>1. /\ HasOperations(model) /\ inferred \in Nat /\ inferred < Len(model.operations)
      /\ Inferred(inferrer) /\ OfOperations(inferrer.commands, OperationIds(model))
  BY DEF ModelInv, GenerationInv, InferOperation
<1>2. op \in ToSet(model.operations)
  BY <1>1 DEF HasOperations, ToSet
<1>3. IsOperation(op)
  BY <1>1, <1>2 DEF HasOperations
<1>4. op.id \in OperationIds(model)
  BY <1>2 DEF OperationIds
<1>5. Missing \notin ToSet(InferCommandNames(op))
      /\ inferrer' = CreateCommands(inferrer, op, Expandable(op))
  BY DEF InferOperation
<1> HIDE DEF op
<1>6. OfOperations(CreateCommands(inferrer, op, Expandable(op)).commands, OperationIds(model))
  BY <1>1, <1>3, <1>4, <1>5, MadeOf
<1> QED BY <1>5, <1>6

LEMMA ModelStep ==
  ASSUME NumeralsDiffer, ModelInv, [Next]_vars
  PROVE  ModelInv'
<1> DEFINE ids == OperationIds(model)
<1>1. GenerationInv /\ GenerationInv'
  BY GenerationStep DEF ModelInv
<1>2. /\ Grounded(model) /\ DOMAIN <<>> = {}
      /\ OfOperations(commands, ids) /\ OfOperations(inferrer.commands, ids)
      /\ inferred \in 0..Len(model.operations) /\ applied \in 0..Len(directives)
      /\ Len(model.operations) \in Nat
  BY DEF ModelInv, Grounded, IsModel
<1>3. CASE RunTweakM4
  <2>1. HasParameters(model)
    BY <1>3 DEF ModelInv, RunTweakM4
  <2>2. Becomes(model, TweakM4(model)) /\ HasParameters(TweakM4(model))
    BY <1>2, <2>1, TweakM4Grounded
  <2> QED BY <1>1, <1>2, <1>3, <2>2, ModelChanged DEF RunTweakM4, Phases
<1>4. CASE RunTweak
  <2>1. HasParameters(model)
    BY <1>4 DEF ModelInv, RunTweak
  <2>2. Becomes(model, Tweak(model))
    BY <1>2, <2>1, TweakGrounded
  <2> QED BY <1>1, <1>2, <1>4, <2>2, ModelChanged DEF RunTweak, Phases
<1>5. CASE RunTweakAzure
  <2>1. Becomes(model, TweakAzure(model))
    BY <1>2, AzureGrounded
  <2> QED BY <1>1, <1>2, <1>5, <2>1, ModelChanged DEF RunTweakAzure, Phases
<1>6. CASE InferOperation
  <2>1. OfOperations(inferrer'.commands, ids)
    BY <1>6, InferredOf
  <2>2. inferred' \in 0..Len(model.operations)
    BY <1>2, <1>6 DEF InferOperation
  <2>3. models = <<>> /\ classes = <<>>
    BY <1>6 DEF ModelInv, InferOperation
  <2> QED BY <1>1, <1>2, <1>6, <2>1, <2>2, <2>3, ModelUnchanged DEF InferOperation, Phases
<1>7. CASE InferNothing
  <2>1. models = <<>> /\ classes = <<>>
    BY <1>7 DEF ModelInv, InferNothing
  <2> QED BY <1>1, <1>2, <1>7, <2>1, ModelUnchanged DEF InferNothing, Phases
<1>8. CASE CommandsCreated
  <2>1. models = <<>> /\ classes = <<>>
    BY <1>8 DEF ModelInv, CommandsCreated
  <2> QED BY <1>1, <1>2, <1>8, <2>1, ModelUnchanged DEF CommandsCreated, Phases
<1>9. CASE CreateInlinedProperties
  <2>1. models = <<>> /\ classes = <<>>
    BY <1>9 DEF ModelInv, CreateInlinedProperties
  <2>2. OfOperations(commands', ids)
    <3> DEFINE new(i) == CreateVirtualParameters(commands[i], virt')
               after == [i \in DOMAIN commands |-> [commands[i] EXCEPT !.virtual = new(i)]]
    <3>1. commands' = commands \/ commands' = after
      BY <1>9 DEF CreateInlinedProperties
    <3>2. ASSUME NEW i \in DOMAIN commands PROVE OfOne(after[i], ids)
      <4>1. OfOne(commands[i], ids)
        BY <1>2 DEF OfOperations
      <4> HIDE DEF new, ids
      <4>2. OfOne([commands[i] EXCEPT !.virtual = new(i)], ids)
        BY <4>1, StillOf
      <4> QED BY <4>2
    <3>3. DOMAIN after = DOMAIN commands
      OBVIOUS
    <3> HIDE DEF after, ids
    <3>4. OfOperations(after, ids)
      BY <3>2, <3>3 DEF OfOperations
    <3> QED BY <1>2, <3>1, <3>4
  <2>3. phase' \in {"csnamer", "failed"}
    BY <1>9 DEF CreateInlinedProperties
  <2>4. /\ phase = "virtual"
        /\ UNCHANGED <<model, inferred, inferrer, directives, applied, models, classes>>
    BY <1>9 DEF CreateInlinedProperties
  <2> QED BY <1>1, <1>2, <2>1, <2>2, <2>3, <2>4, ModelUnchanged DEF Phases
<1>10. CASE RunCsNamer
  <2>1. Becomes(model, CsName(model))
    BY <1>2, CsNamed
  <2> QED BY <1>1, <1>2, <1>10, <2>1, ModelChanged DEF RunCsNamer, Phases
<1>11. CASE RunPsNamer
  <2>1. models = <<>> /\ classes = <<>>
    BY <1>11 DEF ModelInv, RunPsNamer
  <2>2. OfOperations(PsNameCommands(commands), ids)
    BY <1>2, NamedOf
  <2> QED BY <1>1, <1>2, <1>11, <2>1, <2>2, ModelUnchanged DEF RunPsNamer, Phases
<1>12. CASE IncorrectDirective
  <2>1. models = <<>> /\ classes = <<>>
    BY <1>12 DEF ModelInv, IncorrectDirective
  <2> QED BY <1>1, <1>2, <1>12, <2>1, ModelUnchanged DEF IncorrectDirective, Phases
<1>13. CASE ApplyDirective
  <2> DEFINE d == directives[applied + 1]
             changed == Apply(d, [commands |-> commands, schemas |-> model.schemas, virt |-> virt])
  <2>1. AreCommands(commands) /\ Len(directives) \in Nat
    BY <1>1, <1>13 DEF GenerationInv, ApplyDirective, AreDirectives
  <2>2. OfOperations(changed.commands, ids)
    <3> HIDE DEF d
    <3> QED BY <1>2, <2>1, DirectedOf
  <2>3. Becomes(model, [model EXCEPT !.schemas = changed.schemas])
    <3> HIDE DEF d
    <3> QED BY <1>2, DirectiveGrounded
  <2>4. /\ phase = "modifiers" /\ phase' = "modifiers"
        /\ commands' = changed.commands /\ model' = [model EXCEPT !.schemas = changed.schemas]
        /\ applied < Len(directives) /\ applied' = applied + 1
        /\ UNCHANGED <<inferred, inferrer, directives, models, classes>>
    BY <1>13 DEF ApplyDirective
  <2> HIDE DEF changed
  <2>5. applied' \in 0..Len(directives)
    BY <1>2, <2>1, <2>4
  <2> QED BY <1>1, <1>2, <2>2, <2>3, <2>4, <2>5, ModelChanged DEF Phases
<1>14. CASE DirectivesApplied
  <2>1. models = <<>> /\ classes = <<>>
    BY <1>14 DEF ModelInv, DirectivesApplied
  <2>2. AreCommands(commands)
    BY <1>1, <1>14 DEF GenerationInv, DirectivesApplied
  <2>3. OfOperations(Renumber(commands), ids)
    BY <1>2, <2>2, RenumberedOf
  <2> QED BY <1>1, <1>2, <1>14, <2>1, <2>3, ModelUnchanged DEF DirectivesApplied, Phases
<1>15. CASE CreateModelClasses
  <2>1. classes = <<>>
    BY <1>15 DEF ModelInv, CreateModelClasses
  <2>2. \A v, objects : DOMAIN ModelClasses(model.schemas, v, objects) \subseteq DOMAIN model.schemas
    BY DEF ModelClasses
  <2>3. DOMAIN models' \subseteq DOMAIN model.schemas
    BY <1>15, <2>2 DEF CreateModelClasses
  <2> QED BY <1>1, <1>2, <1>15, <2>1, <2>3, ModelUnchanged DEF CreateModelClasses, Phases
<1>16. CASE AddCompleters
  <2>1. classes = <<>> /\ DOMAIN models \subseteq DOMAIN model.schemas
    BY <1>16 DEF ModelInv, AddCompleters
  <2>2. OfOperations(commands', ids)
    <3> DEFINE new(i) == [j \in DOMAIN commands[i].params |->
                            [commands[i].params[j] EXCEPT !.completer = CompleterOf(commands[i].params[j])]]
               after == [i \in DOMAIN commands |-> [commands[i] EXCEPT !.params = new(i)]]
    <3>1. commands' = after
      BY <1>16 DEF AddCompleters
    <3>2. ASSUME NEW i \in DOMAIN commands PROVE OfOne(after[i], ids)
      <4>1. OfOne(commands[i], ids)
        BY <1>2 DEF OfOperations
      <4> HIDE DEF new, ids
      <4>2. OfOne([commands[i] EXCEPT !.params = new(i)], ids)
        BY <4>1, StillOf
      <4> QED BY <4>2
    <3>3. DOMAIN after = DOMAIN commands
      OBVIOUS
    <3> HIDE DEF after, ids
    <3>4. OfOperations(after, ids)
      BY <3>2, <3>3 DEF OfOperations
    <3> QED BY <3>1, <3>4
  <2>3. /\ phase = "completers" /\ phase' = "classes"
        /\ UNCHANGED <<model, inferred, inferrer, directives, applied, models, classes>>
    BY <1>16 DEF AddCompleters
  <2> QED BY <1>1, <1>2, <2>1, <2>2, <2>3, ModelUnchanged DEF Phases
<1>17. CASE CreateClasses
  <2>1. DOMAIN models \subseteq DOMAIN model.schemas
    BY DEF ModelInv
  <2>2. /\ phase = "classes" /\ phase' = "done" /\ DOMAIN classes' = DOMAIN commands
        /\ UNCHANGED <<model, inferred, inferrer, commands, directives, applied, models>>
    BY <1>17 DEF CreateClasses
  <2> QED BY <1>1, <1>2, <2>1, <2>2, ModelUnchanged DEF Phases
<1>18. CASE UNCHANGED vars
  BY <1>1, <1>18 DEF ModelInv, vars, OfOperations, OperationIds, HasParameters
<1> QED BY <1>3, <1>4, <1>5, <1>6, <1>7, <1>8, <1>9, <1>10, <1>11, <1>12, <1>13, <1>14, <1>15,
           <1>16, <1>17, <1>18 DEF Next

\* The invariant says more than the types.
LEMMA ModelTyped == ModelInv => TypeOK
<1> SUFFICES ASSUME ModelInv PROVE TypeOK
  OBVIOUS
<1> DEFINE ids == DOMAIN model.schemas
<1>1. IsModel(model)
  BY DEF ModelInv, Grounded
<1>2. Objects = {id \in ids : model.schemas[id].type = "object"}
  BY <1>1 DEF IsModel, Objects
<1>3. ASSUME NEW id \in ids
      PROVE  {p.schema : p \in ToSet(model.schemas[id].props)} \subseteq ids
  BY <1>1 DEF IsModel, IsSchema
<1>4. ASSUME NEW op \in ToSet(model.operations), NEW r \in ToSet(op.responses \o op.exceptions)
      PROVE  {r.schema, r.headerSchema} \subseteq ids \cup {<<>>}
  <2>1. IsCall(op, ids)
    BY <1>1 DEF IsModel
  <2> DEFINE a == op.responses
             b == op.exceptions
  <2>2. /\ a \in Seq(ToSet(a)) /\ b \in Seq(ToSet(b))
        /\ (\A x \in ToSet(a) : IsResponse(x, ids)) /\ \A x \in ToSet(b) : IsResponse(x, ids)
    BY <2>1 DEF IsCall
  <2>3. r \in ToSet(a \o b)
    OBVIOUS
  <2> DEFINE both == ToSet(a) \cup ToSet(b)
  <2> HIDE DEF a, b
  <2>4. r \in ToSet(a) \cup ToSet(b)
    <3>1. a \in Seq(both) /\ b \in Seq(both)
      BY <2>2
    <3> HIDE DEF both
    <3>2. ToSet(a \o b) = ToSet(a) \cup ToSet(b)
      BY <3>1, Concatenation
    <3> QED BY <2>3, <3>2
  <2> QED BY <2>2, <2>4 DEF IsResponse
<1>5. {c.op : c \in ToSet(commands)} \subseteq {op.id : op \in ToSet(model.operations)}
  BY DEF ModelInv, OfOperations, OfOne, OperationIds, ToSet
<1>6. DOMAIN classes \subseteq DOMAIN commands
  <2>1. DOMAIN <<>> = {}
    OBVIOUS
  <2> QED BY <2>1 DEF ModelInv
<1>7. /\ phase \in Phases /\ DOMAIN models \subseteq ids
      /\ inferred \in 0..Len(model.operations) /\ applied \in 0..Len(directives)
  BY DEF ModelInv
<1> QED BY <1>2, <1>3, <1>4, <1>5, <1>6, <1>7 DEF TypeOK

\* The model the plugins hand on is closed at every step: whatever schema is referred to is in
\* it, the ones that are made up for headers and for the identity included, and so is the
\* operation of every command that was made, named, changed by directives and numbered.
THEOREM ModelsClosed == ASSUME NumeralsDiffer PROVE Spec => []TypeOK
<1>1. Init => ModelInv
  BY ModelStart
<1>2. ModelInv /\ [Next]_vars => ModelInv'
  BY ModelStep
<1>3. ModelInv => TypeOK
  BY ModelTyped
<1> QED BY <1>1, <1>2, <1>3, PTL DEF Spec
=============================================================================
