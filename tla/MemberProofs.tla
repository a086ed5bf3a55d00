---------------------------- MODULE MemberProofs ----------------------------
(***************************************************************************)
(* The members of the schemas: that no plugin takes one away (MembersStay) *)
(* and that each can be reached by a property of the class that is made    *)
(* (MembersReached).                                                       *)
(***************************************************************************)
EXTENDS ModelProofs

\* What holds of a schema if it holds of its parents holds of every schema.
LEMMA DepthInduction ==
  ASSUME NEW s, AreSchemas(s), NEW depth \in Depths(s), NEW G,
         \A id \in DOMAIN s : ToSet(s[id].parents) \subseteq G => id \in G
  PROVE  DOMAIN s \subseteq G
<1> DEFINE A == DOMAIN s
           S == {n \in Nat : \A id \in A : depth[id] < n => id \in G}
<1>1. depth \in [A -> Nat] /\ \A id \in A : \A parent \in ToSet(s[id].parents) : depth[parent] < depth[id]
  BY DEF Depths
<1>2. 0 \in S
  BY <1>1
<1>3. \A id \in A : ToSet(s[id].parents) \subseteq A
  <2>1. \A id \in A : s[id].parents \in Seq(A)
    BY DEF AreSchemas, IsSchema
  <2> HIDE DEF A
  <2> QED BY <2>1 DEF ToSet
<1>4. ASSUME NEW n \in Nat, n \in S PROVE n + 1 \in S
  <2>1. SUFFICES ASSUME NEW id \in A, depth[id] < n + 1 PROVE id \in G
    OBVIOUS
  <2>2. \A parent \in ToSet(s[id].parents) : parent \in A /\ depth[parent] < n
    <3> HIDE DEF A
    <3> QED BY <1>1, <1>3, <2>1
  <2>3. ToSet(s[id].parents) \subseteq G
    BY <1>4, <2>2
  <2> QED BY <2>1, <2>3
<1>5. \A n \in Nat : n \in S
  <2> HIDE DEF S
  <2> QED BY <1>2, <1>4, NatSetInduction
<1>6. \A id \in A : depth[id] + 1 \in Nat /\ depth[id] < depth[id] + 1
  BY <1>1
<1> QED BY <1>5, <1>6

LEMMA AppendElements ==
  ASSUME NEW T, NEW seq \in Seq(T), NEW x
  PROVE  ToSet(Append(seq, x)) = ToSet(seq) \cup {x}
<1> DEFINE new == Append(seq, x)
           n == Len(seq)
<1>1. n \in Nat /\ DOMAIN seq = 1..n /\ DOMAIN new = 1..(n+1)
      /\ (\A i \in 1..n : new[i] = seq[i]) /\ new[n+1] = x
  OBVIOUS
<1>2. ToSet(seq) = {seq[i] : i \in 1..n} /\ ToSet(new) = {new[i] : i \in 1..(n+1)}
  BY <1>1 DEF ToSet
<1> HIDE DEF new, n
<1>3. 1..(n+1) = (1..n) \cup {n+1}
  BY <1>1
<1>4. ToSet(new) = ToSet(seq) \cup {x}
  BY <1>1, <1>2, <1>3
<1> QED BY <1>4 DEF new

\* The lineage of a schema is itself and those of its parents.
LEMMA LineageParts ==
  ASSUME NEW s, AreSchemas(s), NEW depth \in Depths(s), NEW id \in DOMAIN s
  PROVE  /\ Lineage(s, id) = {id} \cup UNION {Lineage(s, p) : p \in ToSet(s[id].parents)}
         /\ id \in Lineage(s, id) /\ Lineage(s, id) \subseteq DOMAIN s
<1> DEFINE D == DOMAIN s
           parents == s[id].parents
           lines == [i \in DOMAIN parents |-> Ancestry(s, parents[i])]
<1>1. /\ Ancestry(s, id) \in Seq(D) /\ lines \in Seq(Seq(D))
      /\ Ancestry(s, id) = Append(FlattenSeq(lines), id)
  BY AncestryType
<1>2. DOMAIN lines = DOMAIN parents /\ \A i \in DOMAIN parents : ToSet(lines[i]) = Lineage(s, parents[i])
  BY DEF Lineage
<1> HIDE DEF lines, D
<1>3. FlattenSeq(lines) \in Seq(D) /\ ToSet(FlattenSeq(lines)) = UNION {ToSet(lines[i]) : i \in DOMAIN lines}
  BY <1>1, FlattenType
<1>4. Lineage(s, id) = ToSet(FlattenSeq(lines)) \cup {id}
  BY <1>1, <1>3, AppendElements DEF Lineage
<1>5. UNION {Lineage(s, p) : p \in ToSet(parents)} = UNION {ToSet(lines[i]) : i \in DOMAIN lines}
  <2> HIDE DEF parents
  <2> QED BY <1>2 DEF ToSet
<1>6. Lineage(s, id) \subseteq D
  BY <1>1, Contents DEF Lineage
<1> QED BY <1>3, <1>4, <1>5, <1>6 DEF D

\* Ancestors of ancestors are ancestors, and none is as deep.
LEMMA LineageFacts ==
  ASSUME NEW s, AreSchemas(s), NEW depth \in Depths(s), NEW id \in DOMAIN s, NEW u \in Lineage(s, id)
  PROVE  /\ u \in DOMAIN s /\ Lineage(s, u) \subseteq Lineage(s, id)
         /\ u = id \/ depth[u] < depth[id]
<1> DEFINE D == DOMAIN s
           Line(x) == Lineage(s, x)
           Above(x) == ToSet(s[x].parents)
           G == {x \in D : \A y \in Line(x) : y = x \/ (depth[y] < depth[x] /\ Line(y) \subseteq Line(x))}
<1>1. \A x \in D : /\ Line(x) = {x} \cup UNION {Line(p) : p \in Above(x)}
                   /\ Line(x) \subseteq D
  BY LineageParts
<1>2. depth \in [D -> Nat] /\ \A x \in D : \A p \in Above(x) : p \in D /\ depth[p] < depth[x]
  <2>1. \A x \in D : s[x].parents \in Seq(D)
    BY DEF AreSchemas, IsSchema
  <2>2. \A x \in D : Above(x) \subseteq D
    <3> HIDE DEF D
    <3> QED BY <2>1, Contents
  <2> QED BY <2>2 DEF Depths
<1>3. ASSUME NEW x \in D, Above(x) \subseteq G PROVE x \in G
  <2> SUFFICES ASSUME NEW y \in Line(x), y # x PROVE depth[y] < depth[x] /\ Line(y) \subseteq Line(x)
    OBVIOUS
  <2> HIDE DEF Line, Above, D
  <2>1. PICK p \in Above(x) : y \in Line(p)
    BY <1>1
  <2>2. p \in D /\ depth[p] < depth[x] /\ Line(p) \subseteq Line(x) /\ p \in G
    BY <1>1, <1>2, <1>3
  <2>3. y \in D /\ depth[y] \in Nat /\ depth[x] \in Nat /\ depth[p] \in Nat
    BY <1>1, <1>2, <2>1, <2>2
  <2>4. y = p \/ (depth[y] < depth[p] /\ Line(y) \subseteq Line(p))
    BY <2>1, <2>2
  <2> QED BY <2>2, <2>3, <2>4
<1>4. D \subseteq G
  <2> HIDE DEF G
  <2> QED BY <1>3, DepthInduction
<1>5. id \in G /\ u \in D
  BY <1>1, <1>4
<1> QED BY <1>5

\* Schemas with the same parents have the same ancestors.
LEMMA SameAncestry ==
  ASSUME NEW s, AreSchemas(s), NEW depth \in Depths(s),
         NEW t, AreSchemas(t), Depths(t) # {}, DOMAIN s \subseteq DOMAIN t,
         \A x \in DOMAIN s : t[x].parents = s[x].parents,
         NEW id \in DOMAIN s
  PROVE  Ancestry(t, id) = Ancestry(s, id) /\ Lineage(t, id) = Lineage(s, id)
<1> DEFINE D == DOMAIN s
           G == {x \in D : Ancestry(t, x) = Ancestry(s, x)}
           Lines(r, x) == [i \in DOMAIN s[x].parents |-> Ancestry(r, s[x].parents[i])]
<1>1. PICK other \in Depths(t) : TRUE
  OBVIOUS
<1>2. \A x \in D : /\ Ancestry(s, x) = Append(FlattenSeq(Lines(s, x)), x)
                   /\ Ancestry(t, x) = Append(FlattenSeq(Lines(t, x)), x)
  <2>1. \A x \in DOMAIN s : Ancestry(s, x) = Append(FlattenSeq(Lines(s, x)), x)
    BY AncestryType
  <2>2. \A x \in DOMAIN t : Ancestry(t, x)
          = Append(FlattenSeq([i \in DOMAIN t[x].parents |-> Ancestry(t, t[x].parents[i])]), x)
    BY <1>1, AncestryType
  <2> QED BY <2>1, <2>2
<1>3. ASSUME NEW x \in D, ToSet(s[x].parents) \subseteq G PROVE x \in G
  <2>1. \A i \in DOMAIN s[x].parents : Ancestry(t, s[x].parents[i]) = Ancestry(s, s[x].parents[i])
    BY <1>3 DEF ToSet
  <2>2. Lines(t, x) = Lines(s, x)
    BY <2>1
  <2> HIDE DEF Lines
  <2> QED BY <1>2, <2>2
<1>4. D \subseteq G
  <2> HIDE DEF G
  <2> QED BY <1>3, DepthInduction
<1> QED BY <1>4 DEF Lineage

\* All properties of a schema: those of its parents, one after the other, and its own.
LEMMA AllPropertiesType ==
  ASSUME NEW s, AreSchemas(s), NEW depth \in Depths(s)
  PROVE  \A id \in DOMAIN s :
           LET parents == s[id].parents
               lists == [i \in DOMAIN parents |-> AllProperties(s, parents[i])]
           IN /\ AllProperties(s, id) \in Seq(PropsIn(s))
              /\ lists \in Seq(Seq(PropsIn(s)))
              /\ AllProperties(s, id)
                 = IF s[id].type # "object" THEN <<>> ELSE FlattenSeq(lists) \o s[id].props
<1> DEFINE A == DOMAIN s
           P == PropsIn(s)
           D == Seq(P)
           Lists(id, f) == [i \in DOMAIN s[id].parents |-> f[s[id].parents[i]]]
           List(id, f) == IF s[id].type # "object" THEN <<>> ELSE FlattenSeq(Lists(id, f)) \o s[id].props
           step == [each \in A \X [A -> D] |-> List(each[1], each[2])]
           all == CHOOSE f : f = [id \in A |-> List(id, f)]
<1>0. \A id \in A : s[id].props \in D
  <2>1. \A id \in A : s[id].props \in Seq(ToSet(s[id].props)) /\ ToSet(s[id].props) \subseteq P
    BY DEF AreSchemas, IsSchema, PropsIn
  <2> HIDE DEF P, A
  <2> QED BY <2>1
<1>1. ASSUME NEW id \in A, NEW f,
             \A i \in DOMAIN s[id].parents : f[s[id].parents[i]] \in D
      PROVE  Lists(id, f) \in Seq(D) /\ List(id, f) \in D
  <2>1. s[id].parents \in Seq(A)
    BY Parents
  <2>2. Lists(id, f) \in Seq(D)
    <3> HIDE DEF A, D
    <3> QED BY <1>1, <2>1, Mapped
  <2> HIDE DEF Lists
  <2>3. FlattenSeq(Lists(id, f)) \in D
    <3> HIDE DEF P
    <3> QED BY <2>2, FlattenType
  <2>4. FlattenSeq(Lists(id, f)) \o s[id].props \in D
    <3> HIDE DEF P
    <3> QED BY <1>0, <2>3, Concatenation
  <2>5. <<>> \in D
    OBVIOUS
  <2> HIDE DEF A, D
  <2> QED BY <2>2, <2>4, <2>5
<1>2. step \in [A \X [A -> D] -> D]
  <2>1. \A id \in A : \A i \in DOMAIN s[id].parents : s[id].parents[i] \in A
    BY Parents
  <2> HIDE DEF A, D, List
  <2> QED BY <1>1, <2>1
<1>3. depth \in [A -> Nat] /\ D # {}
  <2>1. <<>> \in D
    OBVIOUS
  <2> HIDE DEF D
  <2> QED BY <2>1 DEF Depths
<1>4. Descends(A, D, depth, step)
  <2>1. ASSUME NEW id \in A, NEW f \in [A -> D], NEW g \in [A -> D],
               \A each \in A : depth[each] < depth[id] => f[each] = g[each]
        PROVE  step[<<id, f>>] = step[<<id, g>>]
    <3>1. \A i \in DOMAIN s[id].parents : f[s[id].parents[i]] = g[s[id].parents[i]]
      BY <2>1, Parents
    <3>2. Lists(id, f) = Lists(id, g)
      BY <3>1
    <3> HIDE DEF A, D, Lists
    <3> QED BY <3>2
  <2> HIDE DEF A, D, List, step
  <2> QED BY <2>1 DEF Descends
<1>5. PICK g \in [A -> D] : \A id \in A : g[id] = step[<<id, g>>]
  <2> HIDE DEF A, D, step
  <2>1. Solutions(A, D, step) # {}
    BY <1>2, <1>3, <1>4, RecursionExists
  <2> QED BY <2>1 DEF Solutions
<1>6. g = [id \in A |-> List(id, g)]
  <2> HIDE DEF A, D, List
  <2> QED BY <1>5
<1>7. all = [id \in A |-> List(id, all)]
  <2> HIDE DEF A, List
  <2> QED BY <1>6
<1>8. \A id \in A : AllProperties(s, id) = all[id]
  BY DEF AllProperties
<1> HIDE DEF all
<1> DEFINE G == {id \in A : all[id] \in D}
<1>9. ASSUME NEW id \in A, ToSet(s[id].parents) \subseteq G PROVE id \in G
  <2>1. \A i \in DOMAIN s[id].parents : all[s[id].parents[i]] \in D
    BY <1>9 DEF ToSet
  <2>2. List(id, all) \in D
    <3> HIDE DEF A, D, List, Lists
    <3> QED BY <1>1, <2>1
  <2>3. all[id] = List(id, all)
    <3> HIDE DEF List, A
    <3> QED BY <1>7
  <2> HIDE DEF List, D
  <2> QED BY <2>2, <2>3
<1>10. A \subseteq G
  <2> HIDE DEF G
  <2> QED BY <1>9, DepthInduction
<1>11. ASSUME NEW id \in A
       PROVE  /\ AllProperties(s, id) \in D
              /\ [i \in DOMAIN s[id].parents |-> AllProperties(s, s[id].parents[i])] \in Seq(D)
              /\ AllProperties(s, id)
                 = IF s[id].type # "object" THEN <<>>
                   ELSE FlattenSeq([i \in DOMAIN s[id].parents |-> AllProperties(s, s[id].parents[i])]) \o s[id].props
  <2>1. \A i \in DOMAIN s[id].parents : s[id].parents[i] \in A
    BY Parents
  <2>2. Lists(id, all) = [i \in DOMAIN s[id].parents |-> AllProperties(s, s[id].parents[i])]
    BY <1>8, <2>1
  <2>3. \A x \in A : all[x] \in D
    <3> HIDE DEF A, D
    <3> QED BY <1>10
  <2>4. Lists(id, all) \in Seq(D)
    <3> HIDE DEF A, D, List, Lists
    <3> QED BY <1>1, <2>1, <2>3
  <2>5. all[id] = List(id, all)
    <3> HIDE DEF List, A
    <3> QED BY <1>7
  <2> HIDE DEF A, D, Lists
  <2> QED BY <1>8, <2>2, <2>3, <2>4, <2>5
<1> QED BY <1>11

\* So its members are its own and those of its parents,
LEMMA MembersParts ==
  ASSUME NEW s, AreSchemas(s), NEW depth \in Depths(s), NEW id \in DOMAIN s
  PROVE  Members(s, id) = Sers(s[id]) \cup UNION {Members(s, p) : p \in ToSet(s[id].parents)}
<1> DEFINE parents == s[id].parents
           lists == [i \in DOMAIN parents |-> AllProperties(s, parents[i])]
           P == PropsIn(s)
<1>1. /\ lists \in Seq(Seq(P))
      /\ AllProperties(s, id) = IF s[id].type # "object" THEN <<>> ELSE FlattenSeq(lists) \o s[id].props
  BY AllPropertiesType
<1>2. DOMAIN lists = DOMAIN parents /\ \A i \in DOMAIN parents : lists[i] = AllProperties(s, parents[i])
  OBVIOUS
<1>3. s[id].props \in Seq(P)
  <2>1. s[id].props \in Seq(ToSet(s[id].props)) /\ ToSet(s[id].props) \subseteq P
    BY DEF AreSchemas, IsSchema, PropsIn
  <2> HIDE DEF P
  <2> QED BY <2>1
<1> HIDE DEF lists, P
<1>4. CASE s[id].type # "object"
  <2>1. parents = <<>> /\ s[id].props = <<>>
    BY <1>4 DEF AreSchemas, IsSchema
  <2>2. ToSet(<<>>) = {}
    BY DEF ToSet
  <2>3. Members(s, id) = {} /\ Sers(s[id]) = {} /\ ToSet(parents) = {}
    BY <1>1, <1>4, <2>1, <2>2 DEF Members, Sers
  <2> HIDE DEF parents
  <2> QED BY <2>3 DEF parents
<1>5. CASE s[id].type = "object"
  <2> DEFINE flat == FlattenSeq(lists)
  <2>1. flat \in Seq(P) /\ ToSet(flat) = UNION {ToSet(lists[i]) : i \in DOMAIN lists}
    BY <1>1, FlattenType
  <2> HIDE DEF flat
  <2>2. ToSet(AllProperties(s, id)) = ToSet(flat) \cup ToSet(s[id].props)
    BY <1>1, <1>3, <1>5, <2>1, Concatenation DEF flat
  <2>3. UNION {Members(s, p) : p \in ToSet(parents)}
        = UNION {{p.ser : p \in ToSet(lists[i])} : i \in DOMAIN lists}
    <3> HIDE DEF parents
    <3>1. \A i \in DOMAIN parents : Members(s, parents[i]) = {p.ser : p \in ToSet(lists[i])}
      BY <1>2 DEF Members
    <3> QED BY <1>2, <3>1 DEF ToSet
  <2>4. UNION {{p.ser : p \in ToSet(lists[i])} : i \in DOMAIN lists} = {p.ser : p \in ToSet(flat)}
    BY <2>1
  <2>5. Members(s, id) = {p.ser : p \in ToSet(flat)} \cup Sers(s[id])
    BY <2>2 DEF Members, Sers
  <2> QED BY <2>3, <2>4, <2>5
<1> QED BY <1>4, <1>5

\* which is what is in its lineage.
LEMMA MembersLineage ==
  ASSUME NEW s, AreSchemas(s), NEW depth \in Depths(s), NEW id \in DOMAIN s
  PROVE  Members(s, id) = UNION {Sers(s[u]) : u \in Lineage(s, id)}
<1> DEFINE D == DOMAIN s
           Line(x) == Lineage(s, x)
           All(x) == UNION {Sers(s[u]) : u \in Line(x)}
           Mem(x) == Members(s, x)
           G == {x \in D : Mem(x) = All(x)}
<1>1. ASSUME NEW x \in D, ToSet(s[x].parents) \subseteq G PROVE x \in G
  <2> DEFINE above == ToSet(s[x].parents)
  <2>1. Mem(x) = Sers(s[x]) \cup UNION {Mem(p) : p \in above}
    BY MembersParts
  <2>2. Line(x) = {x} \cup UNION {Line(p) : p \in above}
    BY LineageParts
  <2>3. \A p \in above : Mem(p) = All(p)
    BY <1>1
  <2> HIDE DEF Mem, Line, above
  <2>4. All(x) = Sers(s[x]) \cup UNION {All(p) : p \in above}
    BY <2>2
  <2> HIDE DEF All
  <2>5. Mem(x) = All(x)
    BY <2>1, <2>3, <2>4
  <2> QED BY <2>5
<1>2. D \subseteq G
  <2> HIDE DEF G
  <2> QED BY <1>1, DepthInduction
<1> QED BY <1>2

\* Where no schema lost a property of its own, none lost a member.
LEMMA GrownMembers ==
  ASSUME NEW s, AreSchemas(s), Depths(s) # {}, NEW t, AreSchemas(t), Depths(t) # {},
         Grown(s, t), NEW id \in DOMAIN s
  PROVE  Members(s, id) \subseteq Members(t, id)
<1>1. PICK depth \in Depths(s) : TRUE
  OBVIOUS
<1>2. PICK other \in Depths(t) : TRUE
  OBVIOUS
<1>3. /\ DOMAIN s \subseteq DOMAIN t /\ id \in DOMAIN t
      /\ \A x \in DOMAIN s : t[x].parents = s[x].parents
      /\ \A x \in DOMAIN s : Sers(s[x]) \subseteq Sers(t[x])
  BY DEF Grown
<1>4. Lineage(t, id) = Lineage(s, id) /\ Lineage(s, id) \subseteq DOMAIN s
  BY <1>1, <1>3, SameAncestry, LineageParts
<1>5. /\ Members(s, id) = UNION {Sers(s[u]) : u \in Lineage(s, id)}
      /\ Members(t, id) = UNION {Sers(t[u]) : u \in Lineage(t, id)}
  BY <1>1, <1>2, <1>3, MembersLineage
<1> QED BY <1>3, <1>4, <1>5

\* Two schemas of a lineage that are on different lines: those of two parents.
Apart(s, d, a, b) ==
  \E j \in Lineage(s, d) : \E x, y \in DOMAIN s[j].parents :
    x < y /\ a \in Lineage(s, s[j].parents[x]) /\ b \in Lineage(s, s[j].parents[y])

\* What comes before a schema is an ancestor of it, or on another line.
LEMMA AncestryOrder ==
  ASSUME NEW s, AreSchemas(s), NEW depth \in Depths(s), NEW d \in DOMAIN s,
         NEW i \in DOMAIN Ancestry(s, d), NEW k \in DOMAIN Ancestry(s, d), i < k
  PROVE  LET a == Ancestry(s, d)[i]
             b == Ancestry(s, d)[k]
         IN (a # b /\ a \in Lineage(s, b)) \/ Apart(s, d, a, b)
<1> DEFINE D == DOMAIN s
           A(x) == Ancestry(s, x)
           Line(x) == Lineage(s, x)
           Before(x, a, b) == (a # b /\ a \in Line(b)) \/ Apart(s, x, a, b)
           G == {x \in D : \A u, v \in DOMAIN A(x) : u < v => Before(x, A(x)[u], A(x)[v])}
<1>1. ASSUME NEW x \in D, ToSet(s[x].parents) \subseteq G PROVE x \in G
  <2> DEFINE parents == s[x].parents
             lines == [n \in DOMAIN parents |-> A(parents[n])]
             flat == FlattenSeq(lines)
  <2>1. lines \in Seq(Seq(D)) /\ A(x) = Append(flat, x)
    BY AncestryType
  <2>2. flat \in Seq(D) /\ ToSet(flat) = UNION {ToSet(lines[n]) : n \in DOMAIN lines}
    <3> HIDE DEF lines
    <3> QED BY <2>1, FlattenType
  <2>3. /\ DOMAIN lines = DOMAIN parents
        /\ \A n \in DOMAIN parents : lines[n] = A(parents[n]) /\ ToSet(lines[n]) = Line(parents[n])
    BY DEF Lineage
  <2>4. \A n \in DOMAIN parents : parents[n] \in D /\ parents[n] \in G /\ depth[parents[n]] < depth[x]
    <3>1. \A n \in DOMAIN parents : parents[n] \in ToSet(parents)
      BY DEF ToSet
    <3> HIDE DEF G
    <3> QED BY <1>1, <3>1, Parents
  <2>5. Line(x) = {x} \cup UNION {Line(p) : p \in ToSet(parents)}
    BY LineageParts
  <2>6. \A n \in DOMAIN parents : Line(parents[n]) \subseteq Line(x)
    <3> HIDE DEF Line, parents
    <3> QED BY <2>5 DEF ToSet
  <2>7. depth \in [D -> Nat]
    BY DEF Depths
  <2> SUFFICES ASSUME NEW u \in DOMAIN A(x), NEW v \in DOMAIN A(x), u < v
               PROVE  Before(x, A(x)[u], A(x)[v])
    OBVIOUS
  <2>8. /\ Len(flat) \in Nat /\ DOMAIN flat = 1..Len(flat) /\ DOMAIN A(x) = 1..(Len(flat)+1)
        /\ (\A n \in DOMAIN flat : A(x)[n] = flat[n]) /\ A(x)[Len(flat)+1] = x
    <3> HIDE DEF flat
    <3> QED BY <2>1, <2>2
  <2> HIDE DEF flat
  <2>9. u \in DOMAIN flat
    BY <2>8
  <2>10. CASE v = Len(flat) + 1
    <3>1. A(x)[u] \in ToSet(flat)
      BY <2>8, <2>9 DEF ToSet
    <3>2. PICK n \in DOMAIN parents : A(x)[u] \in Line(parents[n])
      <4> HIDE DEF Line, A, lines, parents
      <4> QED BY <2>2, <2>3, <3>1
    <3>3. parents[n] \in D /\ depth[parents[n]] < depth[x] /\ Line(parents[n]) \subseteq Line(x)
      BY <2>4, <2>6
    <3>4. A(x)[u] \in D /\ (A(x)[u] = parents[n] \/ depth[A(x)[u]] < depth[parents[n]])
      <4> HIDE DEF A, parents
      <4> QED BY <3>2, <3>3, LineageFacts
    <3>5. A(x)[u] # x
      <4> HIDE DEF A, parents, D
      <4> QED BY <2>7, <3>3, <3>4
    <3> QED BY <2>8, <2>10, <3>2, <3>3, <3>5
  <2>11. CASE v # Len(flat) + 1
    <3>1. v \in DOMAIN flat
      BY <2>8, <2>11
    <3>2. PICK m \in DOMAIN lines, n \in DOMAIN lines :
                 \E e \in DOMAIN lines[m], f \in DOMAIN lines[n] :
                   /\ flat[u] = lines[m][e] /\ flat[v] = lines[n][f]
                   /\ m < n \/ (m = n /\ e < f)
      <4> HIDE DEF lines, D
      <4> QED BY <2>1, <2>9, <3>1, FlattenOrder DEF flat
    <3>3. PICK e \in DOMAIN lines[m], f \in DOMAIN lines[n] :
                   /\ flat[u] = lines[m][e] /\ flat[v] = lines[n][f]
                   /\ m < n \/ (m = n /\ e < f)
      BY <3>2
    <3>4. A(x)[u] = lines[m][e] /\ A(x)[v] = lines[n][f]
      BY <2>8, <2>9, <3>1, <3>3
    <3>5. CASE m = n /\ e < f
      <4>1. lines[m] = A(parents[m]) /\ parents[m] \in G /\ Line(parents[m]) \subseteq Line(x)
        BY <2>3, <2>4, <2>6, <3>2
      <4>2. Before(parents[m], A(x)[u], A(x)[v])
        <5> HIDE DEF Before, A, lines, parents
        <5> QED BY <3>3, <3>4, <3>5, <4>1
      <4>3. Apart(s, parents[m], A(x)[u], A(x)[v]) => Apart(s, x, A(x)[u], A(x)[v])
        <5> HIDE DEF A, lines, parents
        <5> QED BY <4>1 DEF Apart
      <4> HIDE DEF A, Line
      <4> QED BY <4>2, <4>3
    <3>6. CASE m < n
      <4>1. lines[m][e] \in ToSet(lines[m]) /\ lines[n][f] \in ToSet(lines[n])
        BY DEF ToSet
      <4>2. A(x)[u] \in Line(parents[m]) /\ A(x)[v] \in Line(parents[n]) /\ x \in Line(x)
        <5> HIDE DEF A, lines, parents, Line
        <5> QED BY <2>3, <2>5, <3>2, <3>4, <4>1
      <4>3. Apart(s, x, A(x)[u], A(x)[v])
        <5> HIDE DEF A, lines
        <5> QED BY <2>3, <3>2, <3>6, <4>2 DEF Apart
      <4> QED BY <4>3
    <3> QED BY <3>3, <3>5, <3>6
  <2> HIDE DEF A, Before
  <2> QED BY <2>8, <2>10, <2>11
<1>2. D \subseteq G
  <2> HIDE DEF G
  <2> QED BY <1>1, DepthInduction
<1>3. d \in G
  BY <1>2
<1> HIDE DEF A, Before
<1>4. Before(d, A(d)[i], A(d)[k])
  BY <1>3 DEF A
<1> QED BY <1>4 DEF Before, A

\* What holds of the states of a loop after each of its rounds.
LEMMA LoopInduction ==
  ASSUME NEW D, NEW T, NEW b \in D, NEW seq \in Seq(T), NEW step, NEW end \in Ends(D, b, seq, step),
         NEW G, <<0, b>> \in G,
         \A n \in 0..Len(seq)-1, d \in D : <<n, d>> \in G => <<n+1, step[<<d, seq[n+1]>>]>> \in G
  PROVE  <<Len(seq), end>> \in G
<1> DEFINE N == Len(seq)
<1>1. N \in Nat
  OBVIOUS
<1>2. PICK h \in Runs(D, b, seq, step) : end = h[N]
  BY DEF Ends
<1>3. h \in [0..N -> D] /\ h[0] = b /\ \A i \in 1..N : h[i] = step[<<h[i-1], seq[i]>>]
  BY <1>2 DEF Runs
<1> DEFINE S == {n \in 0..N : <<n, h[n]>> \in G}
<1>4. 0 \in S
  BY SMTT(20), <1>1, <1>3
<1>5. ASSUME NEW n \in 0..N-1, n \in S PROVE n + 1 \in S
  <2>1. h[n] \in D /\ <<n, h[n]>> \in G /\ n + 1 \in 1..N /\ n + 1 \in 0..N /\ (n + 1) - 1 = n
    BY <1>1, <1>3, <1>5
  <2>2. h[n+1] = step[<<h[n], seq[n+1]>>]
    BY <1>3, <2>1
  <2> HIDE DEF N
  <2> QED BY <2>1, <2>2 DEF N
<1>6. \A n \in 0..N : n \in S
  <2> HIDE DEF S, N
  <2> QED BY <1>1, <1>4, <1>5, IntervalInduction
<1>7. N \in S
  <2> HIDE DEF S
  <2> QED BY <1>1, <1>6
<1> QED BY <1>2, <1>7

\* Properties of which each has a key of its own, without one key.
LEMMA WithoutOne ==
  ASSUME NEW T, NEW seq \in Seq(T), NEW ser
  PROVE  /\ OnceEach(seq) => OnceEach(Without(seq, ser))
         /\ {p.ser : p \in ToSet(Without(seq, ser))} = {p.ser : p \in ToSet(seq)} \ {ser}
<1> DEFINE kept == Without(seq, ser)
           positions == {i \in DOMAIN seq : seq[i].ser # ser}
<1>1. kept = Those(seq, positions)
  BY DEF Without
<1>2. Places(seq, positions, kept) # {} /\ kept \in Seq(T) /\ Len(kept) \in Nat /\ DOMAIN kept = 1..Len(kept)
  <2>1. Places(seq, positions, kept) # {} /\ kept \in Seq(T)
    BY <1>1, ThosePlaces
  <2> HIDE DEF kept
  <2>2. Len(kept) \in Nat /\ DOMAIN kept = 1..Len(kept)
    BY <2>1
  <2> QED BY <2>1, <2>2
<1>3. ToSet(kept) = {seq[i] : i \in DOMAIN seq \cap positions}
  BY <1>1, ThoseElements
<1> HIDE DEF kept
<1>4. {p.ser : p \in ToSet(kept)} = {p.ser : p \in ToSet(seq)} \ {ser}
  BY <1>3 DEF ToSet
<1>5. ASSUME OnceEach(seq), NEW i \in DOMAIN kept, NEW j \in DOMAIN kept, i # j
      PROVE  kept[i].ser # kept[j].ser
  <2>1. PICK e \in Places(seq, positions, kept) : TRUE
    BY <1>2
  <2>2. e[i] \in DOMAIN seq /\ e[j] \in DOMAIN seq /\ e[i] # e[j]
        /\ kept[i] = seq[e[i]] /\ kept[j] = seq[e[j]]
    <3>1. DOMAIN seq = 1..Len(seq) /\ Len(seq) \in Nat
      OBVIOUS
    <3> HIDE DEF positions
    <3> QED BY <1>2, <1>5, <2>1, <3>1 DEF Places
  <2> QED BY <1>5, <2>2 DEF OnceEach
<1>6. OnceEach(seq) => OnceEach(kept)
  BY <1>5 DEF OnceEach
<1> QED BY <1>4, <1>6 DEF kept

\* Looking at a property of a schema puts its key into the map, or takes it from the schema
\* if it was there.
LEMMA LookChanges ==
  ASSUME NEW s, AreSchemas(s), NEW f \in Found(s), NEW a \in DOMAIN s, NEW p
  PROVE  LET g == Look(f, a, p)
         IN \/ g.schemas = f.schemas /\ DOMAIN g.map \subseteq DOMAIN f.map \cup {p.ser}
            \/ /\ p.ser \in DOMAIN f.map /\ g.map = f.map
               /\ \A u \in DOMAIN s \ {a} : g.schemas[u] = f.schemas[u]
               /\ g.schemas[a].props = Without(f.schemas[a].props, p.ser)
<1> DEFINE t == f.schemas
           map == With(f.map, p.ser, p)
           props == Without(t[a].props, p.ser)
           u == [t EXCEPT ![a].props = props]
<1>1. f = [schemas |-> t, map |-> f.map, ok |-> f.ok] /\ t \in Left(s)
  BY DEF Found
<1>2. DOMAIN t = DOMAIN s /\ "props" \in DOMAIN t[a]
  BY <1>1, LeftType
<1>3. DOMAIN map = DOMAIN f.map \cup {p.ser}
  BY DEF With
<1> HIDE DEF map, t, props
<1>4. [f EXCEPT !.map = map].schemas = t /\ [f EXCEPT !.map = map].map = map
  BY <1>1
<1>5. [f EXCEPT !.ok = FALSE].schemas = t /\ [f EXCEPT !.ok = FALSE].map = f.map
  BY <1>1
<1>6. /\ Dropped(f, a, p).map = f.map
      /\ Dropped(f, a, p).schemas = u
  BY <1>1 DEF Dropped, props, t
<1>7. u[a].props = props /\ \A x \in DOMAIN s \ {a} : u[x] = t[x]
  BY <1>2
<1> HIDE DEF u
<1> DEFINE g == Look(f, a, p)
<1>8. \/ p.ser \notin DOMAIN f.map /\ g = [f EXCEPT !.map = map]
      \/ p.ser \in DOMAIN f.map /\ g \in {f, Dropped(f, a, p), [f EXCEPT !.ok = FALSE]}
  BY LookCases DEF map
<1> HIDE DEF g
<1>9. \/ g.schemas = t /\ DOMAIN g.map \subseteq DOMAIN f.map \cup {p.ser}
      \/ /\ p.ser \in DOMAIN f.map /\ g.map = f.map
         /\ \A x \in DOMAIN s \ {a} : g.schemas[x] = t[x]
         /\ g.schemas[a].props = props
  <2>1. CASE p.ser \notin DOMAIN f.map /\ g = [f EXCEPT !.map = map]
    BY <1>3, <1>4, <2>1
  <2>2. CASE g = f
    BY <2>2 DEF t
  <2>3. CASE p.ser \in DOMAIN f.map /\ g = Dropped(f, a, p)
    BY <1>6, <1>7, <2>3
  <2>4. CASE g = [f EXCEPT !.ok = FALSE]
    BY <1>5, <2>4
  <2> QED BY <1>8, <2>1, <2>2, <2>3, <2>4
<1> QED BY <1>9 DEF g, t, props

\* Looking at all properties of a schema takes from it only what was in the map before, and
\* puts into the map only what it has.
LEMMA LookAtChanges ==
  ASSUME NEW s, AreSchemas(s), NEW found \in Found(s), NEW a \in DOMAIN s,
         OnceEach(found.schemas[a].props)
  PROVE  LET g == LookAtAll(found, a)
         IN /\ \A u \in DOMAIN s \ {a} : g.schemas[u] = found.schemas[u]
            /\ OnceEach(g.schemas[a].props)
            /\ Sers(g.schemas[a]) \subseteq Sers(found.schemas[a])
            /\ Sers(found.schemas[a]) \ Sers(g.schemas[a]) \subseteq DOMAIN found.map
            /\ DOMAIN g.map \subseteq DOMAIN found.map \cup Sers(found.schemas[a])
<1> DEFINE D == Found(s)
           T == PropsIn(s)
           seq == found.schemas[a].props
           K == DOMAIN found.map
           O == Sers(found.schemas[a])
           N == Len(seq)
           step == [each \in D \X T |-> Look(each[1], a, each[2])]
           end == FoldLeft(LAMBDA f, p : Look(f, a, p), found, seq)
           Past(n) == {seq[i].ser : i \in 1..n}
           Inv(n, g) == /\ \A u \in DOMAIN s \ {a} : g.schemas[u] = found.schemas[u]
                        /\ OnceEach(g.schemas[a].props)
                        /\ Sers(g.schemas[a]) \subseteq O
                        /\ O \ Sers(g.schemas[a]) \subseteq K
                        /\ DOMAIN g.map \subseteq K \cup Past(n)
           G == {each \in (0..N) \X D : Inv(each[1], each[2])}
<1>0. found \in D
  OBVIOUS
<1>1. seq \in Seq(T)
  <2>1. found.schemas \in Left(s)
    BY DEF Found
  <2>2. seq \in Seq(ToSet(s[a].props))
    BY <2>1, LeftType
  <2>3. ToSet(s[a].props) \subseteq T
    BY DEF PropsIn
  <2> HIDE DEF seq, T
  <2> QED BY <2>2, <2>3
<1>2. \A d \in D, x \in T : Look(d, a, x) \in D
  BY LookKeeps
<1>3. /\ N \in Nat /\ DOMAIN seq = 1..N /\ (\A i \in 1..N : seq[i] \in T)
      /\ O = Past(N)
  <2>1. N \in Nat /\ DOMAIN seq = 1..N /\ (\A i \in 1..N : seq[i] \in T)
    <3> HIDE DEF T, seq
    <3> QED BY <1>1
  <2>2. ToSet(seq) = {seq[i] : i \in 1..N}
    BY <2>1 DEF ToSet
  <2> QED BY <2>1, <2>2 DEF Sers
<1>4. end \in Ends(D, found, seq, step)
  <2> HIDE DEF D, T, seq
  <2> QED BY <1>1, <1>2, LookLoop DEF D
<1>5. <<0, found>> \in G
  BY <1>3
<1>6. ASSUME NEW n \in 0..N-1, NEW d \in D, <<n, d>> \in G
      PROVE  <<n+1, step[<<d, seq[n+1]>>]>> \in G
  <2> DEFINE p == seq[n+1]
             g == Look(d, a, p)
  <2>1. p \in T /\ Inv(n, d) /\ n \in Nat /\ n + 1 \in 0..N /\ n + 1 \in 1..N
    BY <1>3, <1>6
  <2>2. step[<<d, p>>] = g /\ g \in D
    <3> HIDE DEF D, T, seq, p, Inv, G
    <3> QED BY <1>2, <2>1
  <2>3. \/ g.schemas = d.schemas /\ DOMAIN g.map \subseteq DOMAIN d.map \cup {p.ser}
        \/ /\ p.ser \in DOMAIN d.map /\ g.map = d.map
           /\ \A u \in DOMAIN s \ {a} : g.schemas[u] = d.schemas[u]
           /\ g.schemas[a].props = Without(d.schemas[a].props, p.ser)
    <3> HIDE DEF seq
    <3> QED BY LookChanges
  <2>4. Past(n) \subseteq Past(n+1) /\ p.ser \in Past(n+1) /\ p.ser \notin Past(n)
    <3>1. \A i \in 1..n : i \in DOMAIN seq /\ i # n + 1 /\ i \in 1..(n+1)
      BY <1>3, <2>1
    <3>2. n + 1 \in DOMAIN seq /\ n + 1 \in 1..(n+1)
      BY <1>3, <2>1
    <3> HIDE DEF seq
    <3> QED BY <3>1, <3>2 DEF OnceEach, seq
  <2> HIDE DEF g, p, seq, K, O, Past
  <2>5. Inv(n+1, g)
    <3>1. CASE g.schemas = d.schemas /\ DOMAIN g.map \subseteq DOMAIN d.map \cup {p.ser}
      BY <2>1, <2>4, <3>1
    <3>2. CASE /\ p.ser \in DOMAIN d.map /\ g.map = d.map
               /\ \A u \in DOMAIN s \ {a} : g.schemas[u] = d.schemas[u]
               /\ g.schemas[a].props = Without(d.schemas[a].props, p.ser)
      <4>1. p.ser \in K
        BY <2>1, <2>4, <3>2
      <4>2. d.schemas[a].props \in Seq(ToSet(s[a].props))
        <5>1. d.schemas \in Left(s)
          BY DEF Found
        <5> QED BY <5>1, LeftType
      <4>3. OnceEach(g.schemas[a].props) /\ Sers(g.schemas[a]) = Sers(d.schemas[a]) \ {p.ser}
        BY SMTT(20), <2>1, <3>2, <4>2, WithoutOne DEF Sers
      <4> QED BY <2>1, <2>4, <3>2, <4>1, <4>3
    <3> QED BY <2>3, <3>1, <3>2
  <2> HIDE DEF Inv, D, step
  <2> QED BY <2>1, <2>2, <2>5 DEF p
<1>7. <<N, end>> \in G
  <2> HIDE DEF D, T, seq, step, end, G
  <2> QED BY <1>0, <1>1, <1>4, <1>5, <1>6, LoopInduction
<1> HIDE DEF end
<1>8. Inv(N, end)
  BY <1>7
<1>9. LookAtAll(found, a) \in {end, found}
  BY DEF LookAtAll, end
<1> HIDE DEF seq
<1> QED BY <1>3, <1>8, <1>9 DEF seq

\* A schema that has no ancestor in common with one in which lines meet.
Spared(s, id) == ~\E d \in DOMAIN s : Joins(s, d) /\ Lineage(s, id) \cap Lineage(s, d) # {}

\* Its ancestors are spared too.
LEMMA SparedAbove ==
  ASSUME NEW s, AreSchemas(s), NEW depth \in Depths(s), NEW id \in DOMAIN s, Spared(s, id),
         NEW u \in Lineage(s, id)
  PROVE  Spared(s, u)
<1>1. Lineage(s, u) \subseteq Lineage(s, id)
  BY LineageFacts
<1> QED BY <1>1 DEF Spared

\* One that is on two lines is not, and on two lines no key of it is met before it.
LEMMA ApartJoins ==
  ASSUME NEW s, AreSchemas(s), NEW depth \in Depths(s), NEW d \in DOMAIN s, NEW a, NEW b,
         Apart(s, d, a, b), Spared(s, b)
  PROVE  a # b /\ Sers(s[a]) \cap Sers(s[b]) = {}
<1>0. PICK j \in Lineage(s, d) : \E x, y \in DOMAIN s[j].parents :
        x < y /\ a \in Lineage(s, s[j].parents[x]) /\ b \in Lineage(s, s[j].parents[y])
  BY DEF Apart
<1>1. PICK x, y \in DOMAIN s[j].parents :
        x < y /\ a \in Lineage(s, s[j].parents[x]) /\ b \in Lineage(s, s[j].parents[y])
  BY <1>0
<1> DEFINE p == s[j].parents[x]
           q == s[j].parents[y]
<1>2. j \in DOMAIN s
  BY LineageFacts
<1>3. p \in DOMAIN s /\ q \in DOMAIN s /\ q \in ToSet(s[j].parents)
  BY <1>2, Parents
<1>4. a \in Lineage(s, p) /\ b \in Lineage(s, q)
  BY <1>1
<1>5. Lineage(s, p) \cap Lineage(s, q) # {} \/ Members(s, p) \cap Members(s, q) # {} => Joins(s, j)
  BY <1>1 DEF Joins
<1> HIDE DEF p, q
<1>6. b \in Lineage(s, j)
  BY <1>2, <1>3, <1>4, LineageParts
<1>7. b \in DOMAIN s /\ b \in Lineage(s, b)
  BY <1>3, <1>4, LineageFacts, LineageParts
<1>8. ~Joins(s, j)
  BY <1>2, <1>6, <1>7 DEF Spared
<1>9. Sers(s[a]) \subseteq Members(s, p) /\ Sers(s[b]) \subseteq Members(s, q)
  <2>1. /\ Members(s, p) = UNION {Sers(s[u]) : u \in Lineage(s, p)}
        /\ Members(s, q) = UNION {Sers(s[u]) : u \in Lineage(s, q)}
    BY <1>3, MembersLineage
  <2> QED BY <1>4, <2>1
<1> QED BY <1>4, <1>5, <1>8, <1>9

\* Schemas that are inherited from have each key once.
OnceInherited(s, t) ==
  \A d \in DOMAIN s : s[d].parents # <<>> => \A u \in Lineage(s, d) : OnceEach(t[u].props)

\* What a spared schema had of its own is still in it or in an ancestor.
StillThere(s, t) ==
  \A u \in DOMAIN s : Spared(s, u) =>
    \A k \in Sers(s[u]) : \E v \in Lineage(s, u) : k \in Sers(t[v])

\* What is in the map was in a schema that was looked at, and still is if that is spared.
Traced(s, seq, n, f) ==
  \A k \in DOMAIN f.map : \E i \in 1..n :
    /\ k \in Sers(s[seq[i]])
    /\ Spared(s, seq[i]) => k \in Sers(f.schemas[seq[i]])

\* So it is when the next one of the lineage is looked at: if it loses a key, this is in one
\* that was met before, which is an ancestor of it, or it is not spared.
LEMMA NextLookedAt ==
  ASSUME NEW s, AreSchemas(s), NEW depth \in Depths(s), NEW d \in DOMAIN s, s[d].parents # <<>>,
         NEW n \in 0..Len(Ancestry(s, d))-1, NEW f \in Found(s),
         OnceInherited(s, f.schemas), StillThere(s, f.schemas), Traced(s, Ancestry(s, d), n, f)
  PROVE  LET g == LookAtAll(f, Ancestry(s, d)[n+1])
         IN /\ OnceInherited(s, g.schemas) /\ StillThere(s, g.schemas)
            /\ Traced(s, Ancestry(s, d), n+1, g)
<1> DEFINE seq == Ancestry(s, d)
           a == seq[n+1]
           g == LookAtAll(f, a)
<1>1. /\ seq \in Seq(DOMAIN s) /\ Len(seq) \in Nat /\ DOMAIN seq = 1..Len(seq)
      /\ \A i \in DOMAIN seq : seq[i] \in DOMAIN s /\ seq[i] \in Lineage(s, d)
  <2>1. seq \in Seq(DOMAIN s)
    BY AncestryType
  <2>2. \A i \in DOMAIN seq : seq[i] \in Lineage(s, d)
    BY DEF Lineage, ToSet
  <2> HIDE DEF seq
  <2>3. Len(seq) \in Nat /\ DOMAIN seq = 1..Len(seq)
    BY <2>1
  <2>4. \A i \in DOMAIN seq : seq[i] \in DOMAIN s
    BY <2>1
  <2> QED BY <2>1, <2>2, <2>3, <2>4
<1> HIDE DEF seq
<1>2. n \in Nat /\ n + 1 \in DOMAIN seq /\ \A i \in 1..n : i \in DOMAIN seq /\ i < n + 1
  BY <1>1 DEF seq
<1>3. a \in DOMAIN s /\ a \in Lineage(s, d)
  BY <1>1, <1>2
<1> HIDE DEF a
<1>4. OnceEach(f.schemas[a].props)
  BY <1>3 DEF OnceInherited
<1>5. /\ \A u \in DOMAIN s \ {a} : g.schemas[u] = f.schemas[u]
      /\ OnceEach(g.schemas[a].props)
      /\ Sers(g.schemas[a]) \subseteq Sers(f.schemas[a])
      /\ Sers(f.schemas[a]) \ Sers(g.schemas[a]) \subseteq DOMAIN f.map
      /\ DOMAIN g.map \subseteq DOMAIN f.map \cup Sers(f.schemas[a])
  BY <1>3, <1>4, LookAtChanges
<1> HIDE DEF g
<1>6. Sers(f.schemas[a]) \subseteq Sers(s[a])
  <2>1. f.schemas \in Left(s)
    BY DEF Found
  <2>2. ToSet(f.schemas[a].props) \subseteq ToSet(s[a].props)
    BY <1>3, <2>1, LeftType
  <2> QED BY <2>2 DEF Sers
<1>7. ASSUME NEW i \in 1..n
      PROVE  (seq[i] # a /\ seq[i] \in Lineage(s, a)) \/ Apart(s, d, seq[i], a)
  <2>1. i \in DOMAIN Ancestry(s, d) /\ n + 1 \in DOMAIN Ancestry(s, d) /\ i < n + 1
    BY <1>2 DEF seq
  <2> QED BY <2>1, AncestryOrder DEF seq, a
<1>8. ASSUME NEW i \in 1..n, Spared(s, seq[i])
      PROVE  seq[i] # a /\ g.schemas[seq[i]] = f.schemas[seq[i]]
  <2>1. seq[i] \in DOMAIN s
    BY <1>1, <1>2
  <2>2. seq[i] # a
    BY <1>7, <1>8, ApartJoins
  <2> QED BY <1>5, <2>1, <2>2
<1>9. OnceInherited(s, g.schemas)
  <2> SUFFICES ASSUME NEW e \in DOMAIN s, s[e].parents # <<>>, NEW u \in Lineage(s, e)
               PROVE  OnceEach(g.schemas[u].props)
    BY DEF OnceInherited
  <2>1. OnceEach(f.schemas[u].props)
    BY DEF OnceInherited
  <2>2. u \in DOMAIN s
    BY LineageFacts
  <2> QED BY <1>5, <2>1, <2>2
<1>10. Traced(s, seq, n+1, g)
  <2> SUFFICES ASSUME NEW k \in DOMAIN g.map
               PROVE  \E i \in 1..(n+1) : /\ k \in Sers(s[seq[i]])
                                          /\ Spared(s, seq[i]) => k \in Sers(g.schemas[seq[i]])
    BY DEF Traced
  <2>1. CASE k \in DOMAIN f.map
    <3>1. PICK i \in 1..n : k \in Sers(s[seq[i]]) /\ (Spared(s, seq[i]) => k \in Sers(f.schemas[seq[i]]))
      BY <2>1 DEF Traced, seq
    <3>2. Spared(s, seq[i]) => k \in Sers(g.schemas[seq[i]])
      BY <1>8, <3>1
    <3>3. i \in 1..(n+1)
      BY <1>2
    <3> QED BY <3>1, <3>2, <3>3
  <2>2. CASE k \notin DOMAIN f.map
    <3>1. k \in Sers(g.schemas[a]) /\ k \in Sers(s[a])
      BY <1>5, <1>6, <2>2
    <3>2. n + 1 \in 1..(n+1) /\ seq[n+1] = a
      BY <1>2 DEF a
    <3> QED BY <3>1, <3>2
  <2> QED BY <2>1, <2>2
<1>11. StillThere(s, g.schemas)
  <2> SUFFICES ASSUME NEW u \in DOMAIN s, Spared(s, u), NEW k \in Sers(s[u])
               PROVE  \E v \in Lineage(s, u) : k \in Sers(g.schemas[v])
    BY DEF StillThere
  <2>1. PICK v \in Lineage(s, u) : k \in Sers(f.schemas[v])
    BY DEF StillThere
  <2>2. v \in DOMAIN s /\ Lineage(s, v) \subseteq Lineage(s, u) /\ Spared(s, v)
    BY LineageFacts, SparedAbove
  <2>3. CASE v # a \/ k \in Sers(g.schemas[a])
    <3>1. k \in Sers(g.schemas[v])
      BY <1>5, <2>1, <2>2, <2>3
    <3> QED BY <3>1
  <2>4. CASE v = a /\ k \notin Sers(g.schemas[a])
    <3>1. k \in DOMAIN f.map /\ k \in Sers(s[a])
      BY <1>5, <1>6, <2>1, <2>4
    <3>2. PICK i \in 1..n : k \in Sers(s[seq[i]]) /\ (Spared(s, seq[i]) => k \in Sers(f.schemas[seq[i]]))
      BY <3>1 DEF Traced, seq
    <3>3. ~Apart(s, d, seq[i], a)
      BY <2>2, <2>4, <3>1, <3>2, ApartJoins
    <3>4. seq[i] \in Lineage(s, a)
      BY <1>7, <3>3
    <3>5. Spared(s, seq[i])
      BY <1>3, <2>2, <2>4, <3>4, SparedAbove
    <3>6. k \in Sers(g.schemas[seq[i]])
      BY <1>8, <3>2, <3>5
    <3>7. seq[i] \in Lineage(s, u)
      BY <2>2, <2>4, <3>4
    <3> QED BY <3>6, <3>7
  <2> QED BY <2>3, <2>4
<1> QED BY <1>9, <1>10, <1>11 DEF g, a, seq

\* One object takes no key from a spared schema for good,
LEMMA DropSpares ==
  ASSUME NEW s, AreSchemas(s), NEW depth \in Depths(s), NEW f \in Found(s), NEW id \in DOMAIN s,
         OnceInherited(s, f.schemas), StillThere(s, f.schemas)
  PROVE  LET g == DropInherited(f, id)
         IN g \in Found(s) /\ OnceInherited(s, g.schemas) /\ StillThere(s, g.schemas)
<1> DEFINE D == Found(s)
           T == DOMAIN s
           f0 == [f EXCEPT !.map = <<>>]
           seq == Ancestry(s, id)
           N == Len(seq)
           step == [each \in D \X T |-> LookAtAll(each[1], each[2])]
           end == FoldLeft(LookAtAll, f0, seq)
           Inv(n, x) == OnceInherited(s, x.schemas) /\ StillThere(s, x.schemas) /\ Traced(s, seq, n, x)
           G == {each \in (0..N) \X D : Inv(each[1], each[2])}
<1>1. /\ f0 \in D /\ f0.schemas = f.schemas /\ f0.map = <<>>
  <2>1. <<>> \in Maps(s)
    <3>1. <<>> \in [{} -> PropsIn(s)]
      OBVIOUS
    <3>2. {} \in SUBSET {p.ser : p \in PropsIn(s)}
      OBVIOUS
    <3> QED BY <3>1, <3>2 DEF Maps
  <2> QED BY <2>1 DEF Found
<1>2. seq \in Seq(T) /\ N \in Nat /\ DOMAIN seq = 1..N
  <2>1. seq \in Seq(T)
    BY AncestryType
  <2> HIDE DEF T, seq
  <2> QED BY <2>1
<1>3. Ancestry(f.schemas, id) = seq /\ f.schemas[id].parents = s[id].parents
  <2>1. Remade(s, f.schemas)
    <3>1. f.schemas \in Left(s)
      BY DEF Found
    <3> QED BY <3>1, LeftType
  <2>2. AreSchemas(f.schemas) /\ DOMAIN f.schemas = DOMAIN s /\ Depths(f.schemas) = Depths(s)
    BY <2>1, DepthsRemade
  <2>3. \A x \in DOMAIN s : f.schemas[x].parents = s[x].parents
    BY <2>1 DEF Remade
  <2>4. Depths(f.schemas) # {}
    BY <2>2
  <2> QED BY <2>2, <2>3, <2>4, SameAncestry
<1>4. \A d \in D, x \in T : LookAtAll(d, x) \in D
  BY LookAtKeeps
<1>5. DropInherited(f, id) = IF s[id].parents = <<>> THEN f ELSE end
  <2> HIDE DEF seq
  <2> QED BY <1>1, <1>3 DEF DropInherited, DropDuplicates
<1>6. ASSUME s[id].parents # <<>> PROVE end \in D /\ Inv(N, end)
  <2>1. end \in Ends(D, f0, seq, step)
    <3> HIDE DEF D, T, seq, f0
    <3> QED BY <1>1, <1>2, <1>4, LookAtLoop
  <2>2. <<0, f0>> \in G
    <3>1. Traced(s, seq, 0, f0)
      BY <1>1 DEF Traced
    <3> HIDE DEF D, f0, seq
    <3> QED BY <1>1, <1>2, <3>1
  <2>3. ASSUME NEW n \in 0..N-1, NEW d \in D, <<n, d>> \in G
        PROVE  <<n+1, step[<<d, seq[n+1]>>]>> \in G
    <3> DEFINE g == LookAtAll(d, seq[n+1])
    <3>1. Inv(n, d)
      BY <2>3
    <3>2. Inv(n+1, g)
      BY <1>6, <3>1, NextLookedAt
    <3>3. n + 1 \in 0..N /\ n + 1 \in DOMAIN seq /\ seq[n+1] \in T
      <4> HIDE DEF seq, T
      <4> QED BY <1>2
    <3>4. step[<<d, seq[n+1]>>] = g /\ g \in D
      <4> HIDE DEF D, T, seq, Inv, G
      <4> QED BY <1>4, <3>3
    <3> HIDE DEF Inv, D, step, g, seq
    <3> QED BY <3>2, <3>3, <3>4
  <2> HIDE DEF end
  <2>4. <<N, end>> \in G
    <3> HIDE DEF D, T, seq, step, G, f0
    <3> QED BY <1>1, <1>2, <2>1, <2>2, <2>3, LoopInduction
  <2> HIDE DEF Inv
  <2> QED BY <2>4
<1> HIDE DEF end
<1> QED BY <1>5, <1>6

\* nor do all.
LEMMA DuplicatesSpared ==
  ASSUME NEW m, Grounded(m), OnceInherited(m.schemas, m.schemas)
  PROVE  StillThere(m.schemas, DropAllDuplicates(m).schemas)
<1> DEFINE s == m.schemas
           D == {f \in Found(s) : OnceInherited(s, f.schemas) /\ StillThere(s, f.schemas)}
           T == DOMAIN s
           f0 == [schemas |-> s, map |-> <<>>, ok |-> TRUE]
           seq == m.objects
           step == [each \in D \X T |-> DropInherited(each[1], each[2])]
           end == FoldLeft(DropInherited, f0, seq)
<1>1. AreSchemas(s) /\ s = [id \in T |-> s[id]] /\ m.objects \in Seq(T) /\ Fields \subseteq DOMAIN m
  BY ModelParts DEF Grounded
<1>2. PICK depth \in Depths(s) : TRUE
  BY DEF Grounded
<1>3. f0 \in D
  <2>1. <<>> \in Maps(s)
    <3>1. <<>> \in [{} -> PropsIn(s)]
      OBVIOUS
    <3>2. {} \in SUBSET {p.ser : p \in PropsIn(s)}
      OBVIOUS
    <3> QED BY <3>1, <3>2 DEF Maps
  <2>2. s \in Left(s)
    <3> HIDE DEF s
    <3> QED BY <1>1, LeftAll
  <2>3. StillThere(s, s)
    <3>1. \A u \in DOMAIN s : u \in Lineage(s, u)
      BY <1>1, <1>2, LineageParts
    <3> QED BY <3>1 DEF StillThere
  <2> QED BY <2>1, <2>2, <2>3 DEF Found
<1>4. \A d \in D, x \in T : DropInherited(d, x) \in D
  BY <1>1, <1>2, DropSpares
<1>5. end \in D
  <2> HIDE DEF D, T, seq, f0
  <2>1. end \in Ends(D, f0, seq, step)
    BY <1>1, <1>3, <1>4, DropLoop DEF seq
  <2> HIDE DEF end, step
  <2> QED BY <1>1, <1>3, <2>1, EndsType DEF seq
<1>6. DropAllDuplicates(m).schemas = end.schemas
  <2>1. DropAllDuplicates(m) = [m EXCEPT !.schemas = end.schemas, !.error = ~end.ok]
    BY DEF DropAllDuplicates
  <2> HIDE DEF end
  <2> QED BY <1>1, <2>1 DEF Fields
<1> HIDE DEF end
<1> QED BY <1>5, <1>6

\* So a spared schema has all its members still.
LEMMA SparedMembers ==
  ASSUME NEW s, AreSchemas(s), NEW depth \in Depths(s), NEW t \in Left(s), StillThere(s, t),
         NEW id \in DOMAIN s, Spared(s, id)
  PROVE  Members(s, id) \subseteq Members(t, id)
<1>1. AreSchemas(t) /\ DOMAIN t = DOMAIN s /\ Depths(t) = Depths(s) /\ Remade(s, t)
  BY LeftType, DepthsRemade
<1>2. \A x \in DOMAIN s : t[x].parents = s[x].parents
  BY <1>1 DEF Remade
<1>3. Lineage(t, id) = Lineage(s, id)
  BY <1>1, <1>2, SameAncestry
<1>4. /\ Members(s, id) = UNION {Sers(s[u]) : u \in Lineage(s, id)}
      /\ Members(t, id) = UNION {Sers(t[u]) : u \in Lineage(t, id)}
  BY <1>1, MembersLineage
<1>5. ASSUME NEW u \in Lineage(s, id), NEW k \in Sers(s[u]) PROVE k \in Members(t, id)
  <2>1. u \in DOMAIN s /\ Lineage(s, u) \subseteq Lineage(s, id) /\ Spared(s, u)
    BY LineageFacts, SparedAbove
  <2>2. PICK v \in Lineage(s, u) : k \in Sers(t[v])
    BY <2>1 DEF StillThere
  <2> QED BY <1>3, <1>4, <2>1, <2>2
<1> QED BY <1>4, <1>5

\* More schemas, of which none has the others as ancestors, change neither lineage nor members
\* nor where lines meet.
LEMMA MoreSchemas ==
  ASSUME NEW s, AreSchemas(s), NEW depth \in Depths(s), NEW t, AreSchemas(t), Depths(t) # {},
         DOMAIN s \subseteq DOMAIN t, \A x \in DOMAIN s : Kept(s[x], t[x]),
         \A x \in DOMAIN t \ DOMAIN s : t[x].parents = <<>>
  PROVE  /\ \A x \in DOMAIN s : Lineage(t, x) = Lineage(s, x) /\ Members(t, x) = Members(s, x)
         /\ OnceInherited(s, s) => OnceInherited(t, t)
         /\ \A x \in DOMAIN s : Spared(s, x) => Spared(t, x)
<1>1. PICK other \in Depths(t) : TRUE
  OBVIOUS
<1>2. \A x \in DOMAIN s : t[x].parents = s[x].parents /\ t[x].props = s[x].props
  BY DEF Kept
<1>3. ASSUME NEW x \in DOMAIN s
      PROVE  Lineage(t, x) = Lineage(s, x) /\ Members(t, x) = Members(s, x)
  <2>1. Lineage(t, x) = Lineage(s, x) /\ Lineage(s, x) \subseteq DOMAIN s
    BY <1>2, SameAncestry, LineageParts
  <2>2. /\ Members(s, x) = UNION {Sers(s[u]) : u \in Lineage(s, x)}
        /\ Members(t, x) = UNION {Sers(t[u]) : u \in Lineage(t, x)}
    BY <1>1, MembersLineage
  <2>3. \A u \in DOMAIN s : Sers(t[u]) = Sers(s[u])
    BY <1>2 DEF Sers
  <2> QED BY <2>1, <2>2, <2>3
<1>4. ASSUME OnceInherited(s, s), NEW d \in DOMAIN t, t[d].parents # <<>>, NEW u \in Lineage(t, d)
      PROVE  OnceEach(t[u].props)
  <2>1. d \in DOMAIN s /\ s[d].parents # <<>> /\ u \in Lineage(s, d)
    BY <1>2, <1>3, <1>4
  <2>2. u \in DOMAIN s /\ OnceEach(s[u].props)
    BY <1>4, <2>1, LineageFacts DEF OnceInherited
  <2> QED BY <1>2, <2>2
<1>5. ASSUME NEW d \in DOMAIN t, Joins(t, d) PROVE d \in DOMAIN s /\ Joins(s, d)
  <2>1. DOMAIN <<>> = {}
    OBVIOUS
  <2>2. d \in DOMAIN s
    BY <1>5, <2>1 DEF Joins
  <2>3. \A i \in DOMAIN s[d].parents : s[d].parents[i] \in DOMAIN s
    BY <2>2, Parents
  <2>4. t[d].parents = s[d].parents
    BY <1>2, <2>2
  <2>5. Joins(s, d)
    BY ZenonT(40), <1>3, <1>5, <2>3, <2>4 DEF Joins
  <2> QED BY <2>2, <2>5
<1>6. ASSUME NEW x \in DOMAIN s, Spared(s, x) PROVE Spared(t, x)
  <2> SUFFICES ASSUME NEW d \in DOMAIN t, Joins(t, d) PROVE Lineage(t, x) \cap Lineage(t, d) = {}
    BY DEF Spared
  <2> QED BY <1>3, <1>5, <1>6 DEF Spared
<1> QED BY <1>3, <1>4, <1>6 DEF OnceInherited

\* The second plugin takes no member from a schema that is spared.
LEMMA TweakSpares ==
  ASSUME NEW m, Grounded(m), HasParameters(m), Identity \notin DOMAIN m.schemas,
         OnceInherited(m.schemas, m.schemas), NEW id \in DOMAIN m.schemas, Spared(m.schemas, id)
  PROVE  Members(m.schemas, id) \subseteq Members(Tweak(m).schemas, id)
<1> DEFINE a == UniversalId(m)
           b == DropAllDuplicates(a)
           c == AddHeaderProperties(b)
           d == MarkConstants(c)
<1>1. /\ Becomes(m, a) /\ DOMAIN a.schemas = DOMAIN m.schemas \cup {Identity}
      /\ \A x \in DOMAIN m.schemas \ {Identity} : a.schemas[x] = m.schemas[x]
      /\ a.schemas[Identity].parents = <<>>
  BY IdentityAdded
<1>2. Tweak(m) \in {b, d}
  BY DEF Tweak, a, b, c, d
<1> HIDE DEF a
<1>3. Grounded(a)
  BY <1>1 DEF Becomes
<1>4. Becomes(a, b) /\ b.schemas \in Left(a.schemas)
  BY <1>3, DuplicatesDropped
<1>5. OnceInherited(a.schemas, a.schemas) => StillThere(a.schemas, b.schemas)
  BY <1>3, DuplicatesSpared
<1> HIDE DEF b
<1>6. Becomes(b, c) /\ Grown(b.schemas, c.schemas)
  BY <1>4, HeaderPropertiesAdded DEF Becomes
<1> HIDE DEF c
<1>7. Becomes(c, d) /\ Grown(c.schemas, d.schemas)
  BY <1>6, ConstantsMarked DEF Becomes
<1> HIDE DEF d
<1>8. \A x \in {m, a, b, c, d} : AreSchemas(x.schemas) /\ Depths(x.schemas) # {}
  <2>1. \A x \in {m, a, b, c, d} : Grounded(x)
    BY <1>3, <1>4, <1>6, <1>7 DEF Becomes
  <2> QED BY <2>1, ModelParts DEF Grounded
<1>9. /\ Members(a.schemas, id) = Members(m.schemas, id)
      /\ OnceInherited(a.schemas, a.schemas) /\ Spared(a.schemas, id)
  <2> DEFINE s == m.schemas
             t == a.schemas
  <2>1. PICK depth \in Depths(s) : TRUE
    BY <1>8
  <2>2. AreSchemas(s) /\ AreSchemas(t) /\ Depths(t) # {}
    BY <1>8
  <2>3. DOMAIN s \subseteq DOMAIN t /\ \A x \in DOMAIN s : Kept(s[x], t[x])
    BY <1>1 DEF Kept
  <2>4. \A x \in DOMAIN t \ DOMAIN s : t[x].parents = <<>>
    BY <1>1
  <2>5. id \in DOMAIN s /\ OnceInherited(s, s) /\ Spared(s, id)
    OBVIOUS
  <2> HIDE DEF s, t
  <2>6. Members(t, id) = Members(s, id) /\ OnceInherited(t, t) /\ Spared(t, id)
    BY <2>1, <2>2, <2>3, <2>4, <2>5, MoreSchemas
  <2> QED BY <2>6 DEF s, t
<1>10. id \in DOMAIN a.schemas
  BY <1>1
<1>11. Members(a.schemas, id) \subseteq Members(b.schemas, id)
  <2>1. PICK depth \in Depths(a.schemas) : TRUE
    BY <1>8
  <2> QED BY <1>4, <1>5, <1>8, <1>9, <1>10, <2>1, SparedMembers
<1>12. id \in DOMAIN b.schemas /\ id \in DOMAIN c.schemas
  <2>1. DOMAIN b.schemas = DOMAIN a.schemas
    BY <1>4, <1>8, LeftType
  <2> QED BY <1>6, <1>10, <2>1 DEF Grown
<1>13. Members(b.schemas, id) \subseteq Members(c.schemas, id)
  BY <1>6, <1>8, <1>12, GrownMembers
<1>14. Members(c.schemas, id) \subseteq Members(d.schemas, id)
  BY <1>7, <1>8, <1>12, GrownMembers
<1> QED BY <1>2, <1>9, <1>11, <1>13, <1>14

\* What plugins keep of schemas is all that members depend on.
LEMMA AlikeMembers ==
  ASSUME NEW m, Grounded(m), NEW n, Grounded(n), Alike(m.schemas, n.schemas), NEW id \in DOMAIN m.schemas
  PROVE  Members(m.schemas, id) \subseteq Members(n.schemas, id)
<1>1. /\ AreSchemas(m.schemas) /\ Depths(m.schemas) # {}
      /\ AreSchemas(n.schemas) /\ Depths(n.schemas) # {}
  BY ModelParts DEF Grounded
<1>2. Grown(m.schemas, n.schemas)
  BY <1>1, AlikeRemade
<1> QED BY <1>1, <1>2, GrownMembers

\* The first plugin adds schemas that are new.
LEMMA NewSchemas ==
  ASSUME NEW m, Grounded(m), NeededIds(m) \cap DOMAIN m.schemas = {}
  PROVE  LET n == TweakM4(m)
         IN /\ DOMAIN n.schemas = DOMAIN m.schemas \cup NeededIds(m)
            /\ \A id \in DOMAIN m.schemas : Members(n.schemas, id) = Members(m.schemas, id)
            /\ OnceInherited(m.schemas, m.schemas) => OnceInherited(n.schemas, n.schemas)
<1> DEFINE s == m.schemas
           t == TweakM4(m).schemas
<1>1. /\ Becomes(m, TweakM4(m)) /\ DOMAIN t = DOMAIN s \cup NeededIds(m)
      /\ \A id \in DOMAIN s \ NeededIds(m) : Kept(s[id], t[id])
      /\ \A id \in NeededIds(m) : t[id].parents = <<>>
  BY TweakM4Grounded
<1>2. AreSchemas(s) /\ AreSchemas(t) /\ Depths(t) # {}
  BY <1>1, ModelParts DEF Becomes, Grounded
<1>3. PICK depth \in Depths(s) : TRUE
  BY DEF Grounded
<1>4. NeededIds(m) \cap DOMAIN s = {}
  OBVIOUS
<1> HIDE DEF s, t
<1>5. /\ \A id \in DOMAIN s : Members(t, id) = Members(s, id)
      /\ OnceInherited(s, s) => OnceInherited(t, t)
  BY <1>1, <1>2, <1>3, <1>4, MoreSchemas
<1> QED BY <1>1, <1>5 DEF s, t

\* What the plugins that change members find besides the model: new schemas to come, and one
\* property of each key in the schemas that are inherited from.
MembersInv ==
  /\ ModelInv
  /\ phase = "tweakm4" =>
       NeededIds(model) \cap DOMAIN model.schemas = {} /\ Identity \notin NeededIds(model)
  /\ phase \in {"tweakm4", "tweak"} =>
       Identity \notin DOMAIN model.schemas /\ OnceInherited(model.schemas, model.schemas)

LEMMA MembersStart == Init => MembersInv
<1> SUFFICES ASSUME Init PROVE MembersInv
  OBVIOUS
<1>1. ModelInv
  BY ModelStart
<1>2. PICK input \in Inputs : model = input.model
  BY DEF Init
<1>3. /\ HeaderNames(model) \cap DOMAIN model.schemas = {}
      /\ Identity \notin HeaderNames(model) \cup DOMAIN model.schemas
      /\ \A id \in DOMAIN model.schemas : OnceEach(model.schemas[id].props)
  BY <1>2, NewSchemasAssumption, KeysAssumption
<1>4. NeededIds(model) = HeaderNames(model)
  <2>1. IsModel(model)
    BY <1>1 DEF ModelInv, Grounded
  <2>2. NeededIds(model) = UNION {{HeaderSchema(model.operations[i], r) :
                             r \in {x \in ToSet(model.operations[i].responses) : NeedsHeaderSchema(x)}} :
                            i \in DOMAIN model.operations}
    BY <2>1, NeededType
  <2> QED BY <2>2 DEF HeaderNames, ToSet
<1>5. OnceInherited(model.schemas, model.schemas)
  <2>1. AreSchemas(model.schemas)
    BY <1>1, ModelParts DEF ModelInv, Grounded
  <2>2. PICK depth \in Depths(model.schemas) : TRUE
    BY <1>1 DEF ModelInv, Grounded
  <2>3. \A d \in DOMAIN model.schemas : Lineage(model.schemas, d) \subseteq DOMAIN model.schemas
    BY <2>1, <2>2, LineageParts
  <2> QED BY <1>3, <2>3 DEF OnceInherited
<1>6. phase = "tweakm4"
  BY DEF Init
<1> QED BY <1>1, <1>3, <1>4, <1>5, <1>6 DEF MembersInv

LEMMA MembersStep ==
  ASSUME NumeralsDiffer, MembersInv, [Next]_vars
  PROVE  MembersInv'
<1>1. ModelInv /\ ModelInv'
  BY ModelStep DEF MembersInv
<1>2. CASE RunTweakM4
  <2>1. /\ phase' = "tweak" /\ model' = TweakM4(model) /\ Grounded(model)
        /\ NeededIds(model) \cap DOMAIN model.schemas = {} /\ Identity \notin NeededIds(model)
        /\ Identity \notin DOMAIN model.schemas /\ OnceInherited(model.schemas, model.schemas)
    BY <1>2 DEF MembersInv, ModelInv, RunTweakM4
  <2>2. /\ DOMAIN model'.schemas = DOMAIN model.schemas \cup NeededIds(model)
        /\ OnceInherited(model'.schemas, model'.schemas)
    BY <2>1, NewSchemas
  <2> QED BY <1>1, <2>1, <2>2 DEF MembersInv
<1>3. CASE UNCHANGED vars
  BY <1>1, <1>3 DEF MembersInv, vars, NeededIds, Needed, OnceInherited
<1>4. CASE Next /\ ~RunTweakM4
  <2>1. phase' \notin {"tweakm4", "tweak"}
    BY <1>4 DEF Next, RunTweak, RunTweakAzure, InferOperation, InferNothing, CommandsCreated,
           CreateInlinedProperties, RunCsNamer, RunPsNamer, IncorrectDirective, ApplyDirective,
           DirectivesApplied, CreateModelClasses, AddCompleters, CreateClasses
  <2> QED BY <1>1, <2>1 DEF MembersInv
<1> QED BY <1>2, <1>3, <1>4

\* A schema is spared, or the lines meet at an object.
LEMMA MeetAtObject ==
  ASSUME NEW m, Grounded(m), NEW id, ~Spared(m.schemas, id)
  PROVE  \E d \in ToSet(m.objects) :
           Joins(m.schemas, d) /\ Lineage(m.schemas, id) \cap Lineage(m.schemas, d) # {}
<1>1. PICK d \in DOMAIN m.schemas :
        Joins(m.schemas, d) /\ Lineage(m.schemas, id) \cap Lineage(m.schemas, d) # {}
  BY DEF Spared
<1>2. DOMAIN <<>> = {}
  OBVIOUS
<1>3. m.schemas[d].parents # <<>>
  BY <1>1, <1>2 DEF Joins
<1>4. d \in ToSet(m.objects)
  BY <1>3 DEF Grounded, IsModel, IsSchema
<1> QED BY <1>1, <1>4

\* No step takes a member from a schema, but for those that have an ancestor in common with
\* one where two lines of inheritance meet.
LEMMA MembersKept ==
  ASSUME MembersInv, Next, NEW id \in Objects,
         ~(Members(model.schemas, id) \subseteq Members(model'.schemas, id))
  PROVE  \E d \in Objects :
           /\ Joins(model.schemas, d)
           /\ Lineage(model.schemas, id) \cap Lineage(model.schemas, d) # {}
<1>1. /\ ModelInv /\ Grounded(model)
  BY DEF MembersInv, ModelInv
<1>2. id \in DOMAIN model.schemas
  BY <1>1 DEF Grounded, IsModel, Objects
<1>3. CASE RunTweakM4
  <2>1. model' = TweakM4(model) /\ NeededIds(model) \cap DOMAIN model.schemas = {}
    BY <1>3 DEF MembersInv, RunTweakM4
  <2> QED BY <1>1, <1>2, <2>1, NewSchemas
<1>4. CASE RunTweak
  <2>1. /\ model' = Tweak(model) /\ HasParameters(model)
        /\ Identity \notin DOMAIN model.schemas /\ OnceInherited(model.schemas, model.schemas)
    BY <1>4 DEF MembersInv, ModelInv, RunTweak
  <2>2. ~Spared(model.schemas, id)
    BY <1>1, <1>2, <2>1, TweakSpares
  <2> QED BY <1>1, <2>2, MeetAtObject DEF Objects
<1>5. CASE RunTweakAzure
  <2>1. model' = TweakAzure(model)
    BY <1>5 DEF RunTweakAzure
  <2> QED BY <1>1, <1>2, <2>1, AzureGrounded, AlikeMembers DEF Becomes
<1>6. CASE RunCsNamer
  <2>1. model' = CsName(model)
    BY <1>6 DEF RunCsNamer
  <2> QED BY <1>1, <1>2, <2>1, CsNamed, AlikeMembers DEF Becomes
<1>7. CASE ApplyDirective
  <2> DEFINE d == directives[applied + 1]
             t == Apply(d, [commands |-> commands, schemas |-> model.schemas, virt |-> virt]).schemas
             n == [model EXCEPT !.schemas = t]
  <2>1. model' = n
    BY <1>7 DEF ApplyDirective
  <2> HIDE DEF d
  <2>2. Becomes(model, n) /\ Alike(model.schemas, n.schemas)
    BY <1>1, DirectiveGrounded
  <2> HIDE DEF n
  <2> QED BY <1>1, <1>2, <2>1, <2>2, AlikeMembers DEF Becomes
<1>8. CASE UNCHANGED model
  BY <1>8
<1>9. \/ RunTweakM4 \/ RunTweak \/ RunTweakAzure \/ RunCsNamer \/ ApplyDirective
      \/ UNCHANGED model
  BY DEF Next, InferOperation, InferNothing, CommandsCreated, CreateInlinedProperties, RunPsNamer,
         IncorrectDirective, DirectivesApplied, CreateModelClasses, AddCompleters, CreateClasses
<1> QED BY <1>3, <1>4, <1>5, <1>6, <1>7, <1>8, <1>9

\* The members of a schema, its own or inherited ones, are all still there after every step of
\* every plugin, whatever the model and the directives: what is dropped from a child is still
\* in an ancestor.  Only where two lines of inheritance meet, at a schema with two parents that
\* have an ancestor or a key in common, may a schema lose some, if it shares an ancestor with
\* that one.
THEOREM MembersStay == ASSUME NumeralsDiffer PROVE Spec => LostOnlyWhereLinesMeet
<1>1. Init => MembersInv
  BY MembersStart
<1>2. MembersInv /\ [Next]_vars => MembersInv'
  BY MembersStep
<1> DEFINE Told == \A id \in Objects :
             \/ Members(model.schemas, id) \subseteq Members(model'.schemas, id)
             \/ \E d \in Objects :
                  /\ Joins(model.schemas, d)
                  /\ Lineage(model.schemas, id) \cap Lineage(model.schemas, d) # {}
<1>3. MembersInv /\ [Next]_vars => [Told]_vars
  <2> SUFFICES ASSUME MembersInv, Next PROVE Told
    OBVIOUS
  <2> QED BY MembersKept
<1>4. LostOnlyWhereLinesMeet <=> [][Told]_vars
  BY DEF LostOnlyWhereLinesMeet
<1> HIDE DEF Told
<1> QED BY <1>1, <1>2, <1>3, <1>4, PTL DEF Spec

\* Whatever a sequence has in it.
IsSeq(seq) == seq \in Seq(ToSet(seq))

\* The greatest number of a set that reaches up to one,
LEMMA TopOfInterval ==
  ASSUME NEW n \in Nat, NEW s \in SUBSET (1..n+1)
  PROVE  /\ n + 1 \in s => Max(s) = n + 1 /\ s \ {n + 1} \in SUBSET (1..n)
         /\ n + 1 \notin s => s \in SUBSET (1..n)
<1>1. n + 1 \in s => Max(s) = n + 1
  <2> SUFFICES ASSUME n + 1 \in s PROVE Max(s) = n + 1
    OBVIOUS
  <2>1. n + 1 \in Nat /\ s # {}
    OBVIOUS
  <2>2. Max(s) \in s /\ Max(s) >= n + 1
    BY <2>1, MaxInterval
  <2>3. Max(s) \in 1..n+1
    BY <2>2
  <2> QED BY <2>2, <2>3
<1>2. s \ {n + 1} \in SUBSET (1..n)
  OBVIOUS
<1> QED BY <1>1, <1>2

\* and of all of them.
LEMMA OneTo ==
  ASSUME NEW N \in Nat, NEW i \in 1..N
  PROVE  /\ i \in Nat /\ i - 1 \in 0..N /\ Max(1..i) = i /\ 1..i # {}
         /\ (1..i) \ {i} = 1..i-1 /\ 1..i \in SUBSET (1..N)
<1>1. i \in Nat /\ i - 1 \in Nat /\ (i - 1) + 1 = i
  OBVIOUS
<1>2. Max(1..i) = i
  <2>1. 1..i \in SUBSET (1..(i-1)+1) /\ (i - 1) + 1 \in 1..i
    BY <1>1
  <2> QED BY <1>1, <2>1, TopOfInterval
<1> QED BY <1>1, <1>2

LEMMA OneToNone == 1..0 = {}
OBVIOUS

\* The loop that leaves out what was there already.
LEMMA UniqueRounds ==
  ASSUME NEW seq, IsSeq(seq)
  PROVE  \E h : /\ h[0] = <<>> /\ Unique(seq) = h[Len(seq)]
                /\ \A i \in 1..Len(seq) : h[i] = (IF Contains(h[i-1], seq[i]) THEN h[i-1] ELSE Append(h[i-1], seq[i]))
<1> DEFINE Op(a, x) == (IF Contains(a, x) THEN a ELSE Append(a, x))
           Of(f, s) == IF s = {} THEN <<>> ELSE Op(f[s \ {Max(s)}], seq[Max(s)])
           S == {n \in Nat : \E f : f = [s \in SUBSET (1..n) |-> Of(f, s)]}
           iter == CHOOSE f : f = [s \in SUBSET DOMAIN seq |->
                     IF s = {} THEN <<>> ELSE (IF Contains(f[s \ {Max(s)}], seq[Max(s)]) THEN f[s \ {Max(s)}] ELSE Append(f[s \ {Max(s)}], seq[Max(s)]))]
<1>1. 0 \in S
  <2> DEFINE f == [s \in SUBSET (1..0) |-> <<>>]
  <2>1. \A s \in SUBSET (1..0) : s = {}
    OBVIOUS
  <2> HIDE DEF Op
  <2>2. f = [s \in SUBSET (1..0) |-> Of(f, s)]
    BY <2>1
  <2> QED BY <2>2
<1>2. ASSUME NEW n \in Nat, n \in S PROVE n + 1 \in S
  <2>1. PICK f : f = [s \in SUBSET (1..n) |-> Of(f, s)]
    BY <1>2
  <2> DEFINE g == [s \in SUBSET (1..n+1) |-> IF n + 1 \in s THEN Op(f[s \ {n+1}], seq[n+1]) ELSE f[s]]
  <2>2. ASSUME NEW s \in SUBSET (1..n+1) PROVE g[s] = Of(g, s)
    <3> HIDE DEF Op
    <3>1. CASE n + 1 \in s
      <4>1. Max(s) = n + 1 /\ s # {} /\ s \ {n + 1} \in SUBSET (1..n) /\ s \ {n + 1} \in SUBSET (1..n+1)
        BY <3>1, TopOfInterval
      <4>2. g[s \ {n+1}] = f[s \ {n+1}]
        BY <4>1
      <4> QED BY <3>1, <4>1, <4>2
    <3>2. CASE n + 1 \notin s
      <4>1. s \in SUBSET (1..n) /\ (s # {} => s \ {Max(s)} \in SUBSET (1..n) /\ s \ {Max(s)} \in SUBSET (1..n+1))
        BY <3>2, TopOfInterval
      <4>2. s # {} => g[s \ {Max(s)}] = f[s \ {Max(s)}]
        <5>1. s # {} => n + 1 \notin s \ {Max(s)}
          BY <3>2
        <5> QED BY <4>1, <5>1
      <4>3. g[s] = f[s] /\ f[s] = Of(f, s)
        BY <2>1, <3>2, <4>1
      <4> QED BY <4>2, <4>3
    <3> QED BY <3>1, <3>2
  <2>3. g = [s \in SUBSET (1..n+1) |-> Of(g, s)]
    <3> HIDE DEF Of
    <3> QED BY <2>2
  <2> HIDE DEF g, Of
  <2> QED BY <2>3
<1>3. Len(seq) \in Nat /\ DOMAIN seq = 1..Len(seq)
  BY DEF IsSeq
<1>4. Len(seq) \in S
  <2> HIDE DEF S
  <2> QED BY <1>1, <1>2, <1>3, NatSetInduction
<1>5. iter = [s \in SUBSET DOMAIN seq |-> Of(iter, s)]
  <2>1. PICK f : f = [s \in SUBSET DOMAIN seq |-> Of(f, s)]
    BY <1>3, <1>4
  <2> QED BY <2>1
<1>6. Unique(seq) = iter[DOMAIN seq]
  BY DEF Unique, FoldLeft, MapThenFoldSet
<1> HIDE DEF iter, Op
<1> DEFINE h == [i \in 0..Len(seq) |-> iter[1..i]]
<1>7. h[0] = <<>> /\ h[Len(seq)] = iter[DOMAIN seq]
  BY <1>3, <1>5, OneToNone
<1>8. ASSUME NEW i \in 1..Len(seq) PROVE h[i] = Op(h[i-1], seq[i])
  <2>1. /\ i \in Nat /\ i - 1 \in 0..Len(seq) /\ Max(1..i) = i /\ 1..i # {}
        /\ (1..i) \ {i} = 1..i-1 /\ 1..i \in SUBSET DOMAIN seq
    BY <1>3, OneTo
  <2>2. iter[1..i] = Op(iter[(1..i) \ {Max(1..i)}], seq[Max(1..i)])
    BY <1>5, <2>1
  <2>3. h[i] = iter[1..i] /\ h[i-1] = iter[1..i-1]
    BY <1>3, <2>1
  <2> HIDE DEF h
  <2> QED BY <2>1, <2>2, <2>3
<1> HIDE DEF h
<1> QED BY <1>6, <1>7, <1>8 DEF Op

\* A function on the numbers up to one is a sequence;
LEMMA MadeSeq ==
  ASSUME NEW n \in Nat, NEW f, f = [i \in 1..n |-> f[i]]
  PROVE  IsSeq(f) /\ Len(f) = n /\ DOMAIN f = 1..n
<1>1. DOMAIN f = 1..n
  OBVIOUS
<1>2. f \in [1..n -> ToSet(f)]
  BY <1>1 DEF ToSet
<1>3. f \in Seq(ToSet(f))
  <2> DEFINE T == ToSet(f)
  <2>1. f \in [1..n -> T]
    BY <1>2
  <2> HIDE DEF T
  <2>2. f \in Seq(T)
    BY <2>1
  <2> QED BY <2>2 DEF T
<1>4. Len(f) = n
  BY <1>1, <1>3
<1> QED BY <1>1, <1>3, <1>4 DEF IsSeq

\* one on the places of a sequence, too;
LEMMA MappedSeq ==
  ASSUME NEW seq, IsSeq(seq), NEW f, f = [i \in DOMAIN seq |-> f[i]]
  PROVE  IsSeq(f) /\ Len(f) = Len(seq) /\ DOMAIN f = DOMAIN seq
<1>1. Len(seq) \in Nat /\ DOMAIN seq = 1..Len(seq)
  BY DEF IsSeq
<1> QED BY <1>1, MadeSeq

\* one sequence after another,
LEMMA JoinedSeq ==
  ASSUME NEW s, IsSeq(s), NEW t, IsSeq(t)
  PROVE  /\ IsSeq(s \o t) /\ Len(s \o t) = Len(s) + Len(t)
         /\ ToSet(s \o t) = ToSet(s) \cup ToSet(t)
         /\ \A i \in DOMAIN s : i \in DOMAIN (s \o t) /\ (s \o t)[i] = s[i]
         /\ \A i \in DOMAIN t : Len(s) + i \in DOMAIN (s \o t) /\ (s \o t)[Len(s) + i] = t[i]
<1> DEFINE T == ToSet(s) \cup ToSet(t)
<1>1. s \in Seq(T) /\ t \in Seq(T)
  <2>1. s \in Seq(ToSet(s)) /\ t \in Seq(ToSet(t)) /\ ToSet(s) \subseteq T /\ ToSet(t) \subseteq T
    BY DEF IsSeq
  <2> HIDE DEF T
  <2> QED BY <2>1
<1>2. /\ s \o t \in Seq(T) /\ Len(s \o t) = Len(s) + Len(t) /\ ToSet(s \o t) = ToSet(s) \cup ToSet(t)
      /\ \A i \in DOMAIN s : i \in DOMAIN (s \o t) /\ (s \o t)[i] = s[i]
      /\ \A i \in DOMAIN t : Len(s) + i \in DOMAIN (s \o t) /\ (s \o t)[Len(s) + i] = t[i]
  <2> HIDE DEF T
  <2> QED BY <1>1, Concatenation
<1> QED BY <1>2 DEF IsSeq

\* and all the sequences of one.
LEMMA FlatSeq ==
  ASSUME NEW seqs, IsSeq(seqs), \A i \in DOMAIN seqs : IsSeq(seqs[i])
  PROVE  /\ IsSeq(FlattenSeq(seqs))
         /\ ToSet(FlattenSeq(seqs)) = UNION {ToSet(seqs[i]) : i \in DOMAIN seqs}
<1> DEFINE T == UNION {ToSet(seqs[i]) : i \in DOMAIN seqs}
<1>1. seqs \in Seq(Seq(T))
  <2>1. \A i \in DOMAIN seqs : seqs[i] \in Seq(ToSet(seqs[i])) /\ ToSet(seqs[i]) \subseteq T
    BY DEF IsSeq
  <2>2. Len(seqs) \in Nat /\ DOMAIN seqs = 1..Len(seqs) /\ seqs = [i \in 1..Len(seqs) |-> seqs[i]]
    BY DEF IsSeq
  <2> HIDE DEF T
  <2>3. seqs \in [1..Len(seqs) -> Seq(T)]
    BY <2>1, <2>2
  <2> QED BY <2>2, <2>3
<1>2. FlattenSeq(seqs) \in Seq(T) /\ ToSet(FlattenSeq(seqs)) = T
  <2> HIDE DEF T
  <2>1. ToSet(FlattenSeq(seqs)) = UNION {ToSet(seqs[i]) : i \in DOMAIN seqs} /\ FlattenSeq(seqs) \in Seq(T)
    BY <1>1, FlattenType
  <2> QED BY <2>1 DEF T
<1> QED BY <1>2 DEF IsSeq

\* What is left of a sequence without what was there already,
LEMMA UniqueType ==
  ASSUME NEW seq, IsSeq(seq)
  PROVE  IsSeq(Unique(seq)) /\ (seq # <<>> => Unique(seq) # <<>>)
<1> DEFINE T == ToSet(seq)
           N == Len(seq)
<1>1. N \in Nat /\ DOMAIN seq = 1..N /\ \A i \in 1..N : seq[i] \in T
  BY DEF IsSeq, ToSet
<1>2. PICK h : /\ h[0] = <<>> /\ Unique(seq) = h[N]
               /\ \A i \in 1..N : h[i] = IF Contains(h[i-1], seq[i]) THEN h[i-1] ELSE Append(h[i-1], seq[i])
  BY UniqueRounds
<1> DEFINE S == {i \in 0..N : h[i] \in Seq(T) /\ (i > 0 => h[i] # <<>>)}
<1>3. 0 \in S
  <2>1. <<>> \in Seq(T) /\ 0 \in 0..N
    BY <1>1
  <2>2. h[0] \in Seq(T)
    <3> HIDE DEF T
    <3> QED BY <1>2, <2>1
  <2>3. ~(0 > 0)
    OBVIOUS
  <2> HIDE DEF T, N
  <2> QED BY <2>1, <2>2, <2>3
<1>4. ASSUME NEW i \in 0..N-1, i \in S PROVE i + 1 \in S
  <2>1. i + 1 \in 1..N /\ (i + 1) - 1 = i /\ h[i] \in Seq(T) /\ seq[i+1] \in T
    BY <1>1, <1>4
  <2>2. h[i+1] = IF Contains(h[i], seq[i+1]) THEN h[i] ELSE Append(h[i], seq[i+1])
    BY <1>2, <2>1
  <2>3. CASE Contains(h[i], seq[i+1])
    <3>1. h[i] # <<>>
      BY <2>3 DEF Contains
    <3> QED BY <2>1, <2>2, <2>3, <3>1
  <2>4. CASE ~Contains(h[i], seq[i+1])
    <3> HIDE DEF T
    <3>1. \A s \in Seq(T) : Append(s, seq[i+1]) \in Seq(T) /\ Len(Append(s, seq[i+1])) = Len(s) + 1 /\ Len(s) \in Nat
      BY <2>1
    <3>2. \A s \in Seq(T) : Append(s, seq[i+1]) # <<>>
      BY <3>1
    <3>3. h[i+1] \in Seq(T) /\ h[i+1] # <<>>
      BY <2>1, <2>2, <2>4, <3>1, <3>2
    <3> QED BY <2>1, <3>3
  <2> QED BY <2>3, <2>4
<1>5. N \in S
  <2> HIDE DEF S, N
  <2>1. \A i \in 0..N : i \in S
    BY <1>1, <1>3, <1>4, IntervalInduction
  <2> QED BY <1>1, <2>1
<1>6. seq # <<>> => N > 0
  BY <1>1 DEF IsSeq
<1>7. Unique(seq) \in Seq(T) /\ (seq # <<>> => Unique(seq) # <<>>)
  BY <1>2, <1>5, <1>6
<1> HIDE DEF T
<1> QED BY <1>7, Contents DEF IsSeq

\* The loop that leaves out what is like the one before.
LEMMA DuplicateRounds ==
  ASSUME NEW seq, IsSeq(seq)
  PROVE  \E h : /\ h[0] = <<>> /\ RemoveSequentialDuplicates(seq) = h[Len(seq)]
                /\ \A i \in 1..Len(seq) : h[i] = (IF h[i-1] # <<>> /\ Last(h[i-1]) = seq[i] THEN h[i-1] ELSE Append(h[i-1], seq[i]))
<1> DEFINE Op(a, x) == (IF a # <<>> /\ Last(a) = x THEN a ELSE Append(a, x))
           Of(f, s) == IF s = {} THEN <<>> ELSE Op(f[s \ {Max(s)}], seq[Max(s)])
           S == {n \in Nat : \E f : f = [s \in SUBSET (1..n) |-> Of(f, s)]}
           iter == CHOOSE f : f = [s \in SUBSET DOMAIN seq |->
                     IF s = {} THEN <<>> ELSE (IF f[s \ {Max(s)}] # <<>> /\ Last(f[s \ {Max(s)}]) = seq[Max(s)] THEN f[s \ {Max(s)}] ELSE Append(f[s \ {Max(s)}], seq[Max(s)]))]
<1>1. 0 \in S
  <2> DEFINE f == [s \in SUBSET (1..0) |-> <<>>]
  <2>1. \A s \in SUBSET (1..0) : s = {}
    OBVIOUS
  <2> HIDE DEF Op
  <2>2. f = [s \in SUBSET (1..0) |-> Of(f, s)]
    BY <2>1
  <2> QED BY <2>2
<1>2. ASSUME NEW n \in Nat, n \in S PROVE n + 1 \in S
  <2>1. PICK f : f = [s \in SUBSET (1..n) |-> Of(f, s)]
    BY <1>2
  <2> DEFINE g == [s \in SUBSET (1..n+1) |-> IF n + 1 \in s THEN Op(f[s \ {n+1}], seq[n+1]) ELSE f[s]]
  <2>2. ASSUME NEW s \in SUBSET (1..n+1) PROVE g[s] = Of(g, s)
    <3> HIDE DEF Op
    <3>1. CASE n + 1 \in s
      <4>1. Max(s) = n + 1 /\ s # {} /\ s \ {n + 1} \in SUBSET (1..n) /\ s \ {n + 1} \in SUBSET (1..n+1)
        BY <3>1, TopOfInterval
      <4>2. g[s \ {n+1}] = f[s \ {n+1}]
        BY <4>1
      <4> QED BY <3>1, <4>1, <4>2
    <3>2. CASE n + 1 \notin s
      <4>1. s \in SUBSET (1..n) /\ (s # {} => s \ {Max(s)} \in SUBSET (1..n) /\ s \ {Max(s)} \in SUBSET (1..n+1))
        BY <3>2, TopOfInterval
      <4>2. s # {} => g[s \ {Max(s)}] = f[s \ {Max(s)}]
        <5>1. s # {} => n + 1 \notin s \ {Max(s)}
          BY <3>2
        <5> QED BY <4>1, <5>1
      <4>3. g[s] = f[s] /\ f[s] = Of(f, s)
        BY <2>1, <3>2, <4>1
      <4> QED BY <4>2, <4>3
    <3> QED BY <3>1, <3>2
  <2>3. g = [s \in SUBSET (1..n+1) |-> Of(g, s)]
    <3> HIDE DEF Of
    <3> QED BY <2>2
  <2> HIDE DEF g, Of
  <2> QED BY <2>3
<1>3. Len(seq) \in Nat /\ DOMAIN seq = 1..Len(seq)
  BY DEF IsSeq
<1>4. Len(seq) \in S
  <2> HIDE DEF S
  <2> QED BY <1>1, <1>2, <1>3, NatSetInduction
<1>5. iter = [s \in SUBSET DOMAIN seq |-> Of(iter, s)]
  <2>1. PICK f : f = [s \in SUBSET DOMAIN seq |-> Of(f, s)]
    BY <1>3, <1>4
  <2> QED BY <2>1
<1>6. RemoveSequentialDuplicates(seq) = iter[DOMAIN seq]
  BY DEF RemoveSequentialDuplicates, FoldLeft, MapThenFoldSet
<1> HIDE DEF iter, Op
<1> DEFINE h == [i \in 0..Len(seq) |-> iter[1..i]]
<1>7. h[0] = <<>> /\ h[Len(seq)] = iter[DOMAIN seq]
  BY <1>3, <1>5, OneToNone
<1>8. ASSUME NEW i \in 1..Len(seq) PROVE h[i] = Op(h[i-1], seq[i])
  <2>1. /\ i \in Nat /\ i - 1 \in 0..Len(seq) /\ Max(1..i) = i /\ 1..i # {}
        /\ (1..i) \ {i} = 1..i-1 /\ 1..i \in SUBSET DOMAIN seq
    BY <1>3, OneTo
  <2>2. iter[1..i] = Op(iter[(1..i) \ {Max(1..i)}], seq[Max(1..i)])
    BY <1>5, <2>1
  <2>3. h[i] = iter[1..i] /\ h[i-1] = iter[1..i-1]
    BY <1>3, <2>1
  <2> HIDE DEF h
  <2> QED BY <2>1, <2>2, <2>3
<1> HIDE DEF h
<1> QED BY <1>6, <1>7, <1>8 DEF Op

\* which is a sequence, too.
LEMMA DuplicatesType ==
  ASSUME NEW seq, IsSeq(seq)
  PROVE  IsSeq(RemoveSequentialDuplicates(seq))
<1> DEFINE T == ToSet(seq)
           N == Len(seq)
<1>1. N \in Nat /\ DOMAIN seq = 1..N /\ \A i \in 1..N : seq[i] \in T
  BY DEF IsSeq, ToSet
<1>2. PICK h : /\ h[0] = <<>> /\ RemoveSequentialDuplicates(seq) = h[N]
               /\ \A i \in 1..N : h[i] = IF h[i-1] # <<>> /\ Last(h[i-1]) = seq[i]
                                         THEN h[i-1] ELSE Append(h[i-1], seq[i])
  BY DuplicateRounds
<1> DEFINE S == Seq(T)
<1>3. h[0] \in S
  BY <1>2
<1>4. ASSUME NEW i \in 1..N, h[i-1] \in S PROVE h[i] \in S
  <2>1. seq[i] \in T
    BY <1>1
  <2>2. \A s \in S : Append(s, seq[i]) \in S
    BY <2>1
  <2> HIDE DEF S
  <2> QED BY <1>2, <1>4, <2>2
<1>5. h[N] \in S
  <2> HIDE DEF S, N
  <2>1. \A i \in 0..N : h[i] \in S
    BY <1>1, <1>3, <1>4, RunInduction
  <2> QED BY <1>1, <2>1
<1> HIDE DEF T
<1> QED BY <1>2, <1>5, Contents DEF IsSeq

\* There is always an option for a name.
LEMMA NameOptionsType ==
  ASSUME NEW type, NEW components, IsSeq(components)
  PROVE  IsSeq(NameOptions(type, components)) /\ NameOptions(type, components) # <<>>
<1> DEFINE n == Len(components)
           Ending(i) == FlattenSeq(RemoveSequentialDuplicates(SubSeq(components, n - i + 1, n)))
           first == <<Ending(n)>>
           ends == [i \in 1..n - 1 |-> Ending(i)]
           last == <<RemoveSequentialDuplicates(type \o components[n])>>
<1>1. n \in Nat
  BY DEF IsSeq
<1> HIDE DEF Ending
<1>2. IsSeq(first) /\ Len(first) = 1
  BY DEF IsSeq, ToSet
<1>3. IsSeq(last)
  <2> DEFINE x == RemoveSequentialDuplicates(type \o components[n])
  <2> HIDE DEF x
  <2> QED BY DEF IsSeq, ToSet
<1>4. IsSeq(ends)
  <2>1. CASE n = 0
    <3>1. 1..n-1 = {}
      BY <2>1
    <3>2. ends = <<>>
      BY <3>1
    <3> QED BY <3>2 DEF IsSeq
  <2>2. CASE n > 0
    <3>1. n - 1 \in Nat /\ ends = [i \in 1..n-1 |-> ends[i]]
      BY <1>1, <2>2
    <3> HIDE DEF ends
    <3> QED BY <3>1, MadeSeq
  <2> QED BY <1>1, <2>1, <2>2
<1> HIDE DEF first, ends, last
<1>5. IsSeq(first \o ends) /\ Len(first \o ends) = 1 + Len(ends) /\ Len(ends) \in Nat /\ Len(last) \in Nat
  <2>1. \A s : IsSeq(s) => Len(s) \in Nat
    BY DEF IsSeq
  <2>2. Len(ends) \in Nat /\ Len(last) \in Nat
    BY <1>3, <1>4, <2>1
  <2>3. IsSeq(first \o ends) /\ Len(first \o ends) = Len(first) + Len(ends)
    BY <1>2, <1>4, JoinedSeq
  <2> QED BY <1>2, <2>2, <2>3
<1>6. IsSeq(first \o ends \o last) /\ Len(first \o ends \o last) > 0
  BY <1>3, <1>5, JoinedSeq
<1>7. first \o ends \o last # <<>>
  BY <1>6
<1>8. NameOptions(type, components) = Unique(first \o ends \o last)
  BY DEF NameOptions, first, ends, last, Ending
<1> QED BY <1>6, <1>7, <1>8, UniqueType

\* A virtual property as far as its path goes, and those of a class.
ItemFields == {"name", "prop", "private", "comps", "opts", "path", "readOnly", "required", "id",
               "alias", "shown"}
IsItem(x) ==
  /\ ItemFields \subseteq DOMAIN x
  /\ IsSeq(x.comps) /\ IsSeq(x.opts) /\ x.opts # <<>> /\ IsSeq(x.path) /\ x.path # <<>>
AreItems(seq) == IsSeq(seq) /\ \A x \in ToSet(seq) : IsItem(x)
IsVirtual(v) ==
  /\ {"conflict", "owned", "inherited", "inlined"} \subseteq DOMAIN v
  /\ AreItems(v.owned) /\ AreItems(v.inherited) /\ AreItems(v.inlined)

\* The keys that the public ones of them reach.
Shows(seq) == {x.path[1] : x \in {y \in ToSet(seq) : ~y.private}}
Offers(v) == Shows(v.owned) \cup Shows(v.inherited) \cup Shows(v.inlined)

\* Those of two sequences,
LEMMA ItemsJoined ==
  ASSUME NEW s, AreItems(s), NEW t, AreItems(t)
  PROVE  AreItems(s \o t) /\ Shows(s \o t) = Shows(s) \cup Shows(t)
<1>1. IsSeq(s \o t) /\ ToSet(s \o t) = ToSet(s) \cup ToSet(t)
  BY JoinedSeq DEF AreItems
<1> QED BY <1>1 DEF AreItems, Shows

\* of all the sequences of one,
LEMMA ItemsFlat ==
  ASSUME NEW seqs, IsSeq(seqs), \A i \in DOMAIN seqs : AreItems(seqs[i])
  PROVE  /\ AreItems(FlattenSeq(seqs))
         /\ Shows(FlattenSeq(seqs)) = UNION {Shows(seqs[i]) : i \in DOMAIN seqs}
<1>1. /\ IsSeq(FlattenSeq(seqs))
      /\ ToSet(FlattenSeq(seqs)) = UNION {ToSet(seqs[i]) : i \in DOMAIN seqs}
  BY FlatSeq DEF AreItems
<1>2. AreItems(FlattenSeq(seqs))
  BY <1>1 DEF AreItems
<1>3. Shows(FlattenSeq(seqs)) = UNION {Shows(seqs[i]) : i \in DOMAIN seqs}
  BY <1>1 DEF Shows
<1> QED BY <1>2, <1>3

\* of all virtual properties,
LEMMA ItemsOfAll ==
  ASSUME NEW v, IsVirtual(v)
  PROVE  AreItems(AllVirtual(v)) /\ Shows(AllVirtual(v)) = Offers(v)
<1>1. AreItems(v.owned \o v.inherited) /\ Shows(v.owned \o v.inherited) = Shows(v.owned) \cup Shows(v.inherited)
  BY ItemsJoined DEF IsVirtual
<1>2. /\ AreItems(v.owned \o v.inherited \o v.inlined)
      /\ Shows(v.owned \o v.inherited \o v.inlined) = Shows(v.owned \o v.inherited) \cup Shows(v.inlined)
  BY <1>1, ItemsJoined DEF IsVirtual
<1> QED BY <1>1, <1>2 DEF AllVirtual, Offers

\* and of some of a sequence.
LEMMA ItemsFiltered ==
  ASSUME NEW seq, AreItems(seq), NEW positions
  PROVE  /\ AreItems(Those(seq, positions))
         /\ ToSet(Those(seq, positions)) = {seq[i] : i \in DOMAIN seq \cap positions}
<1>1. /\ Those(seq, positions) \in Seq(ToSet(seq))
      /\ ToSet(Those(seq, positions)) = {seq[i] : i \in DOMAIN seq \cap positions}
  BY ThoseElements DEF AreItems, IsSeq
<1>2. IsSeq(Those(seq, positions)) /\ ToSet(Those(seq, positions)) \subseteq ToSet(seq)
  BY <1>1, Contents DEF IsSeq
<1> QED BY <1>1, <1>2 DEF AreItems

\* A new name changes neither.
NewNames(s, t) ==
  /\ IsSeq(t) /\ Len(t) = Len(s)
  /\ \A i \in 1..Len(s) : \E name : t[i] = [s[i] EXCEPT !.name = name]
LEMMA Named ==
  ASSUME NEW s, AreItems(s), NEW t, NewNames(s, t)
  PROVE  AreItems(t) /\ Shows(t) = Shows(s)
<1>1. /\ Len(s) \in Nat /\ DOMAIN s = 1..Len(s) /\ DOMAIN t = 1..Len(s) /\ IsSeq(t)
      /\ \A i \in 1..Len(s) : IsItem(s[i])
  BY DEF AreItems, NewNames, IsSeq, ToSet
<1>2. ASSUME NEW i \in 1..Len(s)
      PROVE  IsItem(t[i]) /\ t[i].private = s[i].private /\ t[i].path = s[i].path
  <2>1. PICK name : t[i] = [s[i] EXCEPT !.name = name]
    BY <1>2 DEF NewNames
  <2>2. IsItem(s[i])
    BY <1>1
  <2>3. ItemFields \subseteq DOMAIN s[i] /\ DOMAIN t[i] = DOMAIN s[i]
    BY <2>1, <2>2 DEF IsItem
  <2>4. /\ t[i].comps = s[i].comps /\ t[i].opts = s[i].opts /\ t[i].path = s[i].path
        /\ t[i].private = s[i].private
    BY <2>1, <2>3 DEF ItemFields
  <2> QED BY <2>2, <2>3, <2>4 DEF IsItem
<1>3. AreItems(t)
  BY <1>1, <1>2 DEF AreItems, ToSet
<1>4. Shows(t) = Shows(s)
  BY <1>1, <1>2 DEF Shows, ToSet
<1> QED BY <1>3, <1>4

\* A loop that puts each element into the result with a name that it chooses.
LEMMA NamingLoop ==
  ASSUME NEW seq, IsSeq(seq), NEW h, h[0].seq = <<>>,
         \A i \in 1..Len(seq) : \E name : h[i].seq = Append(h[i-1].seq, [seq[i] EXCEPT !.name = name])
  PROVE  NewNames(seq, h[Len(seq)].seq)
<1> DEFINE N == Len(seq)
           New(i, x) == \E name : x = [seq[i] EXCEPT !.name = name]
           S == {i \in 0..N : /\ IsSeq(h[i].seq) /\ Len(h[i].seq) = i
                              /\ \A k \in 1..i : New(k, h[i].seq[k])}
<1>1. N \in Nat
  BY DEF IsSeq
<1>2. 0 \in S
  <2>1. IsSeq(<<>>) /\ Len(<<>>) = 0 /\ 0 \in 0..N /\ 1..0 = {}
    BY <1>1 DEF IsSeq
  <2> HIDE DEF New, N
  <2> QED BY <2>1
<1>3. ASSUME NEW i \in 0..N-1, i \in S PROVE i + 1 \in S
  <2>1. i + 1 \in 1..N /\ i \in Nat /\ (i + 1) - 1 = i
    BY <1>1
  <2>2. PICK name : h[i+1].seq = Append(h[i].seq, [seq[i+1] EXCEPT !.name = name])
    BY <2>1
  <2> DEFINE x == [seq[i+1] EXCEPT !.name = name]
             s == h[i].seq
             T == ToSet(s) \cup {x}
  <2>3. IsSeq(s) /\ Len(s) = i /\ \A k \in 1..i : New(k, s[k])
    BY <1>3
  <2>4. New(i+1, x)
    OBVIOUS
  <2>5. h[i+1].seq = Append(s, x)
    BY <2>2
  <2> HIDE DEF x, s, New
  <2>6. s \in Seq(T) /\ x \in T
    <3>1. s \in Seq(ToSet(s)) /\ ToSet(s) \subseteq T /\ x \in T
      BY <2>3 DEF IsSeq
    <3> HIDE DEF T
    <3> QED BY <3>1
  <2> HIDE DEF T
  <2>7. /\ Append(s, x) \in Seq(T) /\ Len(Append(s, x)) = i + 1 /\ Append(s, x)[i+1] = x
        /\ \A k \in 1..i : Append(s, x)[k] = s[k]
    BY <2>1, <2>3, <2>6
  <2>8. IsSeq(Append(s, x))
    BY <2>7, Contents DEF IsSeq
  <2>9. \A k \in 1..i+1 : k \in 1..i \/ k = i + 1
    BY <2>1
  <2>10. \A k \in 1..i+1 : New(k, Append(s, x)[k])
    BY <2>3, <2>4, <2>7, <2>9
  <2>11. i + 1 \in 0..N
    BY <2>1
  <2> QED BY <2>5, <2>7, <2>8, <2>10, <2>11
<1>4. N \in S
  <2> HIDE DEF S, N
  <2>1. \A i \in 0..N : i \in S
    BY <1>1, <1>2, <1>3, IntervalInduction
  <2> QED BY <1>1, <2>1
<1> QED BY <1>4 DEF NewNames

\* How many options the properties of a sequence have at most.
LEMMA OptionsBound ==
  ASSUME NEW seq, AreItems(seq)
  PROVE  \E N \in Nat : \A x \in ToSet(seq) : Len(x.opts) \in 1..N
<1> DEFINE n == Len(seq)
           S == {i \in 0..n : \E N \in Nat : \A k \in 1..i : Len(seq[k].opts) \in 1..N}
<1>1. n \in Nat /\ DOMAIN seq = 1..n /\ \A i \in 1..n : IsItem(seq[i])
  BY DEF AreItems, IsSeq, ToSet
<1>2. \A i \in 1..n : Len(seq[i].opts) \in Nat /\ Len(seq[i].opts) > 0
  BY <1>1 DEF IsItem, IsSeq
<1>3. 0 \in S
  BY <1>1
<1>4. ASSUME NEW i \in 0..n-1, i \in S PROVE i + 1 \in S
  <2>1. i + 1 \in 1..n /\ i \in Nat
    BY <1>1
  <2>2. PICK N \in Nat : \A k \in 1..i : Len(seq[k].opts) \in 1..N
    BY <1>4
  <2> DEFINE M == N + Len(seq[i+1].opts)
  <2>3. M \in Nat /\ M >= N /\ Len(seq[i+1].opts) \in 1..M
    BY <1>2, <2>1
  <2>4. \A k \in 1..i+1 : k \in 1..i \/ k = i + 1
    BY <2>1
  <2> HIDE DEF M
  <2>5. \A k \in 1..i+1 : Len(seq[k].opts) \in 1..M
    BY <2>2, <2>3, <2>4
  <2>6. i + 1 \in 0..n
    BY <2>1
  <2> QED BY <2>3, <2>5, <2>6
<1>5. n \in S
  <2> HIDE DEF S, n
  <2>1. \A i \in 0..n : i \in S
    BY <1>1, <1>3, <1>4, IntervalInduction
  <2> QED BY <1>1, <2>1
<1> QED BY <1>1, <1>5 DEF ToSet

\* Sorted by how many they have, they are all still there.
ByOptions(seq) ==
  LET most == Max({1} \cup {Len(each.opts) : each \in ToSet(seq)})
  IN FlattenSeq([n \in 1..most |-> Filtered(seq, LAMBDA each : Len(each.opts) = n)])
LEMMA SortedItems ==
  ASSUME NEW seq, AreItems(seq)
  PROVE  AreItems(ByOptions(seq)) /\ ToSet(ByOptions(seq)) = ToSet(seq)
<1> DEFINE counts == {1} \cup {Len(each.opts) : each \in ToSet(seq)}
           most == Max(counts)
           Having(n) == {i \in DOMAIN seq : Len(seq[i].opts) = n}
           lists == [n \in 1..most |-> Those(seq, Having(n))]
<1>1. PICK N \in Nat : \A x \in ToSet(seq) : Len(x.opts) \in 1..N
  BY OptionsBound
<1>2. counts \in SUBSET (1..N+1) /\ N + 1 \in Nat /\ counts # {}
  BY <1>1
<1>3. most \in Nat /\ most >= 1 /\ \A x \in ToSet(seq) : Len(x.opts) \in 1..most
  <2>1. Max(counts) \in counts /\ \A y \in counts : Max(counts) >= y
    <3> HIDE DEF counts
    <3> QED BY <1>2, MaxInterval
  <2>2. most \in 1..N+1 /\ most >= 1
    BY <1>2, <2>1
  <2>3. \A x \in ToSet(seq) : Len(x.opts) \in 1..N /\ most >= Len(x.opts)
    BY <1>1, <2>1
  <2> HIDE DEF most
  <2> QED BY <2>2, <2>3
<1>4. ByOptions(seq) = FlattenSeq(lists)
  BY DEF ByOptions, Filtered
<1> HIDE DEF most
<1>5. IsSeq(lists) /\ DOMAIN lists = 1..most
  <2>1. lists = [n \in 1..most |-> lists[n]]
    OBVIOUS
  <2> HIDE DEF lists
  <2> QED BY <1>3, <2>1, MadeSeq
<1>6. \A n \in 1..most : /\ AreItems(lists[n])
                         /\ ToSet(lists[n]) = {seq[i] : i \in DOMAIN seq \cap Having(n)}
  <2>1. \A n \in 1..most : lists[n] = Those(seq, Having(n))
    OBVIOUS
  <2> HIDE DEF lists, Having
  <2>2. \A n \in 1..most : /\ AreItems(Those(seq, Having(n)))
                           /\ ToSet(Those(seq, Having(n))) = {seq[i] : i \in DOMAIN seq \cap Having(n)}
    BY ItemsFiltered
  <2> QED BY <2>1, <2>2
<1> HIDE DEF lists
<1>7. AreItems(FlattenSeq(lists)) /\ ToSet(FlattenSeq(lists)) = UNION {ToSet(lists[n]) : n \in 1..most}
  <2>1. AreItems(FlattenSeq(lists))
    BY <1>5, <1>6, ItemsFlat
  <2>2. \A i \in DOMAIN lists : IsSeq(lists[i])
    BY <1>5, <1>6 DEF AreItems
  <2>3. ToSet(FlattenSeq(lists)) = UNION {ToSet(lists[n]) : n \in DOMAIN lists}
    BY <1>5, <2>2, FlatSeq
  <2> QED BY <1>5, <2>1, <2>3
<1>8. ToSet(FlattenSeq(lists)) = ToSet(seq)
  <2>1. ToSet(FlattenSeq(lists)) \subseteq ToSet(seq)
    BY <1>6, <1>7 DEF ToSet
  <2>2. ASSUME NEW x \in ToSet(seq) PROVE x \in ToSet(FlattenSeq(lists))
    <3>1. PICK i \in DOMAIN seq : seq[i] = x
      BY DEF ToSet
    <3>2. Len(seq[i].opts) \in 1..most /\ i \in Having(Len(seq[i].opts))
      BY <1>3, <3>1
    <3>3. x \in ToSet(lists[Len(seq[i].opts)])
      BY <1>6, <3>1, <3>2
    <3> QED BY <1>7, <3>2, <3>3
  <2> QED BY <2>1, <2>2
<1> QED BY <1>4, <1>7, <1>8

\* One round of the loop that resolves collisions.
Resolved(all, done, each) ==
  LET name == IF Cardinality({i \in DOMAIN all : all[i].name = each.name}) > 1
              THEN SelectName(each.opts, done.used) ELSE each.name
  IN [used |-> done.used \cup {name}, seq |-> Append(done.seq, [each EXCEPT !.name = name])]
CollisionEnd(all, names, seq) ==
  FoldLeft(LAMBDA done, each : Resolved(all, done, each), [used |-> names, seq |-> <<>>], seq)

\* The rounds.
LEMMA CollisionRounds ==
  ASSUME NEW all, NEW names, NEW seq, IsSeq(seq)
  PROVE  \E h : /\ h[0] = [used |-> names, seq |-> <<>>] /\ CollisionEnd(all, names, seq) = h[Len(seq)]
                /\ \A i \in 1..Len(seq) : h[i] = Resolved(all, h[i-1], seq[i])
<1> DEFINE Op(a, x) == Resolved(all, a, x)
           Of(f, s) == IF s = {} THEN [used |-> names, seq |-> <<>>] ELSE Op(f[s \ {Max(s)}], seq[Max(s)])
           S == {n \in Nat : \E f : f = [s \in SUBSET (1..n) |-> Of(f, s)]}
           iter == CHOOSE f : f = [s \in SUBSET DOMAIN seq |->
                     IF s = {} THEN [used |-> names, seq |-> <<>>] ELSE Resolved(all, f[s \ {Max(s)}], seq[Max(s)])]
<1>1. 0 \in S
  <2> DEFINE f == [s \in SUBSET (1..0) |-> [used |-> names, seq |-> <<>>]]
  <2>1. \A s \in SUBSET (1..0) : s = {}
    OBVIOUS
  <2> HIDE DEF Op
  <2>2. f = [s \in SUBSET (1..0) |-> Of(f, s)]
    BY <2>1
  <2> QED BY <2>2
<1>2. ASSUME NEW n \in Nat, n \in S PROVE n + 1 \in S
  <2>1. PICK f : f = [s \in SUBSET (1..n) |-> Of(f, s)]
    BY <1>2
  <2> DEFINE g == [s \in SUBSET (1..n+1) |-> IF n + 1 \in s THEN Op(f[s \ {n+1}], seq[n+1]) ELSE f[s]]
  <2>2. ASSUME NEW s \in SUBSET (1..n+1) PROVE g[s] = Of(g, s)
    <3> HIDE DEF Op
    <3>1. CASE n + 1 \in s
      <4>1. Max(s) = n + 1 /\ s # {} /\ s \ {n + 1} \in SUBSET (1..n) /\ s \ {n + 1} \in SUBSET (1..n+1)
        BY <3>1, TopOfInterval
      <4>2. g[s \ {n+1}] = f[s \ {n+1}]
        BY <4>1
      <4> QED BY <3>1, <4>1, <4>2
    <3>2. CASE n + 1 \notin s
      <4>1. s \in SUBSET (1..n) /\ (s # {} => s \ {Max(s)} \in SUBSET (1..n) /\ s \ {Max(s)} \in SUBSET (1..n+1))
        BY <3>2, TopOfInterval
      <4>2. s # {} => g[s \ {Max(s)}] = f[s \ {Max(s)}]
        <5>1. s # {} => n + 1 \notin s \ {Max(s)}
          BY <3>2
        <5> QED BY <4>1, <5>1
      <4>3. g[s] = f[s] /\ f[s] = Of(f, s)
        BY <2>1, <3>2, <4>1
      <4> QED BY <4>2, <4>3
    <3> QED BY <3>1, <3>2
  <2>3. g = [s \in SUBSET (1..n+1) |-> Of(g, s)]
    <3> HIDE DEF Of
    <3> QED BY <2>2
  <2> HIDE DEF g, Of
  <2> QED BY <2>3
<1>3. Len(seq) \in Nat /\ DOMAIN seq = 1..Len(seq)
  BY DEF IsSeq
<1>4. Len(seq) \in S
  <2> HIDE DEF S
  <2> QED BY <1>1, <1>2, <1>3, NatSetInduction
<1>5. iter = [s \in SUBSET DOMAIN seq |-> Of(iter, s)]
  <2>1. PICK f : f = [s \in SUBSET DOMAIN seq |-> Of(f, s)]
    BY <1>3, <1>4
  <2> QED BY <2>1
<1>6. CollisionEnd(all, names, seq) = iter[DOMAIN seq]
  BY DEF CollisionEnd, FoldLeft, MapThenFoldSet
<1> HIDE DEF iter, Op
<1> DEFINE h == [i \in 0..Len(seq) |-> iter[1..i]]
<1>7. h[0] = [used |-> names, seq |-> <<>>] /\ h[Len(seq)] = iter[DOMAIN seq]
  BY <1>3, <1>5, OneToNone
<1>8. ASSUME NEW i \in 1..Len(seq) PROVE h[i] = Op(h[i-1], seq[i])
  <2>1. /\ i \in Nat /\ i - 1 \in 0..Len(seq) /\ Max(1..i) = i /\ 1..i # {}
        /\ (1..i) \ {i} = 1..i-1 /\ 1..i \in SUBSET DOMAIN seq
    BY <1>3, OneTo
  <2>2. iter[1..i] = Op(iter[(1..i) \ {Max(1..i)}], seq[Max(1..i)])
    BY <1>5, <2>1
  <2>3. h[i] = iter[1..i] /\ h[i-1] = iter[1..i-1]
    BY <1>3, <2>1
  <2> HIDE DEF h
  <2> QED BY <2>1, <2>2, <2>3
<1> HIDE DEF h
<1> QED BY <1>6, <1>7, <1>8 DEF Op

\* The virtual properties reach what they reached before they were given other names.
LEMMA CollisionsResolved ==
  ASSUME NEW v, IsVirtual(v)
  PROVE  LET w == ResolveCollisions(v)
         IN IsVirtual(w) /\ w.conflict = v.conflict /\ Offers(w) = Offers(v)
<1> DEFINE all == AllVirtual(v)
           names == {all[i].name : i \in DOMAIN all}
           sorted == ByOptions(v.inlined)
           end == CollisionEnd(all, names, sorted)
           w == ResolveCollisions(v)
<1>1. w = [v EXCEPT !.inlined = end.seq]
  BY DEF ResolveCollisions, ByOptions, Resolved, CollisionEnd
<1>2. AreItems(sorted) /\ ToSet(sorted) = ToSet(v.inlined)
  BY SortedItems DEF IsVirtual
<1> HIDE DEF all, names, sorted, w
<1>3. PICK h : /\ h[0] = [used |-> names, seq |-> <<>>] /\ end = h[Len(sorted)]
               /\ \A i \in 1..Len(sorted) : h[i] = Resolved(all, h[i-1], sorted[i])
  <2>1. IsSeq(sorted)
    BY <1>2 DEF AreItems
  <2> QED BY <2>1, CollisionRounds
<1> HIDE DEF end
<1>4. NewNames(sorted, end.seq)
  <2>1. h[0].seq = <<>>
    BY <1>3
  <2>2. ASSUME NEW i \in 1..Len(sorted)
        PROVE  \E name : h[i].seq = Append(h[i-1].seq, [sorted[i] EXCEPT !.name = name])
    <3>1. h[i] = Resolved(all, h[i-1], sorted[i])
      BY <1>3
    <3>2. \E name : Resolved(all, h[i-1], sorted[i]).seq = Append(h[i-1].seq, [sorted[i] EXCEPT !.name = name])
      BY DEF Resolved
    <3> QED BY <3>1, <3>2
  <2> QED BY <1>2, <1>3, <2>1, <2>2, NamingLoop DEF AreItems
<1>5. AreItems(end.seq) /\ Shows(end.seq) = Shows(v.inlined)
  <2>1. AreItems(end.seq) /\ Shows(end.seq) = Shows(sorted)
    BY <1>2, <1>4, Named
  <2> QED BY <1>2, <2>1 DEF Shows
<1>6. /\ DOMAIN w = DOMAIN v /\ w.owned = v.owned /\ w.inherited = v.inherited
      /\ w.inlined = end.seq /\ w.conflict = v.conflict
  BY <1>1 DEF IsVirtual
<1>7. IsVirtual(w) /\ Offers(w) = Offers(v)
  BY <1>5, <1>6 DEF IsVirtual, Offers
<1> QED BY <1>6, <1>7 DEF w

\* A property of the schema itself,
LEMMA OwnedItem ==
  ASSUME NEW schema, NEW id, NEW p, NEW private
  PROVE  LET x == Owned(schema, id, p, private)
         IN IsItem(x)
<1> DEFINE x == Owned(schema, id, p, private)
           name == p.name
           ser == p.ser
<1>1. IsSeq(<<name>>) /\ <<name>> # <<>> /\ IsSeq(<<ser>>) /\ <<ser>> # <<>>
  <2> HIDE DEF name, ser
  <2> QED BY DEF IsSeq, ToSet
<1>2. IsSeq(NameOptions(schema.name, <<name>>)) /\ NameOptions(schema.name, <<name>>) # <<>>
  <2> HIDE DEF name
  <2> QED BY <1>1, NameOptionsType
<1>3. /\ x.path = <<ser>> /\ x.comps = <<name>>
      /\ x.opts = IF private THEN NameOptions(schema.name, <<name>>) ELSE <<name>>
      /\ ItemFields \subseteq DOMAIN x
  BY DEF Owned, ItemFields
<1>4. IsSeq(x.opts) /\ x.opts # <<>>
  <2> HIDE DEF x, name
  <2> QED BY <1>1, <1>2, <1>3
<1> HIDE DEF x, ser, name
<1> QED BY <1>1, <1>3, <1>4 DEF IsItem, x

\* one that is inlined,
CopyOf(schemas, id, p, each, prefix) ==
  LET components == RemoveSequentialDuplicates(<<p.name>> \o each.comps)
  IN [each EXCEPT !.name = prefix \o @, !.comps = components,
                  !.opts = NameOptions(schemas[each.prop.schema].name, components),
                  !.path = <<p.ser>> \o @,
                  !.readOnly = @ \/ p.readOnly, !.required = @ /\ p.required,
                  !.id = <<id, p.ser>> \o @, !.alias = {}]
LEMMA CopiedItem ==
  ASSUME NEW schemas, NEW id, NEW p, NEW each, IsItem(each), NEW prefix
  PROVE  LET x == CopyOf(schemas, id, p, each, prefix)
         IN IsItem(x) /\ x.private = each.private /\ x.path[1] = p.ser
<1> DEFINE x == CopyOf(schemas, id, p, each, prefix)
           components == RemoveSequentialDuplicates(<<p.name>> \o each.comps)
           ser == p.ser
           name == p.name
<1>1. IsSeq(<<name>>) /\ IsSeq(<<ser>>) /\ Len(<<ser>>) = 1 /\ 1 \in DOMAIN <<ser>>
  <2> HIDE DEF name, ser
  <2> QED BY DEF IsSeq, ToSet
<1>2. IsSeq(components)
  <2>1. IsSeq(<<name>> \o each.comps)
    <3> HIDE DEF name
    <3> QED BY <1>1, JoinedSeq DEF IsItem
  <2> QED BY <2>1, DuplicatesType
<1>3. /\ IsSeq(NameOptions(schemas[each.prop.schema].name, components))
      /\ NameOptions(schemas[each.prop.schema].name, components) # <<>>
  <2> HIDE DEF components
  <2> QED BY <1>2, NameOptionsType
<1>4. /\ DOMAIN x = DOMAIN each /\ x.private = each.private /\ x.comps = components
      /\ x.opts = NameOptions(schemas[each.prop.schema].name, components)
      /\ x.path = <<ser>> \o each.path
  BY DEF CopyOf, IsItem, ItemFields
<1>5. IsSeq(x.path) /\ x.path # <<>> /\ x.path[1] = ser
  <2> HIDE DEF ser
  <2>1. /\ IsSeq(<<ser>> \o each.path) /\ 1 \in DOMAIN (<<ser>> \o each.path)
        /\ (<<ser>> \o each.path)[1] = <<ser>>[1]
    BY <1>1, JoinedSeq DEF IsItem
  <2>2. \A s : 1 \in DOMAIN s => s # <<>>
    OBVIOUS
  <2> QED BY <1>4, <2>1, <2>2
<1> HIDE DEF x, components, ser
<1> QED BY <1>2, <1>3, <1>4, <1>5 DEF IsItem, x, ser

\* all that are inlined: they are reached by the key of the property, if they are to be
\* reached at all,
LEMMA InlinedItems ==
  ASSUME NEW schemas, NEW id, NEW p, NEW v, IsVirtual(v)
  PROVE  LET seq == Inlined(schemas, id, p, v)
         IN AreItems(seq) /\ (Offers(v) # {} => p.ser \in Shows(seq))
<1> DEFINE prefix == IF p.name \in {<<"properties">>, <<"error">>} THEN <<>>
                     ELSE [i \in DOMAIN p.name |-> Singularize(p.name[i])]
           direct == v.inherited \o v.owned
           s == [i \in DOMAIN direct |-> CopyOf(schemas, id, p, direct[i], prefix)]
           t == [i \in DOMAIN v.inlined |-> CopyOf(schemas, id, p, v.inlined[i], <<>>)]
<1>1. Inlined(schemas, id, p, v) = s \o t
  BY DEF Inlined, CopyOf
<1> HIDE DEF prefix
<1>2. AreItems(direct) /\ AreItems(v.inlined) /\ Shows(direct) = Shows(v.inherited) \cup Shows(v.owned)
  BY ItemsJoined DEF IsVirtual
<1> HIDE DEF direct
<1>3. ASSUME NEW seq, AreItems(seq), NEW start
      PROVE  LET new == [i \in DOMAIN seq |-> CopyOf(schemas, id, p, seq[i], start)]
             IN AreItems(new) /\ (Shows(seq) # {} => p.ser \in Shows(new))
  <2> DEFINE new == [i \in DOMAIN seq |-> CopyOf(schemas, id, p, seq[i], start)]
             ser == p.ser
  <2>1. IsSeq(new) /\ DOMAIN new = DOMAIN seq
    <3>1. new = [i \in DOMAIN seq |-> new[i]]
      OBVIOUS
    <3> HIDE DEF new
    <3> QED BY <1>3, <3>1, MappedSeq DEF AreItems
  <2>2. ASSUME NEW i \in DOMAIN seq
        PROVE  IsItem(new[i]) /\ new[i].private = seq[i].private /\ new[i].path[1] = ser
    <3>1. IsItem(seq[i]) /\ new[i] = CopyOf(schemas, id, p, seq[i], start)
      BY <1>3 DEF AreItems, ToSet
    <3> HIDE DEF new
    <3> QED BY <3>1, CopiedItem
  <2> HIDE DEF new, ser
  <2>3. AreItems(new)
    BY <2>1, <2>2 DEF AreItems, ToSet
  <2>4. ASSUME Shows(seq) # {} PROVE ser \in Shows(new)
    <3>1. PICK i \in DOMAIN seq : ~seq[i].private
      BY <2>4 DEF Shows, ToSet
    <3>2. new[i] \in ToSet(new) /\ ~new[i].private /\ new[i].path[1] = ser
      BY <2>1, <2>2, <3>1 DEF ToSet
    <3> QED BY <3>2 DEF Shows
  <2> QED BY <2>3, <2>4 DEF new, ser
<1>4. AreItems(s) /\ (Shows(direct) # {} => p.ser \in Shows(s))
  BY <1>2, <1>3
<1>5. AreItems(t) /\ (Shows(v.inlined) # {} => p.ser \in Shows(t))
  BY <1>2, <1>3
<1> HIDE DEF s, t
<1>6. AreItems(s \o t) /\ Shows(s \o t) = Shows(s) \cup Shows(t)
  BY <1>4, <1>5, ItemsJoined
<1> QED BY <1>1, <1>2, <1>4, <1>5, <1>6 DEF Offers

\* and those of a parent.
LEMMA CopiesItems ==
  ASSUME NEW v, IsVirtual(v)
  PROVE  AreItems(Copies(v)) /\ Shows(Copies(v)) = Offers(v)
<1>1. AreItems(v.inherited \o v.inlined) /\ Shows(v.inherited \o v.inlined) = Shows(v.inherited) \cup Shows(v.inlined)
  BY ItemsJoined DEF IsVirtual
<1>2. /\ AreItems(v.inherited \o v.inlined \o v.owned)
      /\ Shows(v.inherited \o v.inlined \o v.owned) = Shows(v.inherited \o v.inlined) \cup Shows(v.owned)
  BY <1>1, ItemsJoined DEF IsVirtual
<1> QED BY <1>1, <1>2 DEF Copies, Offers

\* Where there is a member, or none.
LEMMA SomeMember ==
  ASSUME NEW s, AreSchemas(s), NEW depth \in Depths(s), NEW id \in DOMAIN s
  PROVE  /\ AllProperties(s, id) # <<>> => Members(s, id) # {}
         /\ s[id].type # "object" => Members(s, id) = {}
<1> DEFINE all == AllProperties(s, id)
<1>1. all \in Seq(PropsIn(s)) /\ (s[id].type # "object" => all = <<>>)
  BY AllPropertiesType
<1> HIDE DEF all
<1>2. all # <<>> => 1 \in DOMAIN all
  BY <1>1
<1>3. all # <<>> => Members(s, id) # {}
  BY <1>2 DEF Members, ToSet, all
<1>4. all = <<>> => Members(s, id) = {}
  BY DEF Members, ToSet, all
<1> QED BY <1>1, <1>3, <1>4 DEF all

\* What the parents and the object properties of a schema have, made into what it has itself.
ParentsOf(s, cur) == Those(s[cur].parents, {i \in DOMAIN s[cur].parents : s[s[cur].parents[i]].type = "object"})
ObjectsOf(s, cur) == Those(s[cur].props, {i \in DOMAIN s[cur].props : Inlinable(s, s[cur], s[cur].props[i])})
OthersOf(s, cur) == Those(s[cur].props, {i \in DOMAIN s[cur].props : ~Inlinable(s, s[cur], s[cur].props[i])})
LEMMA SplitProps ==
  ASSUME NEW s, AreSchemas(s), NEW cur \in DOMAIN s
  PROVE  /\ IsSeq(ParentsOf(s, cur)) /\ IsSeq(ObjectsOf(s, cur)) /\ IsSeq(OthersOf(s, cur))
         /\ ToSet(ParentsOf(s, cur)) = {p \in ToSet(s[cur].parents) : s[p].type = "object"}
         /\ ToSet(ObjectsOf(s, cur)) = {p \in ToSet(s[cur].props) : Inlinable(s, s[cur], p)}
         /\ ToSet(OthersOf(s, cur)) = {p \in ToSet(s[cur].props) : ~Inlinable(s, s[cur], p)}
         /\ ToSet(s[cur].parents) \subseteq DOMAIN s
         /\ \A p \in ToSet(s[cur].props) : p.schema \in DOMAIN s
<1> DEFINE parents == s[cur].parents
           props == s[cur].props
<1>1. /\ parents \in Seq(DOMAIN s) /\ props \in Seq(ToSet(props))
      /\ \A p \in ToSet(props) : p.schema \in DOMAIN s
  BY DEF AreSchemas, IsSchema
<1>2. ToSet(parents) \subseteq DOMAIN s /\ parents \in Seq(ToSet(parents))
  BY <1>1, Contents
<1> HIDE DEF parents, props
<1>3. ASSUME NEW seq, seq \in Seq(ToSet(seq)), NEW positions
      PROVE  /\ IsSeq(Those(seq, positions))
             /\ ToSet(Those(seq, positions)) = {seq[i] : i \in DOMAIN seq \cap positions}
  <2>1. /\ Those(seq, positions) \in Seq(ToSet(seq))
        /\ ToSet(Those(seq, positions)) = {seq[i] : i \in DOMAIN seq \cap positions}
    BY <1>3, ThoseElements
  <2> QED BY <2>1, Contents DEF IsSeq
<1>4. /\ IsSeq(ParentsOf(s, cur))
      /\ ToSet(ParentsOf(s, cur)) = {p \in ToSet(parents) : s[p].type = "object"}
  <2> DEFINE at == {i \in DOMAIN parents : s[parents[i]].type = "object"}
  <2>1. /\ IsSeq(Those(parents, at)) /\ ToSet(Those(parents, at)) = {parents[i] : i \in DOMAIN parents \cap at}
    <3> HIDE DEF at
    <3> QED BY <1>2, <1>3
  <2>2. {parents[i] : i \in DOMAIN parents \cap at} = {p \in ToSet(parents) : s[p].type = "object"}
    BY DEF ToSet
  <2> QED BY <2>1, <2>2 DEF ParentsOf, parents
<1>5. ASSUME NEW Q \in SUBSET ToSet(props)
      PROVE  LET at == {i \in DOMAIN props : props[i] \in Q}
             IN IsSeq(Those(props, at)) /\ ToSet(Those(props, at)) = Q
  <2> DEFINE at == {i \in DOMAIN props : props[i] \in Q}
  <2>1. /\ IsSeq(Those(props, at)) /\ ToSet(Those(props, at)) = {props[i] : i \in DOMAIN props \cap at}
    <3> HIDE DEF at
    <3> QED BY <1>1, <1>3
  <2>2. {props[i] : i \in DOMAIN props \cap at} = Q
    BY DEF ToSet
  <2> QED BY <2>1, <2>2
<1>6. /\ IsSeq(ObjectsOf(s, cur))
      /\ ToSet(ObjectsOf(s, cur)) = {p \in ToSet(props) : Inlinable(s, s[cur], p)}
  <2> DEFINE Q == {p \in ToSet(props) : Inlinable(s, s[cur], p)}
             at == {i \in DOMAIN props : props[i] \in Q}
  <2>1. IsSeq(Those(props, at)) /\ ToSet(Those(props, at)) = Q
    BY <1>5
  <2>2. at = {i \in DOMAIN props : Inlinable(s, s[cur], props[i])}
    BY DEF ToSet
  <2> QED BY <2>1, <2>2 DEF ObjectsOf, props
<1>7. /\ IsSeq(OthersOf(s, cur))
      /\ ToSet(OthersOf(s, cur)) = {p \in ToSet(props) : ~Inlinable(s, s[cur], p)}
  <2> DEFINE Q == {p \in ToSet(props) : ~Inlinable(s, s[cur], p)}
             at == {i \in DOMAIN props : props[i] \in Q}
  <2>1. IsSeq(Those(props, at)) /\ ToSet(Those(props, at)) = Q
    BY <1>5
  <2>2. at = {i \in DOMAIN props : ~Inlinable(s, s[cur], props[i])}
    BY DEF ToSet
  <2> QED BY <2>1, <2>2 DEF OthersOf, props
<1> QED BY <1>1, <1>2, <1>4, <1>6, <1>7 DEF parents, props

AboveOf(s, stack, create) ==
  [i \in DOMAIN ParentsOf(s, Last(stack)) |-> create[Append(stack, ParentsOf(s, Last(stack))[i])]]
BelowOf(s, stack, create) ==
  [i \in DOMAIN ObjectsOf(s, Last(stack)) |-> create[Append(stack, ObjectsOf(s, Last(stack))[i].schema)]]
\* Which of the object properties are inlined, and which properties stay as they are.
AtOf(s, stack, below) ==
  LET objects == ObjectsOf(s, Last(stack))
      all == [i \in DOMAIN objects |-> i]
  IN Those(all, {i \in DOMAIN all : IsInlined(s, objects[all[i]], below[all[i]])})
RestOf(s, stack, at) ==
  LET objects == ObjectsOf(s, Last(stack))
  IN Those(objects, {k \in DOMAIN objects : ~\E i \in ToSet(at) : objects[i] = objects[k]})
Gathered(s, stack, above, below, at) ==
  LET objects == ObjectsOf(s, Last(stack))
      straight == OthersOf(s, Last(stack)) \o RestOf(s, stack, at)
  IN [conflict |-> \E v \in ToSet(above \o below) : v.conflict,
      owned |-> [i \in DOMAIN at |-> Owned(s[Last(stack)], Last(stack), objects[at[i]], TRUE)]
                \o [i \in DOMAIN straight |-> Owned(s[Last(stack)], Last(stack), straight[i], FALSE)],
      inherited |-> FlattenSeq([i \in DOMAIN above |-> Copies(above[i])]),
      inlined |-> FlattenSeq([i \in DOMAIN at |->
                    Inlined(s, Last(stack), objects[at[i]], below[at[i]])])]
LEMMA CreateParts ==
  ASSUME NEW s, NEW stack, NEW create
  PROVE  LET above == AboveOf(s, stack, create)
             below == BelowOf(s, stack, create)
         IN CreateFrom(s, stack, create)
            = IF Contains(Front(stack), Last(stack)) THEN InConflict
              ELSE ResolveCollisions(Gathered(s, stack, above, below, AtOf(s, stack, below)))
BY DEF CreateFrom, Gathered, AboveOf, BelowOf, AtOf, RestOf, ParentsOf, ObjectsOf, OthersOf, Filtered

\* What is created from what was created for others offers all members, if theirs does.
Offering(s, x, w) == IsVirtual(w) /\ (~w.conflict => Members(s, x) \subseteq Offers(w))
LEMMA GatheredOffers ==
  ASSUME NEW s, AreSchemas(s), NEW depth \in Depths(s), NEW stack, Last(stack) \in DOMAIN s, NEW create,
         \A x \in DOMAIN s : s[x].type = "object" => Offering(s, x, create[Append(stack, x)])
  PROVE  LET above == AboveOf(s, stack, create)
             below == BelowOf(s, stack, create)
         IN Offering(s, Last(stack), Gathered(s, stack, above, below, AtOf(s, stack, below)))
<1> DEFINE cur == Last(stack)
           parents == ParentsOf(s, cur)
           objects == ObjectsOf(s, cur)
           others == OthersOf(s, cur)
           above == AboveOf(s, stack, create)
           below == BelowOf(s, stack, create)
           at == AtOf(s, stack, below)
           rest == RestOf(s, stack, at)
           straight == others \o rest
           hidden == [i \in DOMAIN at |-> Owned(s[cur], cur, objects[at[i]], TRUE)]
           shown == [i \in DOMAIN straight |-> Owned(s[cur], cur, straight[i], FALSE)]
           copies == [i \in DOMAIN above |-> Copies(above[i])]
           inlined == [i \in DOMAIN at |-> Inlined(s, cur, objects[at[i]], below[at[i]])]
           w == Gathered(s, stack, above, below, at)
<1>1. /\ IsSeq(parents) /\ IsSeq(objects) /\ IsSeq(others) /\ cur \in DOMAIN s
      /\ ToSet(parents) = {p \in ToSet(s[cur].parents) : s[p].type = "object"}
      /\ ToSet(objects) = {p \in ToSet(s[cur].props) : Inlinable(s, s[cur], p)}
      /\ ToSet(others) = {p \in ToSet(s[cur].props) : ~Inlinable(s, s[cur], p)}
      /\ ToSet(s[cur].parents) \subseteq DOMAIN s
      /\ \A p \in ToSet(s[cur].props) : p.schema \in DOMAIN s
  BY SplitProps
<1>2. /\ w.conflict = (\E v \in ToSet(above \o below) : v.conflict)
      /\ w.owned = hidden \o shown /\ w.inherited = FlattenSeq(copies) /\ w.inlined = FlattenSeq(inlined)
      /\ {"conflict", "owned", "inherited", "inlined"} \subseteq DOMAIN w
  BY DEF Gathered
<1>3. /\ DOMAIN above = DOMAIN parents /\ IsSeq(above)
      /\ \A i \in DOMAIN parents : above[i] = create[Append(stack, parents[i])]
      /\ DOMAIN below = DOMAIN objects /\ IsSeq(below)
      /\ \A i \in DOMAIN objects : below[i] = create[Append(stack, objects[i].schema)]
  <2>1. /\ above = [i \in DOMAIN parents |-> create[Append(stack, parents[i])]]
        /\ below = [i \in DOMAIN objects |-> create[Append(stack, objects[i].schema)]]
    BY DEF AboveOf, BelowOf
  <2> HIDE DEF above, below, parents, objects
  <2>2. above = [i \in DOMAIN parents |-> above[i]] /\ below = [i \in DOMAIN objects |-> below[i]]
    BY <2>1
  <2> QED BY <1>1, <2>1, <2>2, MappedSeq
<1>4. IsSeq(at) /\ \A k \in ToSet(at) : k \in DOMAIN objects
  <2> DEFINE all == [i \in DOMAIN objects |-> i]
             chosen == {i \in DOMAIN all : IsInlined(s, objects[all[i]], below[all[i]])}
  <2>1. at = Those(all, chosen)
    BY DEF AtOf
  <2> HIDE DEF chosen, at, objects, below
  <2>2. all \in Seq(DOMAIN objects)
    <3>1. Len(objects) \in Nat /\ DOMAIN objects = 1..Len(objects)
      BY <1>1 DEF IsSeq
    <3> QED BY <3>1
  <2> HIDE DEF all
  <2>3. at \in Seq(DOMAIN objects)
    BY <2>1, <2>2, ThoseElements
  <2> QED BY <2>3, Contents DEF IsSeq
<1>5. IsSeq(rest) /\ ToSet(rest) = {p \in ToSet(objects) : ~\E i \in ToSet(at) : objects[i] = p}
  <2> DEFINE places == {k \in DOMAIN objects : ~\E i \in ToSet(at) : objects[i] = objects[k]}
  <2>1. rest = Those(objects, places)
    BY DEF RestOf
  <2>2. ToSet(rest) = {objects[k] : k \in DOMAIN objects \cap places} /\ rest \in Seq(ToSet(objects))
    <3> HIDE DEF objects, places, rest
    <3> QED BY <1>1, <2>1, ThoseElements DEF IsSeq
  <2> HIDE DEF objects, rest, at
  <2>3. IsSeq(rest)
    BY <2>2, Contents DEF IsSeq
  <2> QED BY <2>2, <2>3 DEF ToSet
<1>6. IsSeq(straight) /\ ToSet(straight) = ToSet(others) \cup ToSet(rest)
  <2> HIDE DEF others, rest
  <2> QED BY <1>1, <1>5, JoinedSeq
<1> HIDE DEF cur, parents, objects, others, above, below, at, rest, straight, w
<1>7. AreItems(hidden)
  <2>1. hidden = [i \in DOMAIN at |-> hidden[i]]
    OBVIOUS
  <2>2. \A i \in DOMAIN at : hidden[i] = Owned(s[cur], cur, objects[at[i]], TRUE)
    OBVIOUS
  <2> HIDE DEF hidden
  <2>3. IsSeq(hidden) /\ DOMAIN hidden = DOMAIN at
    BY <1>4, <2>1, MappedSeq
  <2>4. ASSUME NEW i \in DOMAIN at PROVE IsItem(hidden[i])
    <3> DEFINE p == objects[at[i]]
    <3>1. hidden[i] = Owned(s[cur], cur, p, TRUE)
      BY <2>2
    <3>2. IsItem(Owned(s[cur], cur, p, TRUE))
      BY OwnedItem
    <3> QED BY <3>1, <3>2
  <2> QED BY <2>3, <2>4 DEF AreItems, ToSet
<1>8. AreItems(shown) /\ {p.ser : p \in ToSet(straight)} \subseteq Shows(shown)
  <2>1. shown = [i \in DOMAIN straight |-> shown[i]]
    OBVIOUS
  <2>2. \A i \in DOMAIN straight : shown[i] = Owned(s[cur], cur, straight[i], FALSE)
    OBVIOUS
  <2> HIDE DEF shown
  <2>3. IsSeq(shown) /\ DOMAIN shown = DOMAIN straight
    BY <1>6, <2>1, MappedSeq
  <2>4. ASSUME NEW i \in DOMAIN straight
        PROVE  IsItem(shown[i]) /\ shown[i].private = FALSE /\ shown[i].path[1] = straight[i].ser
    <3> DEFINE x == Owned(s[cur], cur, straight[i], FALSE)
    <3>1. shown[i] = x
      BY <2>2
    <3>2. IsItem(x)
      BY OwnedItem
    <3>3. x.private = FALSE /\ x.path[1] = straight[i].ser
      BY DEF Owned
    <3> HIDE DEF x
    <3> QED BY <3>1, <3>2, <3>3
  <2>5. AreItems(shown)
    BY <2>3, <2>4 DEF AreItems, ToSet
  <2>6. \A i \in DOMAIN straight : straight[i].ser \in Shows(shown)
    BY <2>3, <2>4 DEF Shows, ToSet
  <2> QED BY <2>5, <2>6 DEF ToSet
<1>9. \A i \in DOMAIN parents : Offering(s, parents[i], above[i])
  <2>1. \A i \in DOMAIN parents : parents[i] \in DOMAIN s /\ s[parents[i]].type = "object"
    BY <1>1 DEF ToSet
  <2> QED BY <1>3, <2>1
<1>10. \A i \in DOMAIN objects : Offering(s, objects[i].schema, below[i]) /\ objects[i].schema \in DOMAIN s
  <2>1. \A i \in DOMAIN objects : objects[i].schema \in DOMAIN s /\ s[objects[i].schema].type = "object"
    BY <1>1 DEF ToSet, Inlinable
  <2> QED BY <1>3, <2>1
<1>11. /\ AreItems(w.inherited)
       /\ \A i \in DOMAIN parents : Offers(above[i]) \subseteq Shows(w.inherited)
  <2>1. copies = [i \in DOMAIN above |-> copies[i]]
    OBVIOUS
  <2>2. \A i \in DOMAIN above : copies[i] = Copies(above[i])
    OBVIOUS
  <2> HIDE DEF copies
  <2>3. IsSeq(copies) /\ DOMAIN copies = DOMAIN above
    BY <1>3, <2>1, MappedSeq
  <2>4. \A i \in DOMAIN above : AreItems(copies[i]) /\ Shows(copies[i]) = Offers(above[i])
    BY <1>3, <1>9, <2>2, CopiesItems DEF Offering
  <2>5. AreItems(FlattenSeq(copies)) /\ Shows(FlattenSeq(copies)) = UNION {Shows(copies[i]) : i \in DOMAIN copies}
    BY <2>3, <2>4, ItemsFlat
  <2> QED BY <1>2, <1>3, <2>3, <2>4, <2>5
<1>12. /\ AreItems(w.inlined)
       /\ \A k \in ToSet(at) : Offers(below[k]) # {} => objects[k].ser \in Shows(w.inlined)
  <2>1. inlined = [i \in DOMAIN at |-> inlined[i]]
    OBVIOUS
  <2>2. \A i \in DOMAIN at : inlined[i] = Inlined(s, cur, objects[at[i]], below[at[i]])
    OBVIOUS
  <2> HIDE DEF inlined
  <2>3. IsSeq(inlined) /\ DOMAIN inlined = DOMAIN at
    BY <1>4, <2>1, MappedSeq
  <2>4. ASSUME NEW i \in DOMAIN at
        PROVE  AreItems(inlined[i]) /\ (Offers(below[at[i]]) # {} => objects[at[i]].ser \in Shows(inlined[i]))
    <3>1. at[i] \in DOMAIN objects
      BY <1>4 DEF ToSet
    <3>2. IsVirtual(below[at[i]])
      BY <1>10, <3>1 DEF Offering
    <3> QED BY <2>2, <3>2, InlinedItems
  <2>5. AreItems(FlattenSeq(inlined)) /\ Shows(FlattenSeq(inlined)) = UNION {Shows(inlined[i]) : i \in DOMAIN inlined}
    BY <2>3, <2>4, ItemsFlat
  <2>6. ASSUME NEW k \in ToSet(at), Offers(below[k]) # {} PROVE objects[k].ser \in Shows(w.inlined)
    <3>1. PICK i \in DOMAIN at : at[i] = k
      BY DEF ToSet
    <3>2. objects[k].ser \in Shows(inlined[i])
      BY <2>4, <2>6, <3>1
    <3> QED BY <1>2, <2>3, <2>5, <3>2
  <2> QED BY <1>2, <2>5, <2>6
<1> HIDE DEF hidden, shown, copies, inlined
<1>13. AreItems(w.owned) /\ Shows(w.owned) = Shows(hidden) \cup Shows(shown)
  BY <1>2, <1>7, <1>8, ItemsJoined
<1>14. IsVirtual(w)
  BY <1>2, <1>11, <1>12, <1>13 DEF IsVirtual
<1>15. ASSUME ~w.conflict PROVE Members(s, cur) \subseteq Offers(w)
  <2>1. ToSet(above \o below) = ToSet(above) \cup ToSet(below)
    BY <1>3, JoinedSeq
  <2>2. /\ \A i \in DOMAIN parents : ~above[i].conflict
        /\ \A i \in DOMAIN objects : ~below[i].conflict
    <3>1. \A v \in ToSet(above) \cup ToSet(below) : ~v.conflict
      BY <1>2, <1>15, <2>1
    <3>2. /\ \A i \in DOMAIN parents : above[i] \in ToSet(above)
          /\ \A i \in DOMAIN objects : below[i] \in ToSet(below)
      BY <1>3 DEF ToSet
    <3> QED BY <3>1, <3>2
  <2>3. ASSUME NEW p \in ToSet(s[cur].parents) PROVE Members(s, p) \subseteq Offers(w)
    <3>1. CASE s[p].type # "object"
      BY <1>1, <3>1, SomeMember
    <3>2. CASE s[p].type = "object"
      <4>1. PICK i \in DOMAIN parents : parents[i] = p
        BY <1>1, <3>2 DEF ToSet
      <4>2. Members(s, p) \subseteq Offers(above[i])
        BY <1>9, <2>2, <4>1 DEF Offering
      <4> QED BY <1>11, <4>1, <4>2 DEF Offers
    <3> QED BY <3>1, <3>2
  <2>4. ASSUME NEW p \in ToSet(s[cur].props) PROVE p.ser \in Offers(w)
    <3>1. CASE p \in ToSet(straight)
      BY <1>8, <1>13, <3>1 DEF Offers
    <3>2. CASE p \notin ToSet(straight)
      <4>1. p \in ToSet(objects) /\ Inlinable(s, s[cur], p) /\ p \notin ToSet(rest)
        BY <1>1, <1>6, <3>2
      <4>2. PICK k \in ToSet(at) : objects[k] = p
        BY <1>5, <4>1
      <4>3. k \in DOMAIN objects
        BY <1>4
      <4>4. Members(s, p.schema) # {}
        BY <1>1, <4>1, SomeMember DEF Inlinable
      <4>5. Members(s, p.schema) \subseteq Offers(below[k])
        BY <1>10, <2>2, <4>2, <4>3 DEF Offering
      <4>6. p.ser \in Shows(w.inlined)
        BY <1>12, <4>2, <4>4, <4>5
      <4> QED BY <4>6 DEF Offers
    <3> QED BY <3>1, <3>2
  <2>5. Members(s, cur) = Sers(s[cur]) \cup UNION {Members(s, p) : p \in ToSet(s[cur].parents)}
    BY <1>1, MembersParts
  <2> QED BY <2>3, <2>4, <2>5 DEF Sers
<1> QED BY <1>14, <1>15 DEF Offering, w, above, below, at, cur

\* So does what is created from it, unless a schema is met again.
LEMMA CreateOffers ==
  ASSUME NEW s, AreSchemas(s), NEW depth \in Depths(s), NEW stack, Last(stack) \in DOMAIN s, NEW create,
         ~Contains(Front(stack), Last(stack)) =>
           \A x \in DOMAIN s : s[x].type = "object" => Offering(s, x, create[Append(stack, x)])
  PROVE  Offering(s, Last(stack), CreateFrom(s, stack, create))
<1> DEFINE above == AboveOf(s, stack, create)
           below == BelowOf(s, stack, create)
           v == Gathered(s, stack, above, below, AtOf(s, stack, below))
<1>1. CASE ~Contains(Front(stack), Last(stack))
  <2>1. Offering(s, Last(stack), v)
    BY <1>1, GatheredOffers
  <2> HIDE DEF v
  <2>2. /\ IsVirtual(ResolveCollisions(v)) /\ ResolveCollisions(v).conflict = v.conflict
        /\ Offers(ResolveCollisions(v)) = Offers(v)
    BY <2>1, CollisionsResolved DEF Offering
  <2>3. CreateFrom(s, stack, create) = ResolveCollisions(v)
    BY <1>1, CreateParts DEF v
  <2> QED BY <2>1, <2>2, <2>3 DEF Offering
<1>2. CASE Contains(Front(stack), Last(stack))
  <2>1. CreateFrom(s, stack, create) = InConflict
    BY <1>2, CreateParts
  <2>2. InConflict.conflict = TRUE /\ IsVirtual(InConflict)
    <3>1. ToSet(<<>>) = {} /\ IsSeq(<<>>)
      BY DEF ToSet, IsSeq
    <3> QED BY <3>1 DEF InConflict, IsVirtual, AreItems
  <2> QED BY <2>1, <2>2 DEF Offering
<1> QED BY <1>1, <1>2

\* Only what is created for longer stacks is used, and only if no schema is met again.
LEMMA CreateSame ==
  ASSUME NEW s, AreSchemas(s), NEW stack, Last(stack) \in DOMAIN s, NEW f, NEW g,
         ~Contains(Front(stack), Last(stack)) /\ s[Last(stack)].type = "object" =>
           \A x \in DOMAIN s : f[Append(stack, x)] = g[Append(stack, x)]
  PROVE  CreateFrom(s, stack, f) = CreateFrom(s, stack, g)
<1> DEFINE cur == Last(stack)
           parents == ParentsOf(s, cur)
           objects == ObjectsOf(s, cur)
<1>1. /\ \A i \in DOMAIN parents : parents[i] \in ToSet(s[cur].parents) /\ parents[i] \in DOMAIN s
      /\ \A i \in DOMAIN objects : objects[i] \in ToSet(s[cur].props) /\ objects[i].schema \in DOMAIN s
  <2>1. /\ ToSet(parents) \subseteq ToSet(s[cur].parents) /\ ToSet(s[cur].parents) \subseteq DOMAIN s
        /\ ToSet(objects) \subseteq ToSet(s[cur].props)
        /\ \A p \in ToSet(s[cur].props) : p.schema \in DOMAIN s
    BY SplitProps
  <2> HIDE DEF parents, objects
  <2> QED BY <2>1 DEF ToSet
<1>2. CASE Contains(Front(stack), Last(stack))
  BY <1>2, CreateParts
<1>3. CASE ~Contains(Front(stack), Last(stack))
  <2>1. /\ \A i \in DOMAIN parents : f[Append(stack, parents[i])] = g[Append(stack, parents[i])]
        /\ \A i \in DOMAIN objects : f[Append(stack, objects[i].schema)] = g[Append(stack, objects[i].schema)]
    <3>1. CASE s[cur].type = "object"
      <4> HIDE DEF parents, objects
      <4> QED BY <1>1, <1>3, <3>1
    <3>2. CASE s[cur].type # "object"
      <4>1. s[cur].parents = <<>> /\ s[cur].props = <<>>
        BY <3>2 DEF AreSchemas, IsSchema
      <4>2. ToSet(<<>>) = {}
        BY DEF ToSet
      <4> HIDE DEF parents, objects
      <4> QED BY <1>1, <4>1, <4>2
    <3> QED BY <3>1, <3>2
  <2>2. AboveOf(s, stack, f) = AboveOf(s, stack, g) /\ BelowOf(s, stack, f) = BelowOf(s, stack, g)
    <3> HIDE DEF parents, objects
    <3> QED BY <2>1 DEF AboveOf, BelowOf, parents, objects
  <2> QED BY <1>3, <2>2, CreateParts
<1> QED BY <1>2, <1>3

\* How many objects can still be met.
Stacks(s) == Seq(DOMAIN s) \ {<<>>}
ObjectIds(s) == {id \in DOMAIN s : s[id].type = "object"}
LeftOf(s, stack) == Cardinality(ObjectIds(s) \ ToSet(Front(stack)))
LEMMA StackGrows ==
  ASSUME NEW s, IsFiniteSet(ObjectIds(s)), NEW stack \in Stacks(s)
  PROVE  /\ LeftOf(s, stack) \in Nat /\ LeftOf(s, stack) <= Cardinality(ObjectIds(s))
         /\ Last(stack) \in DOMAIN s /\ Cardinality(ObjectIds(s)) \in Nat
         /\ \A x \in DOMAIN s :
              /\ Append(stack, x) \in Stacks(s) /\ Last(Append(stack, x)) = x
              /\ ~Contains(Front(stack), Last(stack)) /\ Last(stack) \in ObjectIds(s) =>
                   LeftOf(s, Append(stack, x)) < LeftOf(s, stack)
<1> DEFINE T == DOMAIN s
           O == ObjectIds(s)
           n == Len(stack)
           front == Front(stack)
<1>1. stack \in Seq(T) /\ n \in Nat /\ n > 0 /\ DOMAIN stack = 1..n /\ \A i \in 1..n : stack[i] \in T
  <2>1. stack \in Seq(T) /\ stack # <<>>
    BY DEF Stacks
  <2> HIDE DEF T
  <2> QED BY <2>1
<1>2. Last(stack) = stack[n] /\ Last(stack) \in T
  BY <1>1 DEF Last
<1>3. Len(front) = n - 1 /\ DOMAIN front = 1..n-1 /\ \A i \in 1..n-1 : front[i] = stack[i]
  <2> HIDE DEF T
  <2> QED BY <1>1 DEF Front
<1>4. ToSet(stack) = ToSet(front) \cup {Last(stack)}
  <2> HIDE DEF front, n, T
  <2>1. \A i \in 1..n : i \in 1..n-1 \/ i = n
    BY <1>1
  <2> QED BY <1>1, <1>2, <1>3, <2>1 DEF ToSet
<1>5. Contains(front, Last(stack)) <=> Last(stack) \in ToSet(front)
  <2> HIDE DEF front, n
  <2> QED BY <1>1, <1>3 DEF Contains, ToSet
<1>6. /\ LeftOf(s, stack) \in Nat /\ LeftOf(s, stack) <= Cardinality(O) /\ Cardinality(O) \in Nat
      /\ IsFiniteSet(O \ ToSet(front))
  <2> DEFINE U == O \ ToSet(front)
  <2>1. U \subseteq O
    OBVIOUS
  <2> HIDE DEF O, U
  <2>2. IsFiniteSet(U) /\ Cardinality(U) <= Cardinality(O) /\ Cardinality(U) \in Nat /\ Cardinality(O) \in Nat
    BY <2>1, FS_Subset, FS_CardinalityType DEF O
  <2> QED BY <2>2 DEF LeftOf, U, O
<1>7. ASSUME NEW x \in T
      PROVE  /\ Append(stack, x) \in Stacks(s) /\ Last(Append(stack, x)) = x
             /\ ~Contains(Front(stack), Last(stack)) /\ Last(stack) \in O =>
                   LeftOf(s, Append(stack, x)) < LeftOf(s, stack)
  <2> DEFINE new == Append(stack, x)
  <2>1. new \in Seq(T) /\ Len(new) = n + 1 /\ new[n+1] = x /\ \A i \in 1..n : new[i] = stack[i]
    <3> HIDE DEF T
    <3> QED BY <1>1, <1>7
  <2> HIDE DEF new
  <2>2. new \in Stacks(s) /\ Last(new) = x
    <3>1. Len(new) # 0
      BY <1>1, <2>1
    <3> QED BY <2>1, <3>1 DEF Stacks, Last
  <2>3. ToSet(Front(new)) = ToSet(stack)
    <3>1. DOMAIN Front(new) = 1..n /\ \A i \in 1..n : Front(new)[i] = stack[i]
      <4> HIDE DEF T
      <4> QED BY <1>1, <2>1 DEF Front
    <3> HIDE DEF n
    <3> QED BY <1>1, <3>1 DEF ToSet
  <2>4. ASSUME ~Contains(front, Last(stack)), Last(stack) \in O
        PROVE  LeftOf(s, new) < LeftOf(s, stack)
    <3> DEFINE U == O \ ToSet(front)
               V == O \ ToSet(stack)
    <3>1. V \subseteq U /\ Last(stack) \in U /\ Last(stack) \notin V
      BY <1>4, <1>5, <2>4
    <3>2. IsFiniteSet(U)
      BY <1>6
    <3> HIDE DEF U, V
    <3>3. IsFiniteSet(V) /\ Cardinality(V) <= Cardinality(U) /\ Cardinality(V) \in Nat /\ Cardinality(U) \in Nat
          /\ Cardinality(V) # Cardinality(U)
      BY <3>1, <3>2, FS_Subset, FS_CardinalityType
    <3> QED BY <2>3, <3>3 DEF LeftOf, U, V
  <2> QED BY <2>2, <2>4 DEF new
<1> QED BY <1>2, <1>6, <1>7

\* What is created for a schema exists,
CreatesFor(s, create) == create = [stack \in Stacks(s) |-> CreateFrom(s, stack, create)]
LEMMA CreateExists ==
  ASSUME NEW s, AreSchemas(s), IsFiniteSet(ObjectIds(s))
  PROVE  \E create : CreatesFor(s, create)
<1> DEFINE A == Stacks(s)
           Of(g, stack) == CreateFrom(s, stack, g)
           Below(n) == {stack \in A : LeftOf(s, stack) < n}
           Piece(g, n) == g = [stack \in Below(n) |-> Of(g, stack)]
           S == {n \in Nat : \E g : Piece(g, n)}
<1>1. 0 \in S
  <2>1. Below(0) = {}
    <3>1. \A stack \in A : LeftOf(s, stack) \in Nat
      BY StackGrows
    <3> HIDE DEF A
    <3> QED BY <3>1
  <2> DEFINE g == [stack \in Below(0) |-> 0]
  <2> HIDE DEF Of, Below
  <2>2. Piece(g, 0)
    BY <2>1
  <2> QED BY <2>2
<1>2. ASSUME NEW n \in Nat, n \in S PROVE n + 1 \in S
  <2>1. PICK g : Piece(g, n)
    BY <1>2
  <2> DEFINE h == [stack \in Below(n + 1) |-> Of(g, stack)]
  <2>2. ASSUME NEW stack \in Below(n + 1) PROVE Of(g, stack) = Of(h, stack)
    <3>1. stack \in A /\ LeftOf(s, stack) < n + 1 /\ LeftOf(s, stack) \in Nat
      BY <2>2, StackGrows
    <3>2. ASSUME ~Contains(Front(stack), Last(stack)), s[Last(stack)].type = "object", NEW x \in DOMAIN s
          PROVE  g[Append(stack, x)] = h[Append(stack, x)]
      <4> DEFINE new == Append(stack, x)
      <4>1. Last(stack) \in ObjectIds(s)
        BY <3>1, <3>2, StackGrows DEF ObjectIds
      <4>2. new \in A /\ LeftOf(s, new) < LeftOf(s, stack)
        BY <3>1, <3>2, <4>1, StackGrows
      <4> HIDE DEF new
      <4>3. LeftOf(s, new) \in Nat
        BY <4>2, StackGrows
      <4>4. new \in Below(n) /\ new \in Below(n + 1)
        <5> HIDE DEF A
        <5> QED BY <3>1, <4>2, <4>3
      <4> HIDE DEF Below, Of
      <4>5. g[new] = Of(g, new) /\ h[new] = Of(g, new)
        BY <2>1, <4>4
      <4> QED BY <4>5 DEF new
    <3>3. Last(stack) \in DOMAIN s
      BY <3>1, StackGrows
    <3> HIDE DEF h
    <3> QED BY <3>2, <3>3, CreateSame
  <2>3. Piece(h, n + 1)
    <3> HIDE DEF Of, Below
    <3> QED BY <2>2
  <2> HIDE DEF Piece, h
  <2> QED BY <2>3
<1>3. \A n \in Nat : n \in S
  <2> HIDE DEF S
  <2> QED BY <1>1, <1>2, NatSetInduction
<1> DEFINE all == Cardinality(ObjectIds(s)) + 1
<1>4. all \in Nat
  BY FS_CardinalityType
<1>5. PICK g : Piece(g, all)
  BY <1>3, <1>4
<1>6. Below(all) = A
  <2>1. \A stack \in A : LeftOf(s, stack) < all
    <3>1. \A stack \in A : LeftOf(s, stack) \in Nat /\ LeftOf(s, stack) <= Cardinality(ObjectIds(s))
      BY StackGrows
    <3>2. Cardinality(ObjectIds(s)) \in Nat
      BY FS_CardinalityType
    <3> HIDE DEF A
    <3> QED BY <3>1, <3>2
  <2> QED BY <2>1
<1> QED BY <1>5, <1>6 DEF CreatesFor

\* and offers all members of the schema.
LEMMA CreatedOffers ==
  ASSUME NEW s, AreSchemas(s), NEW depth \in Depths(s), IsFiniteSet(ObjectIds(s)),
         NEW create, CreatesFor(s, create), NEW stack \in Stacks(s)
  PROVE  Offering(s, Last(stack), create[stack])
<1> DEFINE S == {n \in Nat : \A a \in Stacks(s) : LeftOf(s, a) < n => Offering(s, Last(a), create[a])}
<1>1. 0 \in S
  <2>1. \A a \in Stacks(s) : ~(LeftOf(s, a) < 0)
    BY StackGrows
  <2> QED BY <2>1
<1>2. ASSUME NEW n \in Nat, n \in S PROVE n + 1 \in S
  <2>1. SUFFICES ASSUME NEW a \in Stacks(s), LeftOf(s, a) < n + 1 PROVE Offering(s, Last(a), create[a])
    OBVIOUS
  <2>2. Last(a) \in DOMAIN s /\ LeftOf(s, a) \in Nat
    BY StackGrows
  <2>3. create[a] = CreateFrom(s, a, create)
    BY DEF CreatesFor
  <2>4. ASSUME ~Contains(Front(a), Last(a)), s[Last(a)].type = "object", NEW x \in DOMAIN s
        PROVE  Offering(s, x, create[Append(a, x)])
    <3> DEFINE new == Append(a, x)
    <3>1. Last(a) \in ObjectIds(s)
      BY <2>2, <2>4 DEF ObjectIds
    <3>2. new \in Stacks(s) /\ LeftOf(s, new) < LeftOf(s, a) /\ Last(new) = x
      BY <2>4, <3>1, StackGrows
    <3> HIDE DEF new
    <3>3. LeftOf(s, new) \in Nat
      BY <3>2, StackGrows
    <3>4. LeftOf(s, new) < n
      BY <2>1, <2>2, <3>2, <3>3
    <3>5. Offering(s, Last(new), create[new])
      BY <1>2, <3>2, <3>4
    <3> QED BY <3>2, <3>5 DEF new
  <2>5. CASE s[Last(a)].type = "object"
    BY <2>2, <2>3, <2>4, <2>5, CreateOffers
  <2>6. CASE s[Last(a)].type # "object"
    <3> DEFINE any == [b \in Stacks(s) |-> InConflict]
    <3>1. IsVirtual(InConflict) /\ InConflict.conflict = TRUE
      <4>1. ToSet(<<>>) = {} /\ IsSeq(<<>>)
        BY DEF ToSet, IsSeq
      <4> QED BY <4>1 DEF InConflict, IsVirtual, AreItems
    <3>2. \A x \in DOMAIN s : Append(a, x) \in Stacks(s)
      BY StackGrows
    <3>3. \A x \in DOMAIN s : Offering(s, x, any[Append(a, x)])
      BY <3>1, <3>2 DEF Offering
    <3> HIDE DEF any
    <3>4. Offering(s, Last(a), CreateFrom(s, a, any))
      BY <2>2, <3>3, CreateOffers
    <3>5. CreateFrom(s, a, any) = CreateFrom(s, a, create)
      BY <2>2, <2>6, CreateSame
    <3> QED BY <2>3, <3>4, <3>5
  <2> QED BY <2>5, <2>6
<1>3. \A n \in Nat : n \in S
  <2> HIDE DEF S
  <2> QED BY <1>1, <1>2, NatSetInduction
<1>4. LeftOf(s, stack) \in Nat
  BY StackGrows
<1> DEFINE n == LeftOf(s, stack) + 1
<1>5. n \in Nat /\ LeftOf(s, stack) < n
  BY <1>4
<1> HIDE DEF n
<1> QED BY <1>3, <1>5

\* The virtual properties of all classes.
LEMMA VirtualsOffer ==
  ASSUME NEW s, AreSchemas(s), NEW depth \in Depths(s), IsFiniteSet(ObjectIds(s))
  PROVE  LET vs == CreateVirtuals(s)
         IN DOMAIN vs = ObjectIds(s) /\ \A id \in ObjectIds(s) : Offering(s, id, vs[id])
<1> DEFINE create == CHOOSE create : CreatesFor(s, create)
<1>1. CreatesFor(s, create)
  BY CreateExists
<1>2. \A id \in DOMAIN s : CreateVirtualProperties(s, id) = create[<<id>>]
  BY DEF CreateVirtualProperties, CreatesFor, Stacks
<1> HIDE DEF create
<1>3. ASSUME NEW id \in DOMAIN s PROVE Offering(s, id, create[<<id>>])
  <2>1. <<id>> \in Stacks(s) /\ Last(<<id>>) = id
    BY DEF Stacks, Last
  <2> QED BY <1>1, <2>1, CreatedOffers
<1>4. DOMAIN CreateVirtuals(s) = ObjectIds(s)
  BY DEF CreateVirtuals, ObjectIds
<1>5. \A id \in ObjectIds(s) : CreateVirtuals(s)[id] = CreateVirtualProperties(s, id) /\ id \in DOMAIN s
  BY DEF CreateVirtuals, ObjectIds
<1> QED BY <1>2, <1>3, <1>4, <1>5

\* What plugins that give names do to the virtual properties, one for one.
SameItem(x, y) == IsItem(y) /\ y.private = x.private /\ y.path = x.path
SameOffer(v, w) ==
  /\ IsVirtual(w) /\ Offers(w) = Offers(v)
  /\ DOMAIN w.owned = DOMAIN v.owned /\ DOMAIN w.inherited = DOMAIN v.inherited
  /\ DOMAIN w.inlined = DOMAIN v.inlined
SameOffers(v, w) == DOMAIN w = DOMAIN v /\ \A id \in DOMAIN v : SameOffer(v[id], w[id])
AreVirtual(v) == \A id \in DOMAIN v : IsVirtual(v[id])

LEMMA SameItems ==
  ASSUME NEW s, AreItems(s), NEW t, t = [i \in DOMAIN s |-> t[i]],
         \A i \in DOMAIN s : SameItem(s[i], t[i])
  PROVE  AreItems(t) /\ DOMAIN t = DOMAIN s /\ Shows(t) = Shows(s)
<1>1. IsSeq(t) /\ DOMAIN t = DOMAIN s
  BY MappedSeq DEF AreItems
<1>2. AreItems(t)
  BY <1>1 DEF AreItems, SameItem, ToSet
<1>3. Shows(t) = Shows(s)
  BY <1>1 DEF Shows, SameItem, ToSet
<1> QED BY <1>1, <1>2, <1>3

\* The same holds where the change is one of the virtual properties of a class,
LEMMA SameKinds ==
  ASSUME NEW v, IsVirtual(v), NEW w, {"conflict", "owned", "inherited", "inlined"} \subseteq DOMAIN w,
         \A kind \in {"owned", "inherited", "inlined"} :
           /\ w[kind] = [i \in DOMAIN v[kind] |-> w[kind][i]]
           /\ \A i \in DOMAIN v[kind] : SameItem(v[kind][i], w[kind][i])
  PROVE  SameOffer(v, w)
<1>1. AreItems(w.owned) /\ DOMAIN w.owned = DOMAIN v.owned /\ Shows(w.owned) = Shows(v.owned)
  <2>1. AreItems(v["owned"])
    BY DEF IsVirtual
  <2> QED BY <2>1, SameItems
<1>2. /\ AreItems(w.inherited) /\ DOMAIN w.inherited = DOMAIN v.inherited
      /\ Shows(w.inherited) = Shows(v.inherited)
  <2>1. AreItems(v["inherited"])
    BY DEF IsVirtual
  <2> QED BY <2>1, SameItems
<1>3. AreItems(w.inlined) /\ DOMAIN w.inlined = DOMAIN v.inlined /\ Shows(w.inlined) = Shows(v.inlined)
  <2>1. AreItems(v["inlined"])
    BY DEF IsVirtual
  <2> QED BY <2>1, SameItems
<1> QED BY <1>1, <1>2, <1>3 DEF SameOffer, IsVirtual, Offers

LEMMA SameTwice ==
  ASSUME NEW u, NEW v, SameOffers(u, v), NEW w, SameOffers(v, w)
  PROVE  SameOffers(u, w)
BY DEF SameOffers, SameOffer

LEMMA SameSelf ==
  ASSUME NEW v, AreVirtual(v)
  PROVE  SameOffers(v, v)
BY DEF SameOffers, SameOffer, AreVirtual

LEMMA SameVirtuals ==
  ASSUME NEW v, NEW w, SameOffers(v, w)
  PROVE  AreVirtual(w)
BY DEF SameOffers, SameOffer, AreVirtual

\* A virtual property that is sanitized, with those that share its name.
LEMMA SanitizedOffers ==
  ASSUME NEW vs, AreVirtual(vs), NEW class, NEW id \in DOMAIN vs,
         NEW kind \in {"owned", "inherited", "inlined"}, NEW i \in DOMAIN vs[id][kind]
  PROVE  SameOffers(vs, SanitizeProperty(vs, class, id, kind, i))
<1> DEFINE each == vs[id][kind][i]
           others == {v.name : v \in ToSet(AllVirtual(vs[id]))} \ {each.name}
           singular == SingularName(each.name)
           name == RemoveProhibitedPrefix(singular, class, others)
           extra == {singular} \ {name}
           renamed == [vs EXCEPT ![id][kind][i].name = name, ![id][kind][i].alias = @ \cup extra]
           Shared(v) == IF v.id = each.id /\ v.name # name
                        THEN [v EXCEPT !.name = name, !.alias = @ \cup {v.name}] ELSE v
           SharedAll(seq) == [j \in DOMAIN seq |-> Shared(seq[j])]
           again == [s \in DOMAIN renamed |->
                       [renamed[s] EXCEPT !.owned = SharedAll(@), !.inherited = SharedAll(@),
                                          !.inlined = SharedAll(@)]]
           Kinds == {"owned", "inherited", "inlined"}
<1>1. SanitizeProperty(vs, class, id, kind, i) = IF name = singular THEN renamed ELSE again
  BY DEF SanitizeProperty
<1> HIDE DEF name, singular, extra
<1>2. \A s \in DOMAIN vs : \A k \in Kinds : k \in DOMAIN vs[s] /\ AreItems(vs[s][k])
  BY DEF AreVirtual, IsVirtual
<1>3. \A x : IsItem(x) => SameItem(x, x)
  BY DEF SameItem
<1>4. SameOffers(vs, renamed)
  <2> DEFINE z == [[each EXCEPT !.name = name] EXCEPT !.alias = @ \cup extra]
  <2>1. IsItem(each)
    BY <1>2 DEF AreItems, ToSet
  <2>2. SameItem(each, z)
    <3> HIDE DEF each
    <3>1. /\ DOMAIN z = DOMAIN each /\ z.comps = each.comps /\ z.opts = each.opts
          /\ z.path = each.path /\ z.private = each.private
      BY <2>1 DEF IsItem, ItemFields
    <3> HIDE DEF z
    <3> QED BY <2>1, <3>1 DEF SameItem, IsItem
  <2> DEFINE seq == [vs[id][kind] EXCEPT ![i] = z]
             w == [vs[id] EXCEPT ![kind] = seq]
  <2>3. renamed = [vs EXCEPT ![id] = w]
    <3> DEFINE y == [each EXCEPT !.name = name]
               seq1 == [vs[id][kind] EXCEPT ![i] = y]
               w1 == [vs[id] EXCEPT ![kind] = seq1]
               first == [vs EXCEPT ![id] = w1]
    <3>1. renamed = [first EXCEPT ![id][kind][i].alias = @ \cup extra]
      OBVIOUS
    <3>2. first[id] = w1 /\ w1[kind] = seq1 /\ seq1[i] = y
      BY <1>2
    <3>3. renamed = [first EXCEPT ![id] = [w1 EXCEPT ![kind] = [seq1 EXCEPT ![i] = z]]]
      BY <3>1, <3>2
    <3>4. [seq1 EXCEPT ![i] = z] = seq
      <4> HIDE DEF z, y
      <4> QED OBVIOUS
    <3>5. [w1 EXCEPT ![kind] = seq] = w
      <4> HIDE DEF seq, seq1
      <4> QED OBVIOUS
    <3>6. [first EXCEPT ![id] = w] = [vs EXCEPT ![id] = w]
      <4> HIDE DEF w, w1
      <4> QED OBVIOUS
    <3> HIDE DEF first, renamed, w, w1, seq, seq1, z
    <3> QED BY <3>3, <3>4, <3>5, <3>6
  <2>4. SameOffer(vs[id], w)
    <3>1. \A k \in Kinds : w[k] = IF k = kind THEN seq ELSE vs[id][k]
      BY <1>2
    <3>2. DOMAIN w = DOMAIN vs[id]
      OBVIOUS
    <3>3. /\ seq = [j \in DOMAIN vs[id][kind] |-> seq[j]]
          /\ \A j \in DOMAIN vs[id][kind] : seq[j] = IF j = i THEN z ELSE vs[id][kind][j]
      OBVIOUS
    <3> HIDE DEF z, seq, w
    <3>4. \A k \in Kinds : \A j \in DOMAIN vs[id][k] : IsItem(vs[id][k][j])
      BY <1>2 DEF AreItems, ToSet
    <3>5. \A k \in Kinds : vs[id][k] = [j \in DOMAIN vs[id][k] |-> vs[id][k][j]]
      <4>1. \A k \in Kinds : vs[id][k] \in Seq(ToSet(vs[id][k]))
        BY <1>2 DEF AreItems, IsSeq
      <4> QED BY <4>1
    <3>6. \A k \in Kinds : w[k] = [j \in DOMAIN vs[id][k] |-> w[k][j]]
      BY <3>1, <3>3, <3>5
    <3>7. \A k \in Kinds : \A j \in DOMAIN vs[id][k] : SameItem(vs[id][k][j], w[k][j])
      BY <1>3, <2>2, <3>1, <3>3, <3>4
    <3>8. IsVirtual(vs[id]) /\ {"conflict", "owned", "inherited", "inlined"} \subseteq DOMAIN w
      BY <3>2 DEF AreVirtual, IsVirtual
    <3> QED BY <3>6, <3>7, <3>8, SameKinds
  <2> HIDE DEF w, renamed
  <2>5. DOMAIN renamed = DOMAIN vs /\ \A s \in DOMAIN vs : renamed[s] = IF s = id THEN w ELSE vs[s]
    BY <2>3
  <2>6. \A s \in DOMAIN vs : SameOffer(vs[s], vs[s])
    BY SameSelf DEF SameOffers
  <2> QED BY <2>4, <2>5, <2>6 DEF SameOffers
<1>5. SameOffers(renamed, again)
  <2>1. AreVirtual(renamed)
    BY <1>4, SameVirtuals
  <2> HIDE DEF renamed, each
  <2>2. ASSUME NEW x, IsItem(x) PROVE SameItem(x, Shared(x))
    <3>1. /\ DOMAIN Shared(x) = DOMAIN x /\ Shared(x).comps = x.comps /\ Shared(x).opts = x.opts
          /\ Shared(x).path = x.path /\ Shared(x).private = x.private
      BY <2>2 DEF IsItem, ItemFields
    <3> HIDE DEF Shared
    <3> QED BY <2>2, <3>1 DEF SameItem, IsItem
  <2> HIDE DEF Shared
  <2>3. ASSUME NEW s \in DOMAIN renamed PROVE SameOffer(renamed[s], again[s])
    <3> DEFINE v == renamed[s]
               w == [v EXCEPT !.owned = SharedAll(@), !.inherited = SharedAll(@), !.inlined = SharedAll(@)]
    <3>1. again[s] = w
      OBVIOUS
    <3>2. IsVirtual(v)
      BY <2>1 DEF AreVirtual
    <3> HIDE DEF SharedAll, v
    <3>3. /\ DOMAIN w = DOMAIN v
          /\ \A k \in Kinds : w[k] = SharedAll(v[k])
      BY <3>2 DEF IsVirtual
    <3> HIDE DEF w
    <3>4. \A seq : /\ SharedAll(seq) = [j \in DOMAIN seq |-> SharedAll(seq)[j]]
                   /\ \A j \in DOMAIN seq : SharedAll(seq)[j] = Shared(seq[j])
      BY DEF SharedAll
    <3>5. \A k \in Kinds : \A j \in DOMAIN v[k] : IsItem(v[k][j])
      BY <3>2 DEF IsVirtual, AreItems, ToSet
    <3>6. \A k \in Kinds : \A j \in DOMAIN v[k] : SameItem(v[k][j], w[k][j])
      BY <2>2, <3>3, <3>4, <3>5
    <3>7. \A k \in Kinds : w[k] = [j \in DOMAIN v[k] |-> w[k][j]]
      BY <3>3, <3>4
    <3>8. {"conflict", "owned", "inherited", "inlined"} \subseteq DOMAIN w
      BY <3>2, <3>3 DEF IsVirtual
    <3>9. SameOffer(v, w)
      BY <3>2, <3>6, <3>7, <3>8, SameKinds
    <3> QED BY <3>1, <3>9 DEF v
  <2>4. DOMAIN again = DOMAIN renamed
    OBVIOUS
  <2> HIDE DEF again
  <2> QED BY <2>3, <2>4 DEF SameOffers
<1> HIDE DEF renamed, again
<1> QED BY <1>1, <1>4, <1>5, SameTwice

\* The loops over the virtual properties of a class, and over the classes.
SanitizeKind(schemas, id, kind, v, seq) ==
  FoldLeft(LAMBDA w, i : SanitizeProperty(w, schemas[id].cs, id, kind, i), v, seq)
\* The rounds of the first one,
LEMMA KindRounds ==
  ASSUME NEW schemas, NEW id, NEW kind, NEW v, NEW seq, IsSeq(seq)
  PROVE  \E h : /\ h[0] = v /\ SanitizeKind(schemas, id, kind, v, seq) = h[Len(seq)]
                /\ \A i \in 1..Len(seq) : h[i] = SanitizeProperty(h[i-1], schemas[id].cs, id, kind, seq[i])
<1> DEFINE Op(a, x) == SanitizeProperty(a, schemas[id].cs, id, kind, x)
           Of(f, s) == IF s = {} THEN v ELSE Op(f[s \ {Max(s)}], seq[Max(s)])
           S == {n \in Nat : \E f : f = [s \in SUBSET (1..n) |-> Of(f, s)]}
           iter == CHOOSE f : f = [s \in SUBSET DOMAIN seq |->
                     IF s = {} THEN v ELSE SanitizeProperty(f[s \ {Max(s)}], schemas[id].cs, id, kind, seq[Max(s)])]
<1>1. 0 \in S
  <2> DEFINE f == [s \in SUBSET (1..0) |-> v]
  <2>1. \A s \in SUBSET (1..0) : s = {}
    OBVIOUS
  <2> HIDE DEF Op
  <2>2. f = [s \in SUBSET (1..0) |-> Of(f, s)]
    BY <2>1
  <2> QED BY <2>2
<1>2. ASSUME NEW n \in Nat, n \in S PROVE n + 1 \in S
  <2>1. PICK f : f = [s \in SUBSET (1..n) |-> Of(f, s)]
    BY <1>2
  <2> DEFINE g == [s \in SUBSET (1..n+1) |-> IF n + 1 \in s THEN Op(f[s \ {n+1}], seq[n+1]) ELSE f[s]]
  <2>2. ASSUME NEW s \in SUBSET (1..n+1) PROVE g[s] = Of(g, s)
    <3> HIDE DEF Op
    <3>1. CASE n + 1 \in s
      <4>1. Max(s) = n + 1 /\ s # {} /\ s \ {n + 1} \in SUBSET (1..n) /\ s \ {n + 1} \in SUBSET (1..n+1)
        BY <3>1, TopOfInterval
      <4>2. g[s \ {n+1}] = f[s \ {n+1}]
        BY <4>1
      <4> QED BY <3>1, <4>1, <4>2
    <3>2. CASE n + 1 \notin s
      <4>1. s \in SUBSET (1..n) /\ (s # {} => s \ {Max(s)} \in SUBSET (1..n) /\ s \ {Max(s)} \in SUBSET (1..n+1))
        BY <3>2, TopOfInterval
      <4>2. s # {} => g[s \ {Max(s)}] = f[s \ {Max(s)}]
        <5>1. s # {} => n + 1 \notin s \ {Max(s)}
          BY <3>2
        <5> QED BY <4>1, <5>1
      <4>3. g[s] = f[s] /\ f[s] = Of(f, s)
        BY <2>1, <3>2, <4>1
      <4> QED BY <4>2, <4>3
    <3> QED BY <3>1, <3>2
  <2>3. g = [s \in SUBSET (1..n+1) |-> Of(g, s)]
    <3> HIDE DEF Of
    <3> QED BY <2>2
  <2> HIDE DEF g, Of
  <2> QED BY <2>3
<1>3. Len(seq) \in Nat /\ DOMAIN seq = 1..Len(seq)
  BY DEF IsSeq
<1>4. Len(seq) \in S
  <2> HIDE DEF S
  <2> QED BY <1>1, <1>2, <1>3, NatSetInduction
<1>5. iter = [s \in SUBSET DOMAIN seq |-> Of(iter, s)]
  <2>1. PICK f : f = [s \in SUBSET DOMAIN seq |-> Of(f, s)]
    BY <1>3, <1>4
  <2> QED BY <2>1
<1>6. SanitizeKind(schemas, id, kind, v, seq) = iter[DOMAIN seq]
  BY DEF SanitizeKind, FoldLeft, MapThenFoldSet
<1> HIDE DEF iter, Op
<1> DEFINE h == [i \in 0..Len(seq) |-> iter[1..i]]
<1>7. h[0] = v /\ h[Len(seq)] = iter[DOMAIN seq]
  BY <1>3, <1>5, OneToNone
<1>8. ASSUME NEW i \in 1..Len(seq) PROVE h[i] = Op(h[i-1], seq[i])
  <2>1. /\ i \in Nat /\ i - 1 \in 0..Len(seq) /\ Max(1..i) = i /\ 1..i # {}
        /\ (1..i) \ {i} = 1..i-1 /\ 1..i \in SUBSET DOMAIN seq
    BY <1>3, OneTo
  <2>2. iter[1..i] = Op(iter[(1..i) \ {Max(1..i)}], seq[Max(1..i)])
    BY <1>5, <2>1
  <2>3. h[i] = iter[1..i] /\ h[i-1] = iter[1..i-1]
    BY <1>3, <2>1
  <2> HIDE DEF h
  <2> QED BY <2>1, <2>2, <2>3
<1> HIDE DEF h
<1> QED BY <1>6, <1>7, <1>8 DEF Op


LEMMA SanitizedKind ==
  ASSUME NEW schemas, NEW v, AreVirtual(v), NEW id \in DOMAIN v, NEW kind \in {"owned", "inherited", "inlined"}
  PROVE  SameOffers(v, SanitizeKind(schemas, id, kind, v, [i \in DOMAIN v[id][kind] |-> i]))
<1> DEFINE places == DOMAIN v[id][kind]
           seq == [i \in places |-> i]
           end == SanitizeKind(schemas, id, kind, v, seq)
           N == Len(seq)
<1>1. IsSeq(seq) /\ N \in Nat /\ places = 1..N /\ \A i \in 1..N : seq[i] = i
  <2>1. IsSeq(v[id][kind])
    BY DEF AreVirtual, IsVirtual, AreItems
  <2>2. Len(v[id][kind]) \in Nat /\ places = 1..Len(v[id][kind])
    BY <2>1 DEF IsSeq
  <2>3. seq = [i \in 1..Len(v[id][kind]) |-> seq[i]]
    BY <2>2
  <2>4. \A i \in places : seq[i] = i
    OBVIOUS
  <2> HIDE DEF seq, places
  <2> QED BY <2>2, <2>3, <2>4, MadeSeq
<1> HIDE DEF seq, places
<1>2. PICK h : /\ h[0] = v /\ end = h[N]
               /\ \A i \in 1..N : h[i] = SanitizeProperty(h[i-1], schemas[id].cs, id, kind, seq[i])
  BY <1>1, KindRounds
<1> DEFINE S == {i \in 0..N : SameOffers(v, h[i])}
<1>3. 0 \in S
  BY <1>1, <1>2, SameSelf
<1>4. ASSUME NEW i \in 0..N-1, i \in S PROVE i + 1 \in S
  <2>1. i + 1 \in 1..N /\ i + 1 \in 0..N /\ (i + 1) - 1 = i
    BY <1>1
  <2>2. SameOffers(v, h[i])
    BY <1>4
  <2>3. AreVirtual(h[i]) /\ id \in DOMAIN h[i] /\ i + 1 \in DOMAIN h[i][id][kind]
    <3>1. SameOffer(v[id], h[i][id]) /\ id \in DOMAIN h[i]
      BY <2>2 DEF SameOffers
    <3>2. DOMAIN h[i][id][kind] = DOMAIN v[id][kind]
      BY <3>1 DEF SameOffer
    <3> QED BY <1>1, <2>1, <2>2, <3>1, <3>2, SameVirtuals DEF places
  <2>4. h[i+1] = SanitizeProperty(h[i], schemas[id].cs, id, kind, i + 1)
    BY <1>1, <1>2, <2>1
  <2>5. SameOffers(h[i], h[i+1])
    BY <2>3, <2>4, SanitizedOffers
  <2>6. SameOffers(v, h[i+1])
    BY <2>2, <2>5, SameTwice
  <2> QED BY <2>1, <2>6
<1>5. N \in S
  <2> HIDE DEF S, N
  <2>1. \A i \in 0..N : i \in S
    BY <1>1, <1>3, <1>4, IntervalInduction
  <2> QED BY <1>1, <2>1
<1> QED BY <1>2, <1>5 DEF seq, places

SanitizeAll(schemas, v, id, kind) == SanitizeKind(schemas, id, kind, v, [i \in DOMAIN v[id][kind] |-> i])
SanitizeClass(schemas, v, id) ==
  SanitizeAll(schemas, SanitizeAll(schemas, SanitizeAll(schemas, v, id, "owned"), id, "inherited"), id, "inlined")
SanitizeClasses(schemas, vs, seq) == FoldLeft(LAMBDA v, id : SanitizeClass(schemas, v, id), vs, seq)
\* and of the second.
LEMMA ClassRounds ==
  ASSUME NEW schemas, NEW vs, NEW seq, IsSeq(seq)
  PROVE  \E h : /\ h[0] = vs /\ SanitizeClasses(schemas, vs, seq) = h[Len(seq)]
                /\ \A i \in 1..Len(seq) : h[i] = SanitizeClass(schemas, h[i-1], seq[i])
<1> DEFINE Op(a, x) == SanitizeClass(schemas, a, x)
           Of(f, s) == IF s = {} THEN vs ELSE Op(f[s \ {Max(s)}], seq[Max(s)])
           S == {n \in Nat : \E f : f = [s \in SUBSET (1..n) |-> Of(f, s)]}
           iter == CHOOSE f : f = [s \in SUBSET DOMAIN seq |->
                     IF s = {} THEN vs ELSE SanitizeClass(schemas, f[s \ {Max(s)}], seq[Max(s)])]
<1>1. 0 \in S
  <2> DEFINE f == [s \in SUBSET (1..0) |-> vs]
  <2>1. \A s \in SUBSET (1..0) : s = {}
    OBVIOUS
  <2> HIDE DEF Op
  <2>2. f = [s \in SUBSET (1..0) |-> Of(f, s)]
    BY <2>1
  <2> QED BY <2>2
<1>2. ASSUME NEW n \in Nat, n \in S PROVE n + 1 \in S
  <2>1. PICK f : f = [s \in SUBSET (1..n) |-> Of(f, s)]
    BY <1>2
  <2> DEFINE g == [s \in SUBSET (1..n+1) |-> IF n + 1 \in s THEN Op(f[s \ {n+1}], seq[n+1]) ELSE f[s]]
  <2>2. ASSUME NEW s \in SUBSET (1..n+1) PROVE g[s] = Of(g, s)
    <3> HIDE DEF Op
    <3>1. CASE n + 1 \in s
      <4>1. Max(s) = n + 1 /\ s # {} /\ s \ {n + 1} \in SUBSET (1..n) /\ s \ {n + 1} \in SUBSET (1..n+1)
        BY <3>1, TopOfInterval
      <4>2. g[s \ {n+1}] = f[s \ {n+1}]
        BY <4>1
      <4> QED BY <3>1, <4>1, <4>2
    <3>2. CASE n + 1 \notin s
      <4>1. s \in SUBSET (1..n) /\ (s # {} => s \ {Max(s)} \in SUBSET (1..n) /\ s \ {Max(s)} \in SUBSET (1..n+1))
        BY <3>2, TopOfInterval
      <4>2. s # {} => g[s \ {Max(s)}] = f[s \ {Max(s)}]
        <5>1. s # {} => n + 1 \notin s \ {Max(s)}
          BY <3>2
        <5> QED BY <4>1, <5>1
      <4>3. g[s] = f[s] /\ f[s] = Of(f, s)
        BY <2>1, <3>2, <4>1
      <4> QED BY <4>2, <4>3
    <3> QED BY <3>1, <3>2
  <2>3. g = [s \in SUBSET (1..n+1) |-> Of(g, s)]
    <3> HIDE DEF Of
    <3> QED BY <2>2
  <2> HIDE DEF g, Of
  <2> QED BY <2>3
<1>3. Len(seq) \in Nat /\ DOMAIN seq = 1..Len(seq)
  BY DEF IsSeq
<1>4. Len(seq) \in S
  <2> HIDE DEF S
  <2> QED BY <1>1, <1>2, <1>3, NatSetInduction
<1>5. iter = [s \in SUBSET DOMAIN seq |-> Of(iter, s)]
  <2>1. PICK f : f = [s \in SUBSET DOMAIN seq |-> Of(f, s)]
    BY <1>3, <1>4
  <2> QED BY <2>1
<1>6. SanitizeClasses(schemas, vs, seq) = iter[DOMAIN seq]
  BY DEF SanitizeClasses, FoldLeft, MapThenFoldSet
<1> HIDE DEF iter, Op
<1> DEFINE h == [i \in 0..Len(seq) |-> iter[1..i]]
<1>7. h[0] = vs /\ h[Len(seq)] = iter[DOMAIN seq]
  BY <1>3, <1>5, OneToNone
<1>8. ASSUME NEW i \in 1..Len(seq) PROVE h[i] = Op(h[i-1], seq[i])
  <2>1. /\ i \in Nat /\ i - 1 \in 0..Len(seq) /\ Max(1..i) = i /\ 1..i # {}
        /\ (1..i) \ {i} = 1..i-1 /\ 1..i \in SUBSET DOMAIN seq
    BY <1>3, OneTo
  <2>2. iter[1..i] = Op(iter[(1..i) \ {Max(1..i)}], seq[Max(1..i)])
    BY <1>5, <2>1
  <2>3. h[i] = iter[1..i] /\ h[i-1] = iter[1..i-1]
    BY <1>3, <2>1
  <2> HIDE DEF h
  <2> QED BY <2>1, <2>2, <2>3
<1> HIDE DEF h
<1> QED BY <1>6, <1>7, <1>8 DEF Op


LEMMA SanitizedClasses ==
  ASSUME NEW schemas, NEW vs, AreVirtual(vs), NEW ids \in Seq(DOMAIN vs)
  PROVE  SameOffers(vs, SanitizeProperties(vs, schemas, ids))
<1> DEFINE end == SanitizeClasses(schemas, vs, ids)
           N == Len(ids)
<1>1. SanitizeProperties(vs, schemas, ids) = end
  BY DEF SanitizeProperties, SanitizeClasses, SanitizeClass, SanitizeAll, SanitizeKind
<1>2. N \in Nat /\ IsSeq(ids) /\ \A i \in 1..N : ids[i] \in DOMAIN vs
  BY Contents DEF IsSeq
<1>3. PICK h : /\ h[0] = vs /\ end = h[N]
               /\ \A i \in 1..N : h[i] = SanitizeClass(schemas, h[i-1], ids[i])
  BY <1>2, ClassRounds
<1> HIDE DEF end
<1>4. ASSUME NEW v, AreVirtual(v), NEW id \in DOMAIN v PROVE SameOffers(v, SanitizeClass(schemas, v, id))
  <2> DEFINE a == SanitizeAll(schemas, v, id, "owned")
             b == SanitizeAll(schemas, a, id, "inherited")
             c == SanitizeAll(schemas, b, id, "inlined")
  <2>1. SameOffers(v, a)
    BY <1>4, SanitizedKind DEF SanitizeAll
  <2> HIDE DEF a
  <2>2. AreVirtual(a) /\ id \in DOMAIN a
    BY <2>1, SameVirtuals DEF SameOffers
  <2>3. SameOffers(a, b)
    BY <2>2, SanitizedKind DEF SanitizeAll
  <2> HIDE DEF b
  <2>4. AreVirtual(b) /\ id \in DOMAIN b
    BY <2>2, <2>3, SameVirtuals DEF SameOffers
  <2>5. SameOffers(b, c)
    BY <2>4, SanitizedKind DEF SanitizeAll
  <2>6. SanitizeClass(schemas, v, id) = c
    BY DEF SanitizeClass, a, b
  <2> HIDE DEF c
  <2>7. SameOffers(v, b)
    BY <2>1, <2>3, SameTwice
  <2>8. SameOffers(v, c)
    BY <2>5, <2>7, SameTwice
  <2> QED BY <2>6, <2>8
<1> DEFINE S == {i \in 0..N : SameOffers(vs, h[i])}
<1>5. 0 \in S
  BY <1>2, <1>3, SameSelf
<1>6. ASSUME NEW i \in 0..N-1, i \in S PROVE i + 1 \in S
  <2>1. i + 1 \in 1..N /\ i + 1 \in 0..N /\ (i + 1) - 1 = i
    BY <1>2
  <2>2. SameOffers(vs, h[i])
    BY <1>6
  <2>3. AreVirtual(h[i]) /\ ids[i+1] \in DOMAIN h[i]
    <3>1. DOMAIN h[i] = DOMAIN vs
      BY <2>2 DEF SameOffers
    <3> QED BY <1>2, <2>1, <2>2, <3>1, SameVirtuals
  <2>4. h[i+1] = SanitizeClass(schemas, h[i], ids[i+1])
    BY <1>3, <2>1
  <2>5. SameOffers(h[i], h[i+1])
    BY <1>4, <2>3, <2>4
  <2>6. SameOffers(vs, h[i+1])
    BY <2>2, <2>5, SameTwice
  <2> QED BY <2>1, <2>6
<1>7. N \in S
  <2> HIDE DEF S, N
  <2>1. \A i \in 0..N : i \in S
    BY <1>2, <1>5, <1>6, IntervalInduction
  <2> QED BY <1>2, <2>1
<1> QED BY <1>1, <1>3, <1>7

\* One round of the loop that makes the names of a class distinct, and all of them.
Distinguished(done, each) ==
  LET name == IF each.name \in done.used THEN SelectName(each.opts, done.used) ELSE each.name
  IN [used |-> done.used \cup {name}, seq |-> Append(done.seq, [each EXCEPT !.name = name])]
DistinguishAll(reserved, seq) ==
  FoldLeft(LAMBDA done, each : Distinguished(done, each), [used |-> reserved, seq |-> <<>>], seq)
\* The rounds.
LEMMA DistinctRounds ==
  ASSUME NEW reserved, NEW seq, IsSeq(seq)
  PROVE  \E h : /\ h[0] = [used |-> reserved, seq |-> <<>>] /\ DistinguishAll(reserved, seq) = h[Len(seq)]
                /\ \A i \in 1..Len(seq) : h[i] = Distinguished(h[i-1], seq[i])
<1> DEFINE Op(a, x) == Distinguished(a, x)
           Of(f, s) == IF s = {} THEN [used |-> reserved, seq |-> <<>>] ELSE Op(f[s \ {Max(s)}], seq[Max(s)])
           S == {n \in Nat : \E f : f = [s \in SUBSET (1..n) |-> Of(f, s)]}
           iter == CHOOSE f : f = [s \in SUBSET DOMAIN seq |->
                     IF s = {} THEN [used |-> reserved, seq |-> <<>>] ELSE Distinguished(f[s \ {Max(s)}], seq[Max(s)])]
<1>1. 0 \in S
  <2> DEFINE f == [s \in SUBSET (1..0) |-> [used |-> reserved, seq |-> <<>>]]
  <2>1. \A s \in SUBSET (1..0) : s = {}
    OBVIOUS
  <2> HIDE DEF Op
  <2>2. f = [s \in SUBSET (1..0) |-> Of(f, s)]
    BY <2>1
  <2> QED BY <2>2
<1>2. ASSUME NEW n \in Nat, n \in S PROVE n + 1 \in S
  <2>1. PICK f : f = [s \in SUBSET (1..n) |-> Of(f, s)]
    BY <1>2
  <2> DEFINE g == [s \in SUBSET (1..n+1) |-> IF n + 1 \in s THEN Op(f[s \ {n+1}], seq[n+1]) ELSE f[s]]
  <2>2. ASSUME NEW s \in SUBSET (1..n+1) PROVE g[s] = Of(g, s)
    <3> HIDE DEF Op
    <3>1. CASE n + 1 \in s
      <4>1. Max(s) = n + 1 /\ s # {} /\ s \ {n + 1} \in SUBSET (1..n) /\ s \ {n + 1} \in SUBSET (1..n+1)
        BY <3>1, TopOfInterval
      <4>2. g[s \ {n+1}] = f[s \ {n+1}]
        BY <4>1
      <4> QED BY <3>1, <4>1, <4>2
    <3>2. CASE n + 1 \notin s
      <4>1. s \in SUBSET (1..n) /\ (s # {} => s \ {Max(s)} \in SUBSET (1..n) /\ s \ {Max(s)} \in SUBSET (1..n+1))
        BY <3>2, TopOfInterval
      <4>2. s # {} => g[s \ {Max(s)}] = f[s \ {Max(s)}]
        <5>1. s # {} => n + 1 \notin s \ {Max(s)}
          BY <3>2
        <5> QED BY <4>1, <5>1
      <4>3. g[s] = f[s] /\ f[s] = Of(f, s)
        BY <2>1, <3>2, <4>1
      <4> QED BY <4>2, <4>3
    <3> QED BY <3>1, <3>2
  <2>3. g = [s \in SUBSET (1..n+1) |-> Of(g, s)]
    <3> HIDE DEF Of
    <3> QED BY <2>2
  <2> HIDE DEF g, Of
  <2> QED BY <2>3
<1>3. Len(seq) \in Nat /\ DOMAIN seq = 1..Len(seq)
  BY DEF IsSeq
<1>4. Len(seq) \in S
  <2> HIDE DEF S
  <2> QED BY <1>1, <1>2, <1>3, NatSetInduction
<1>5. iter = [s \in SUBSET DOMAIN seq |-> Of(iter, s)]
  <2>1. PICK f : f = [s \in SUBSET DOMAIN seq |-> Of(f, s)]
    BY <1>3, <1>4
  <2> QED BY <2>1
<1>6. DistinguishAll(reserved, seq) = iter[DOMAIN seq]
  BY DEF DistinguishAll, FoldLeft, MapThenFoldSet
<1> HIDE DEF iter, Op
<1> DEFINE h == [i \in 0..Len(seq) |-> iter[1..i]]
<1>7. h[0] = [used |-> reserved, seq |-> <<>>] /\ h[Len(seq)] = iter[DOMAIN seq]
  BY <1>3, <1>5, OneToNone
<1>8. ASSUME NEW i \in 1..Len(seq) PROVE h[i] = Op(h[i-1], seq[i])
  <2>1. /\ i \in Nat /\ i - 1 \in 0..Len(seq) /\ Max(1..i) = i /\ 1..i # {}
        /\ (1..i) \ {i} = 1..i-1 /\ 1..i \in SUBSET DOMAIN seq
    BY <1>3, OneTo
  <2>2. iter[1..i] = Op(iter[(1..i) \ {Max(1..i)}], seq[Max(1..i)])
    BY <1>5, <2>1
  <2>3. h[i] = iter[1..i] /\ h[i-1] = iter[1..i-1]
    BY <1>3, <2>1
  <2> HIDE DEF h
  <2> QED BY <2>1, <2>2, <2>3
<1> HIDE DEF h
<1> QED BY <1>6, <1>7, <1>8 DEF Op


\* A part of a sequence.
LEMMA SubSeqPart ==
  ASSUME NEW seq, IsSeq(seq), NEW m \in Nat, NEW n \in Nat, 1 <= m, n <= Len(seq), m <= n + 1
  PROVE  /\ IsSeq(SubSeq(seq, m, n)) /\ ToSet(SubSeq(seq, m, n)) = {seq[i] : i \in m..n}
         /\ Len(SubSeq(seq, m, n)) = n - m + 1
         /\ \A i \in 1..n-m+1 : SubSeq(seq, m, n)[i] = seq[i + m - 1]
<1> DEFINE part == SubSeq(seq, m, n)
           k == n - m + 1
<1>1. k \in Nat
  OBVIOUS
<1>2. part = [i \in 1..k |-> seq[i + m - 1]]
  <2>1. part = [i \in 1..(1 + n - m) |-> seq[i + m - 1]]
    OBVIOUS
  <2> HIDE DEF part
  <2>2. 1 + n - m = k
    OBVIOUS
  <2> QED BY <2>1, <2>2
<1>3. IsSeq(part) /\ DOMAIN part = 1..k /\ Len(part) = k
  <2>1. part = [i \in 1..k |-> part[i]]
    BY <1>2
  <2> HIDE DEF part, k
  <2> QED BY <1>1, <2>1, MadeSeq
<1>4. ToSet(part) = {seq[i] : i \in m..n}
  <2>1. \A i \in 1..k : i + m - 1 \in m..n
    OBVIOUS
  <2>2. \A j \in m..n : j - m + 1 \in 1..k /\ (j - m + 1) + m - 1 = j
    OBVIOUS
  <2> HIDE DEF part, k
  <2> QED BY <1>2, <1>3, <2>1, <2>2 DEF ToSet
<1> HIDE DEF part
<1> QED BY <1>2, <1>3, <1>4 DEF part

\* The names that are made distinct leave what is reached as it is.
LEMMA ResolvedOffers ==
  ASSUME NEW reserved, NEW v, IsVirtual(v)
  PROVE  LET w == ResolvePropertyNames(reserved, v)
         IN IsVirtual(w) /\ Offers(w) = Offers(v)
<1> DEFINE seq == AllVirtual(v)
           all == DistinguishAll(reserved, seq).seq
           o == Len(v.owned)
           h == o + Len(v.inherited)
           n == Len(all)
           w == ResolvePropertyNames(reserved, v)
<1>1. w = [v EXCEPT !.owned = SubSeq(all, 1, o), !.inherited = SubSeq(all, o + 1, h),
                    !.inlined = SubSeq(all, h + 1, n)]
  BY DEF ResolvePropertyNames, DistinguishAll, Distinguished
<1>2. AreItems(seq) /\ Shows(seq) = Offers(v)
  BY ItemsOfAll
<1>3. o \in Nat /\ h \in Nat /\ o <= h /\ h <= Len(seq) /\ Len(seq) \in Nat
  <2>1. IsSeq(v.owned) /\ IsSeq(v.inherited) /\ IsSeq(v.inlined)
    BY DEF IsVirtual, AreItems
  <2>2. Len(v.owned) \in Nat /\ Len(v.inherited) \in Nat /\ Len(v.inlined) \in Nat
    BY <2>1 DEF IsSeq
  <2>3. IsSeq(v.owned \o v.inherited) /\ Len(v.owned \o v.inherited) = h
    BY <2>1, JoinedSeq
  <2>4. Len(seq) = h + Len(v.inlined)
    BY <2>1, <2>3, JoinedSeq DEF AllVirtual
  <2> DEFINE a == Len(v.owned)
             b == Len(v.inherited)
             c == Len(v.inlined)
  <2>5. o = a /\ h = a + b /\ Len(seq) = h + c /\ a \in Nat /\ b \in Nat /\ c \in Nat
    BY <2>2, <2>4
  <2> HIDE DEF seq, o, h, a, b, c
  <2> QED BY <2>5
<1> HIDE DEF seq, w, o, h
<1>4. NewNames(seq, all)
  <2>1. IsSeq(seq)
    BY <1>2 DEF AreItems
  <2>2. PICK g : /\ g[0] = [used |-> reserved, seq |-> <<>>] /\ DistinguishAll(reserved, seq) = g[Len(seq)]
                 /\ \A i \in 1..Len(seq) : g[i] = Distinguished(g[i-1], seq[i])
    BY <2>1, DistinctRounds
  <2>3. ASSUME NEW i \in 1..Len(seq)
        PROVE  \E name : g[i].seq = Append(g[i-1].seq, [seq[i] EXCEPT !.name = name])
    <3>1. g[i] = Distinguished(g[i-1], seq[i])
      BY <2>2
    <3>2. \E name : Distinguished(g[i-1], seq[i]).seq = Append(g[i-1].seq, [seq[i] EXCEPT !.name = name])
      BY DEF Distinguished
    <3> QED BY <3>1, <3>2
  <2>4. g[0].seq = <<>>
    BY <2>2
  <2>5. NewNames(seq, g[Len(seq)].seq)
    BY <2>1, <2>3, <2>4, NamingLoop
  <2> QED BY <2>2, <2>5
<1>5. AreItems(all) /\ Shows(all) = Offers(v) /\ n = Len(seq)
  BY <1>2, <1>4, Named DEF NewNames
<1> HIDE DEF all
<1>6. IsSeq(all) /\ DOMAIN all = 1..n /\ n \in Nat
  BY <1>5 DEF AreItems, IsSeq
<1>7. /\ IsSeq(SubSeq(all, 1, o)) /\ ToSet(SubSeq(all, 1, o)) = {all[i] : i \in 1..o}
      /\ IsSeq(SubSeq(all, o + 1, h)) /\ ToSet(SubSeq(all, o + 1, h)) = {all[i] : i \in o+1..h}
      /\ IsSeq(SubSeq(all, h + 1, n)) /\ ToSet(SubSeq(all, h + 1, n)) = {all[i] : i \in h+1..n}
  <2>1. o <= n /\ h <= n /\ o + 1 \in Nat /\ h + 1 \in Nat
    BY <1>3, <1>5, <1>6
  <2>2. IsSeq(SubSeq(all, 1, o)) /\ ToSet(SubSeq(all, 1, o)) = {all[i] : i \in 1..o}
    <3>1. 1 \in Nat /\ 1 <= 1 /\ 1 <= o + 1 /\ o \in Nat /\ o <= Len(all)
      BY <1>3, <2>1
    <3>2. IsSeq(all)
      BY <1>6
    <3> HIDE DEF n
    <3> QED BY <3>1, <3>2, SubSeqPart
  <2>3. IsSeq(SubSeq(all, o + 1, h)) /\ ToSet(SubSeq(all, o + 1, h)) = {all[i] : i \in o+1..h}
    <3>1. 1 <= o + 1 /\ o + 1 <= h + 1 /\ h <= Len(all) /\ h \in Nat /\ o + 1 \in Nat
      BY <1>3, <2>1
    <3>2. IsSeq(all)
      BY <1>6
    <3> HIDE DEF n
    <3> QED BY <3>1, <3>2, SubSeqPart
  <2>4. IsSeq(SubSeq(all, h + 1, n)) /\ ToSet(SubSeq(all, h + 1, n)) = {all[i] : i \in h+1..n}
    <3>1. 1 <= h + 1 /\ h + 1 <= n + 1 /\ n <= n
      BY <1>3, <1>6, <2>1
    <3> HIDE DEF n
    <3> QED BY <1>6, <2>1, <3>1, SubSeqPart DEF n
  <2> QED BY <2>2, <2>3, <2>4
<1>8. /\ DOMAIN w = DOMAIN v /\ w.owned = SubSeq(all, 1, o) /\ w.inherited = SubSeq(all, o + 1, h)
      /\ w.inlined = SubSeq(all, h + 1, n)
  BY <1>1 DEF IsVirtual
<1>9. 1..n = (1..o) \cup (o+1..h) \cup (h+1..n)
  BY <1>3, <1>5, <1>6
<1>10. ToSet(all) = ToSet(w.owned) \cup ToSet(w.inherited) \cup ToSet(w.inlined)
  <2>1. ToSet(all) = {all[i] : i \in 1..n}
    BY <1>6 DEF ToSet
  <2> HIDE DEF n
  <2> QED BY <1>7, <1>8, <1>9, <2>1
<1>11. IsVirtual(w)
  <2>1. /\ ToSet(w.owned) \subseteq ToSet(all) /\ ToSet(w.inherited) \subseteq ToSet(all)
        /\ ToSet(w.inlined) \subseteq ToSet(all)
    BY <1>10
  <2>2. IsSeq(w.owned) /\ IsSeq(w.inherited) /\ IsSeq(w.inlined)
    BY <1>7, <1>8
  <2> QED BY <1>5, <1>8, <2>1, <2>2 DEF IsVirtual, AreItems
<1>12. Offers(w) = Offers(v)
  BY <1>5, <1>10 DEF Offers, Shows
<1> QED BY <1>11, <1>12 DEF w

\* What is reached stays the same, class for class.
OffersAs(v, w) ==
  DOMAIN w = DOMAIN v /\ \A id \in DOMAIN v : IsVirtual(w[id]) /\ Offers(w[id]) = Offers(v[id])

\* The namer keeps it, whether names are sanitized or not;
LEMMA NamedOffers ==
  ASSUME NEW vs, AreVirtual(vs), NEW schemas, NEW ids \in Seq(DOMAIN vs)
  PROVE  OffersAs(vs, PsNameProperties(vs, schemas, ids))
<1> DEFINE named == IF SanitizeNames THEN SanitizeProperties(vs, schemas, ids) ELSE vs
           new == PsNameProperties(vs, schemas, ids)
<1>1. new = [id \in DOMAIN vs |-> ResolvePropertyNames({schemas[id].cs}, named[id])]
  BY DEF PsNameProperties
<1>2. SameOffers(vs, named)
  BY SanitizedClasses, SameSelf
<1> HIDE DEF named, new
<1>3. ASSUME NEW id \in DOMAIN vs
      PROVE  IsVirtual(new[id]) /\ Offers(new[id]) = Offers(vs[id])
  <2>1. IsVirtual(named[id]) /\ Offers(named[id]) = Offers(vs[id])
    BY <1>2 DEF SameOffers, SameOffer
  <2>2. LET w == ResolvePropertyNames({schemas[id].cs}, named[id])
        IN IsVirtual(w) /\ Offers(w) = Offers(named[id])
    BY <2>1, ResolvedOffers
  <2> QED BY <1>1, <2>1, <2>2
<1>4. DOMAIN new = DOMAIN vs
  BY <1>1
<1>5. OffersAs(vs, new)
  BY <1>3, <1>4 DEF OffersAs
<1> QED BY <1>5 DEF new

\* and so does a directive that renames properties,
LEMMA RenamedOffers ==
  ASSUME NEW vs, AreVirtual(vs), NEW d, NEW schemas
  PROVE  OffersAs(vs, RenameProperties(d, schemas, vs))
<1> DEFINE Kinds == {"owned", "inherited", "inlined"}
           One(x) == IF ~Matches(d.where.property, x.name) THEN x
                     ELSE [x EXCEPT !.name = Replaced(d.where.property, @, d.set.property)]
           Each(seq) == [i \in DOMAIN seq |-> One(seq[i])]
           Renamed1(v) == [v EXCEPT !.owned = Each(@), !.inherited = Each(@), !.inlined = Each(@)]
           new == RenameProperties(d, schemas, vs)
<1>1. new = [id \in DOMAIN vs |->
               IF ~ModelSelected(d, schemas[id], vs[id]) THEN vs[id] ELSE Renamed1(vs[id])]
  BY DEF RenameProperties
<1>2. ASSUME NEW x, IsItem(x) PROVE SameItem(x, One(x))
  <2>1. /\ DOMAIN One(x) = DOMAIN x /\ One(x).comps = x.comps /\ One(x).opts = x.opts
        /\ One(x).path = x.path /\ One(x).private = x.private
    BY <1>2 DEF IsItem, ItemFields
  <2> HIDE DEF One
  <2> QED BY <1>2, <2>1 DEF SameItem, IsItem
<1> HIDE DEF One
<1>3. ASSUME NEW v, IsVirtual(v) PROVE SameOffer(v, Renamed1(v))
  <2> DEFINE w == Renamed1(v)
  <2> HIDE DEF Each
  <2>1. DOMAIN w = DOMAIN v /\ \A k \in Kinds : w[k] = Each(v[k])
    BY <1>3 DEF IsVirtual
  <2> HIDE DEF w
  <2>2. \A seq : /\ Each(seq) = [j \in DOMAIN seq |-> Each(seq)[j]]
                 /\ \A j \in DOMAIN seq : Each(seq)[j] = One(seq[j])
    BY DEF Each
  <2>3. \A k \in Kinds : \A j \in DOMAIN v[k] : IsItem(v[k][j])
    BY <1>3 DEF IsVirtual, AreItems, ToSet
  <2>4. \A k \in Kinds : \A j \in DOMAIN v[k] : SameItem(v[k][j], w[k][j])
    BY <1>2, <2>1, <2>2, <2>3
  <2>5. \A k \in Kinds : w[k] = [j \in DOMAIN v[k] |-> w[k][j]]
    BY <2>1, <2>2
  <2>6. {"conflict", "owned", "inherited", "inlined"} \subseteq DOMAIN w
    BY <1>3, <2>1 DEF IsVirtual
  <2>7. SameOffer(v, w)
    BY <1>3, <2>4, <2>5, <2>6, SameKinds
  <2> QED BY <2>7 DEF w
<1> HIDE DEF Renamed1, new
<1>4. ASSUME NEW id \in DOMAIN vs
      PROVE  IsVirtual(new[id]) /\ Offers(new[id]) = Offers(vs[id])
  <2>1. IsVirtual(vs[id])
    BY DEF AreVirtual
  <2>2. SameOffer(vs[id], Renamed1(vs[id]))
    BY <1>3, <2>1
  <2> QED BY <1>1, <2>1, <2>2 DEF SameOffer
<1>5. DOMAIN new = DOMAIN vs
  BY <1>1
<1>6. OffersAs(vs, new)
  BY <1>4, <1>5 DEF OffersAs
<1> QED BY <1>6 DEF new

\* one that leaves properties out of a table,
LEMMA FormattedOffers ==
  ASSUME NEW vs, AreVirtual(vs), NEW d, NEW schemas
  PROVE  OffersAs(vs, FormatModels(d, schemas, vs))
<1> DEFINE Kinds == {"owned", "inherited", "inlined"}
           format == d.set.format
           Hides(v) == \/ format.include # {} /\ v.name \notin format.include
                       \/ v.name \in format.exclude
           One(x) == [x EXCEPT !.shown = @ /\ ~Hides(x)]
           Each(seq) == [i \in DOMAIN seq |-> One(seq[i])]
           Formatted(v) == [v EXCEPT !.owned = Each(@), !.inherited = Each(@), !.inlined = Each(@)]
           new == FormatModels(d, schemas, vs)
<1>1. new = [id \in DOMAIN vs |->
               IF ~ModelSelected(d, schemas[id], vs[id]) \/ format.suppress THEN vs[id]
               ELSE Formatted(vs[id])]
  BY DEF FormatModels
<1> HIDE DEF Hides
<1>2. ASSUME NEW x, IsItem(x) PROVE SameItem(x, One(x))
  <2>1. /\ DOMAIN One(x) = DOMAIN x /\ One(x).comps = x.comps /\ One(x).opts = x.opts
        /\ One(x).path = x.path /\ One(x).private = x.private
    BY <1>2 DEF IsItem, ItemFields
  <2> HIDE DEF One
  <2> QED BY <1>2, <2>1 DEF SameItem, IsItem
<1> HIDE DEF One, format
<1>3. ASSUME NEW v, IsVirtual(v) PROVE SameOffer(v, Formatted(v))
  <2> DEFINE w == Formatted(v)
  <2> HIDE DEF Each
  <2>1. DOMAIN w = DOMAIN v /\ \A k \in Kinds : w[k] = Each(v[k])
    BY <1>3 DEF IsVirtual
  <2> HIDE DEF w
  <2>2. \A seq : /\ Each(seq) = [j \in DOMAIN seq |-> Each(seq)[j]]
                 /\ \A j \in DOMAIN seq : Each(seq)[j] = One(seq[j])
    BY DEF Each
  <2>3. \A k \in Kinds : \A j \in DOMAIN v[k] : IsItem(v[k][j])
    BY <1>3 DEF IsVirtual, AreItems, ToSet
  <2>4. \A k \in Kinds : \A j \in DOMAIN v[k] : SameItem(v[k][j], w[k][j])
    BY <1>2, <2>1, <2>2, <2>3
  <2>5. \A k \in Kinds : w[k] = [j \in DOMAIN v[k] |-> w[k][j]]
    BY <2>1, <2>2
  <2>6. {"conflict", "owned", "inherited", "inlined"} \subseteq DOMAIN w
    BY <1>3, <2>1 DEF IsVirtual
  <2>7. SameOffer(v, w)
    BY <1>3, <2>4, <2>5, <2>6, SameKinds
  <2> QED BY <2>7 DEF w
<1> HIDE DEF Formatted, new
<1>4. ASSUME NEW id \in DOMAIN vs
      PROVE  IsVirtual(new[id]) /\ Offers(new[id]) = Offers(vs[id])
  <2>1. IsVirtual(vs[id])
    BY DEF AreVirtual
  <2>2. SameOffer(vs[id], Formatted(vs[id]))
    BY <1>3, <2>1
  <2> QED BY <1>1, <2>1, <2>2 DEF SameOffer
<1>5. DOMAIN new = DOMAIN vs
  BY <1>1
<1>6. OffersAs(vs, new)
  BY <1>4, <1>5 DEF OffersAs
<1> QED BY <1>6 DEF new

\* and so any other.
LEMMA DirectedOffers ==
  ASSUME NEW vs, AreVirtual(vs), NEW d, NEW schemas, NEW seq
  PROVE  OffersAs(vs, Apply(d, [commands |-> seq, schemas |-> schemas, virt |-> vs]).virt)
<1> DEFINE x == [commands |-> seq, schemas |-> schemas, virt |-> vs]
           new == Apply(d, x).virt
           renamed == RenameProperties(d, schemas, vs)
           formatted == FormatModels(d, schemas, vs)
<1>1. new \in {vs, renamed, formatted}
  BY DEF Apply
<1>2. OffersAs(vs, vs)
  BY DEF OffersAs, AreVirtual
<1>3. OffersAs(vs, renamed) /\ OffersAs(vs, formatted)
  BY RenamedOffers, FormattedOffers
<1> HIDE DEF new, renamed, formatted
<1>4. OffersAs(vs, new)
  BY <1>1, <1>2, <1>3
<1> QED BY <1>4 DEF new

\* A model whose schemas stay alike has the same objects, and these the same members.
LEMMA SameMembers ==
  ASSUME NEW m, Grounded(m), NEW n, Grounded(n), Alike(m.schemas, n.schemas)
  PROVE  /\ ObjectIds(n.schemas) = ObjectIds(m.schemas)
         /\ \A id \in DOMAIN m.schemas : Members(n.schemas, id) = Members(m.schemas, id)
<1> DEFINE s == m.schemas
           t == n.schemas
<1>1. DOMAIN t = DOMAIN s /\ \A id \in DOMAIN s : Kept(s[id], t[id])
  BY DEF Alike
<1>2. s = [id \in DOMAIN s |-> s[id]]
  BY ModelParts DEF Grounded
<1> HIDE DEF s, t
<1>3. Alike(t, s)
  <2>1. s \in [DOMAIN t -> {s[id] : id \in DOMAIN t}]
    BY <1>1, <1>2
  <2>2. \A id \in DOMAIN t : Kept(t[id], s[id])
    BY <1>1 DEF Kept
  <2> QED BY <2>1, <2>2 DEF Alike
<1>4. ObjectIds(t) = ObjectIds(s)
  BY <1>1 DEF ObjectIds, Kept
<1>5. ASSUME NEW id \in DOMAIN s PROVE Members(t, id) = Members(s, id)
  <2>1. Members(s, id) \subseteq Members(t, id)
    BY AlikeMembers DEF s, t
  <2>2. Members(t, id) \subseteq Members(s, id)
    BY <1>1, <1>3, AlikeMembers DEF s, t
  <2> QED BY <2>1, <2>2
<1> QED BY <1>4, <1>5 DEF s, t

\* The inductive invariant: there are virtual properties of each object, and the public ones
\* reach its members.
ReachInv ==
  /\ ModelInv
  /\ phase \in WithProperties =>
       /\ DOMAIN virt = ObjectIds(model.schemas)
       /\ \A id \in ObjectIds(model.schemas) :
            IsVirtual(virt[id]) /\ Members(model.schemas, id) \subseteq Offers(virt[id])

\* A step that keeps what is reached, in a model that has the same members.
LEMMA ReachKept ==
  ASSUME ReachInv, ModelInv', phase \in WithProperties,
         OffersAs(virt, virt'), model' = model \/ Alike(model.schemas, model'.schemas)
  PROVE  ReachInv'
<1>1. Grounded(model) /\ Grounded(model')
  BY DEF ReachInv, ModelInv
<1>2. /\ ObjectIds(model'.schemas) = ObjectIds(model.schemas)
      /\ \A id \in DOMAIN model.schemas : Members(model'.schemas, id) = Members(model.schemas, id)
  BY <1>1, SameMembers
<1>3. /\ DOMAIN virt = ObjectIds(model.schemas)
      /\ \A id \in ObjectIds(model.schemas) :
           IsVirtual(virt[id]) /\ Members(model.schemas, id) \subseteq Offers(virt[id])
  BY DEF ReachInv
<1>4. \A id \in ObjectIds(model.schemas) : id \in DOMAIN model.schemas
  BY DEF ObjectIds
<1>5. DOMAIN virt' = DOMAIN virt
      /\ \A id \in DOMAIN virt : IsVirtual(virt'[id]) /\ Offers(virt'[id]) = Offers(virt[id])
  BY DEF OffersAs
<1> DEFINE objects == ObjectIds(model.schemas)
<1>6. /\ DOMAIN virt' = ObjectIds(model'.schemas)
      /\ \A id \in ObjectIds(model'.schemas) :
           IsVirtual(virt'[id]) /\ Members(model'.schemas, id) \subseteq Offers(virt'[id])
  BY <1>2, <1>3, <1>4, <1>5
<1> QED BY <1>6 DEF ReachInv

LEMMA ReachStep ==
  ASSUME NumeralsDiffer, ReachInv, [Next]_vars
  PROVE  ReachInv'
<1>1. ModelInv /\ ModelInv' /\ Grounded(model)
  BY ModelStep DEF ReachInv, ModelInv
<1>2. CASE CreateInlinedProperties
  <2>1. /\ phase = "virtual" /\ virt' = CreateVirtuals(model.schemas) /\ model' = model
        /\ \/ phase' = "failed"
           \/ phase' = "csnamer" /\ \A id \in DOMAIN virt' : ~virt'[id].conflict
    BY <1>2 DEF CreateInlinedProperties
  <2>2. AreSchemas(model.schemas) /\ IsFiniteSet(ObjectIds(model.schemas))
    <3>1. /\ AreSchemas(model.schemas) /\ model.objects \in Seq(DOMAIN model.schemas)
          /\ ToSet(model.objects) = ObjectIds(model.schemas)
      BY <1>1, ModelParts DEF Grounded, ObjectIds
    <3> QED BY <3>1, FiniteElements
  <2>3. PICK depth \in Depths(model.schemas) : TRUE
    BY <1>1 DEF Grounded
  <2>4. /\ DOMAIN virt' = ObjectIds(model.schemas)
        /\ \A id \in ObjectIds(model.schemas) : Offering(model.schemas, id, virt'[id])
    BY <2>1, <2>2, <2>3, VirtualsOffer
  <2>5. phase' = "csnamer" => \A id \in ObjectIds(model.schemas) :
          IsVirtual(virt'[id]) /\ Members(model.schemas, id) \subseteq Offers(virt'[id])
    BY <2>1, <2>4 DEF Offering
  <2>6. phase' \in WithProperties => phase' = "csnamer"
    BY <2>1 DEF WithProperties
  <2> QED BY <1>1, <2>1, <2>4, <2>5, <2>6 DEF ReachInv
<1>3. phase \in WithProperties => AreVirtual(virt) /\ OffersAs(virt, virt)
  BY DEF ReachInv, AreVirtual, OffersAs
<1>4. CASE RunCsNamer
  <2>1. phase \in WithProperties /\ virt' = virt /\ model' = CsName(model)
    BY <1>4 DEF RunCsNamer, WithProperties
  <2>2. Alike(model.schemas, model'.schemas)
    BY <1>1, <2>1, CsNamed
  <2> QED BY <1>1, <1>3, <2>1, <2>2, ReachKept
<1>5. CASE RunPsNamer
  <2>1. /\ phase \in WithProperties /\ model' = model
        /\ virt' = PsNameProperties(virt, model.schemas, model.objects)
    BY <1>5 DEF RunPsNamer, WithProperties
  <2>2. model.objects \in Seq(DOMAIN virt)
    <3>1. /\ model.objects \in Seq(DOMAIN model.schemas)
          /\ ToSet(model.objects) = ObjectIds(model.schemas)
      BY <1>1, ModelParts DEF Grounded, ObjectIds
    <3>2. DOMAIN virt = ToSet(model.objects)
      BY <2>1, <3>1 DEF ReachInv
    <3> QED BY <3>1, <3>2, Contents
  <2>3. OffersAs(virt, virt')
    BY <1>3, <2>1, <2>2, NamedOffers
  <2> QED BY <1>1, <2>1, <2>3, ReachKept
<1>6. CASE ApplyDirective
  <2> DEFINE d == directives[applied + 1]
             changed == Apply(d, [commands |-> commands, schemas |-> model.schemas, virt |-> virt])
             n == [model EXCEPT !.schemas = changed.schemas]
  <2>1. phase \in WithProperties /\ model' = n /\ virt' = changed.virt
    BY <1>6 DEF ApplyDirective, WithProperties
  <2> HIDE DEF d
  <2>2. Alike(model.schemas, n.schemas)
    BY <1>1, DirectiveGrounded
  <2>3. OffersAs(virt, changed.virt)
    BY <1>3, <2>1, DirectedOffers
  <2> HIDE DEF changed, n
  <2> QED BY <1>1, <2>1, <2>2, <2>3, ReachKept
<1>7. CASE phase' \in WithProperties => phase \in WithProperties /\ UNCHANGED <<model, virt>>
  BY <1>1, <1>7 DEF ReachInv
<1>8. \/ CreateInlinedProperties \/ RunCsNamer \/ RunPsNamer \/ ApplyDirective
      \/ phase' \in WithProperties => phase \in WithProperties /\ UNCHANGED <<model, virt>>
  <2>1. CASE RunTweakM4 \/ RunTweak \/ RunTweakAzure
    BY <2>1 DEF RunTweakM4, RunTweak, RunTweakAzure, WithProperties
  <2>2. CASE InferOperation \/ InferNothing \/ CommandsCreated \/ IncorrectDirective
    BY <2>2 DEF InferOperation, InferNothing, CommandsCreated, IncorrectDirective, WithProperties
  <2>3. CASE DirectivesApplied \/ CreateModelClasses \/ AddCompleters \/ CreateClasses
    BY <2>3 DEF DirectivesApplied, CreateModelClasses, AddCompleters, CreateClasses, WithProperties
  <2>4. CASE UNCHANGED vars
    BY <2>4 DEF vars
  <2> QED BY <2>1, <2>2, <2>3, <2>4 DEF Next
<1> QED BY <1>2, <1>4, <1>5, <1>6, <1>7, <1>8

\* The members that can be given in JSON, an object's own and those it inherits, can be reached
\* by public properties of the class that is made of it: through however many levels of
\* inheritance and inlining they come, whatever is renamed for a collision, by the namers or by
\* a directive, and whatever the threshold for inlining.
THEOREM MembersReached == ASSUME NumeralsDiffer PROVE Spec => []PropertiesReached
<1>1. Init => ReachInv
  <2>1. Init => phase \notin WithProperties
    BY DEF Init, WithProperties
  <2> QED BY <2>1, ModelStart DEF ReachInv
<1>2. ReachInv /\ [Next]_vars => ReachInv'
  BY ReachStep
<1>3. ReachInv => PropertiesReached
  <2> SUFFICES ASSUME ReachInv, phase \in WithProperties, NEW id \in Objects,
                      NEW ser \in Members(model.schemas, id)
               PROVE  \E v \in ToSet(AllVirtual(virt[id])) : ~v.private /\ v.path[1] = ser
    BY DEF PropertiesReached
  <2>1. id \in ObjectIds(model.schemas)
    BY ModelParts DEF ReachInv, ModelInv, Grounded, Objects, ObjectIds
  <2>2. IsVirtual(virt[id]) /\ ser \in Offers(virt[id])
    BY <2>1 DEF ReachInv
  <2>3. ser \in Shows(AllVirtual(virt[id]))
    BY <2>2, ItemsOfAll
  <2> QED BY <2>3 DEF Shows
<1> QED BY <1>1, <1>2, <1>3, PTL DEF Spec
=============================================================================
