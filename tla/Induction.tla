------------------------------ MODULE Induction ------------------------------
(***************************************************************************)
(* Induction without an operator parameter: the property is the set of the *)
(* numbers that have it.  On it rests what is proved about the folds that   *)
(* the loops of the code are modelled by.                                  *)
(***************************************************************************)
EXTENDS Integers, SequencesExt, WellFoundedInduction, FiniteSetTheorems, TLAPS

\* A set of numbers that has 0 and with every number the next one has them all: the
\* least number it does not have is neither 0 nor the successor of one it has.
LEMMA NatSetInduction ==
  ASSUME NEW S, 0 \in S, \A n \in Nat : n \in S => n + 1 \in S
  PROVE  \A n \in Nat : n \in S
<1> DEFINE T == Nat \ S
           R == {pair \in Nat \X Nat : pair[1] < pair[2]}
<1>1. SUFFICES ASSUME T # {} PROVE FALSE
  OBVIOUS
<1>2. IsWellFoundedOn(R, Nat)
  BY NatLessThanWellFounded DEF OpToRel
<1>3. T \subseteq Nat
  OBVIOUS
<1> HIDE DEF R
<1>4. \E x \in T : \A y \in T : <<y, x>> \notin R
  <2> HIDE DEF T
  <2> QED BY <1>1, <1>2, <1>3, WFMin
<1>5. PICK x \in T : \A y \in T : <<y, x>> \notin R
  BY <1>4
<1>6. x \in Nat /\ x # 0
  OBVIOUS
<1>7. x - 1 \in Nat /\ x - 1 < x /\ (x - 1) + 1 = x
  BY <1>6
<1>8. <<x - 1, x>> \in R
  BY <1>6, <1>7 DEF R
<1>9. x - 1 \in S
  BY <1>5, <1>7, <1>8
<1> QED
  BY <1>6, <1>7, <1>9

\* The same for the numbers up to a bound.
LEMMA IntervalInduction ==
  ASSUME NEW S, NEW N \in Nat, 0 \in S, \A n \in 0..N-1 : n \in S => n + 1 \in S
  PROVE  \A n \in 0..N : n \in S
<1> DEFINE T == {n \in Nat : n <= N => n \in S}
<1>1. 0 \in T
  OBVIOUS
<1>2. ASSUME NEW n \in Nat, n \in T PROVE n + 1 \in T
  BY <1>2
<1>3. \A n \in Nat : n \in T
  <2> HIDE DEF T
  <2> QED BY <1>1, <1>2, NatSetInduction
<1> QED
  BY <1>3

\* A set of numbers up to a bound has a greatest one ...
LEMMA MaxInterval ==
  ASSUME NEW N \in Nat, NEW s \in SUBSET (1..N), s # {}
  PROVE  Max(s) \in s /\ \A y \in s : Max(s) >= y
<1> DEFINE S == {n \in Nat : \A t \in SUBSET (1..n) : t # {} => \E x \in t : \A y \in t : x >= y}
<1>1. 0 \in S
  <2>1. 1..0 = {}
    OBVIOUS
  <2> QED BY <2>1
<1>2. ASSUME NEW n \in Nat, n \in S PROVE n + 1 \in S
  <2>1. SUFFICES ASSUME NEW t \in SUBSET (1..n+1), t # {}
                 PROVE  \E x \in t : \A y \in t : x >= y
    OBVIOUS
  <2>2. CASE n + 1 \in t
    BY <2>2
  <2>3. CASE n + 1 \notin t
    <3>1. t \in SUBSET (1..n)
      BY <2>3
    <3> QED
      BY <1>2, <2>1, <3>1
  <2> QED
    BY <2>2, <2>3
<1>3. \A n \in Nat : n \in S
  <2> HIDE DEF S
  <2> QED BY <1>1, <1>2, NatSetInduction
<1>4. \E x \in s : \A y \in s : x >= y
  BY <1>3
<1> QED
  BY <1>4 DEF Max

\* ... and one that is not empty a least one.
LEMMA MinNat ==
  ASSUME NEW s \in SUBSET Nat, s # {}
  PROVE  Min(s) \in s /\ \A y \in s : Min(s) <= y
<1> DEFINE T == {n \in Nat : \A t \in SUBSET Nat : (\E x \in t : x <= n) =>
                               \E x \in t : \A y \in t : x <= y}
<1>1. 0 \in T
  OBVIOUS
<1>2. ASSUME NEW n \in Nat, n \in T PROVE n + 1 \in T
  <2>1. SUFFICES ASSUME NEW t \in SUBSET Nat, NEW z \in t, z <= n + 1
                 PROVE  \E x \in t : \A y \in t : x <= y
    OBVIOUS
  <2>2. CASE \E x \in t : x <= n
    BY <1>2, <2>2
  <2>3. CASE \A x \in t : x >= n + 1
    BY <2>1, <2>3
  <2> QED
    BY <2>2, <2>3
<1>3. \A n \in Nat : n \in T
  <2> HIDE DEF T
  <2> QED BY <1>1, <1>2, NatSetInduction
<1>4. PICK z \in s : TRUE
  OBVIOUS
<1>5. z \in Nat /\ z <= z
  OBVIOUS
<1>6. \E x \in s : \A y \in s : x <= y
  BY <1>3, <1>5
<1> QED
  BY <1>6 DEF Min

\* The functions that are at a set of numbers what the loop body step makes of what
\* they are at the set without its greatest number; the first n rounds of a loop; and
\* what follows a fold wherever the rounds stay in D.
FoldsOver(D, b, N, step) ==
  {g \in [SUBSET (1..N) -> D] :
     \A s \in SUBSET (1..N) : g[s] = IF s = {} THEN b ELSE step[<<Max(s), g[s \ {Max(s)}]>>]}
Rounds(D, b, N, step) ==
  {g \in [0..N -> D] : g[0] = b /\ \A i \in 1..N : g[i] = step[<<i, g[i-1]>>]}
Outcomes(D, b, N, step) == {g[N] : g \in Rounds(D, b, N, step)}
Follows(iter, D, b, N, step) ==
  /\ iter[{}] = b
  /\ \A s \in SUBSET (1..N) : s # {} /\ iter[s \ {Max(s)}] \in D =>
       iter[s] = step[<<Max(s), iter[s \ {Max(s)}]>>]

\* There is a fold ...
LEMMA FoldExists ==
  ASSUME NEW D, NEW b \in D, NEW N \in Nat, NEW step \in [(1..N) \X D -> D]
  PROVE  FoldsOver(D, b, N, step) # {}
<1> DEFINE Good(n) == {g \in [SUBSET (1..n) -> D] :
                         \A s \in SUBSET (1..n) :
                           g[s] = IF s = {} THEN b ELSE step[<<Max(s), g[s \ {Max(s)}]>>]}
           S == {n \in Nat : n <= N => Good(n) # {}}
<1>1. 0 \in S
  <2> DEFINE g0 == [s \in SUBSET (1..0) |-> b]
  <2>1. SUBSET (1..0) = {{}}
    OBVIOUS
  <2>2. g0 \in Good(0)
    BY <2>1
  <2> QED BY <2>2
<1>2. ASSUME NEW n \in Nat, n \in S PROVE n + 1 \in S
  <2>1. SUFFICES ASSUME n + 1 <= N PROVE Good(n+1) # {}
    <3> HIDE DEF Good
    <3> QED OBVIOUS
  <2>2. Good(n) # {}
    <3> HIDE DEF Good
    <3> QED BY <1>2, <2>1
  <2>3. PICK g \in [SUBSET (1..n) -> D] :
               \A s \in SUBSET (1..n) :
                 g[s] = IF s = {} THEN b ELSE step[<<Max(s), g[s \ {Max(s)}]>>]
    BY <2>2
  <2> DEFINE h == [s \in SUBSET (1..n+1) |-> IF n + 1 \in s THEN step[<<n+1, g[s \ {n+1}]>>]
                                             ELSE g[s]]
  <2>4. \A s \in SUBSET (1..n+1) :
          s \ {n+1} \in SUBSET (1..n) /\ (n + 1 \notin s => s \in SUBSET (1..n))
    OBVIOUS
  <2>5. n + 1 \in 1..N
    BY <2>1
  <2>6. h \in [SUBSET (1..n+1) -> D]
    BY <2>3, <2>4, <2>5
  <2>7. ASSUME NEW s \in SUBSET (1..n+1)
        PROVE  h[s] = IF s = {} THEN b ELSE step[<<Max(s), h[s \ {Max(s)}]>>]
    <3>1. CASE n + 1 \in s
      <4>1. Max(s) = n + 1
        <5>1. Max(s) \in s /\ \A y \in s : Max(s) >= y
          BY <3>1, MaxInterval, n + 1 \in Nat
        <5>2. Max(s) \in 1..n+1 /\ Max(s) >= n + 1
          BY <5>1, <3>1
        <5> QED BY <5>2
      <4>2. s \ {n + 1} \in SUBSET (1..n+1) /\ n + 1 \notin s \ {n + 1}
        OBVIOUS
      <4>3. h[s \ {n + 1}] = g[s \ {n + 1}]
        BY <4>2
      <4> QED BY <4>1, <4>3, <3>1
    <3>2. CASE n + 1 \notin s
      <4>1. s \in SUBSET (1..n)
        BY <2>4, <3>2
      <4>2. CASE s = {}
        BY <4>1, <4>2, <2>3
      <4>3. CASE s # {}
        <5>1. s \ {Max(s)} \in SUBSET (1..n) /\ n + 1 \notin s \ {Max(s)}
          BY <4>1, <3>2
        <5>2. h[s] = g[s] /\ h[s \ {Max(s)}] = g[s \ {Max(s)}]
          BY <3>2, <5>1
        <5>3. g[s] = IF s = {} THEN b ELSE step[<<Max(s), g[s \ {Max(s)}]>>]
          BY <2>3, <4>1
        <5> QED BY <5>2, <5>3
      <4> QED BY <4>2, <4>3
    <3> QED BY <3>1, <3>2
  <2>8. h \in Good(n+1)
    BY <2>6, <2>7
  <2> QED BY <2>8
<1>3. \A n \in Nat : n \in S
  <2> HIDE DEF S
  <2> QED BY <1>1, <1>2, NatSetInduction
<1>4. Good(N) # {}
  <2> HIDE DEF Good
  <2> QED BY <1>3
<1> QED
  BY <1>4 DEF FoldsOver

\* ... and what follows it is at 1..N what one comes to in N rounds.
LEMMA FoldSteps ==
  ASSUME NEW D, NEW b \in D, NEW N \in Nat, NEW step \in [(1..N) \X D -> D], NEW iter,
         Follows(iter, D, b, N, step)
  PROVE  iter[1..N] \in Outcomes(D, b, N, step)
<1>0. /\ iter[{}] = b
      /\ \A s \in SUBSET (1..N) : s # {} /\ iter[s \ {Max(s)}] \in D =>
            iter[s] = step[<<Max(s), iter[s \ {Max(s)}]>>]
  BY DEF Follows
<1> DEFINE g == [i \in 0..N |-> iter[1..i]]
           S == {n \in Nat : g[n] \in D}
<1>1. g[0] = b
  <2>1. 1..0 = {}
    OBVIOUS
  <2> QED BY <1>0, <2>1
<1>2. ASSUME NEW n \in 1..N, g[n-1] \in D
      PROVE  g[n] = step[<<n, g[n-1]>>]
  <2>1. 1..n \in SUBSET (1..N) /\ 1..n # {} /\ n \in 1..n
    OBVIOUS
  <2>2. Max(1..n) = n
    <3>1. Max(1..n) \in 1..n /\ \A y \in 1..n : Max(1..n) >= y
      BY <2>1, MaxInterval
    <3> QED BY <3>1, <2>1
  <2>3. (1..n) \ {n} = 1..(n-1)
    OBVIOUS
  <2>4. g[n-1] = iter[1..(n-1)] /\ g[n] = iter[1..n]
    OBVIOUS
  <2> QED
    BY <1>0, <1>2, <2>1, <2>2, <2>3, <2>4
<1>3. 0 \in S
  BY <1>1
<1>4. ASSUME NEW n \in 0..N-1, n \in S PROVE n + 1 \in S
  <2>1. g[n+1] = step[<<n + 1, g[n]>>]
    <3>1. n + 1 \in 1..N /\ (n + 1) - 1 = n /\ g[n] \in D
      BY <1>4
    <3> HIDE DEF g
    <3> QED BY <3>1, <1>2
  <2>2. <<n + 1, g[n]>> \in (1..N) \X D
    BY <1>4
  <2> QED
    BY <2>1, <2>2
<1>5. \A n \in 0..N : n \in S
  <2> HIDE DEF S
  <2> QED BY <1>3, <1>4, IntervalInduction
<1>6. g \in [0..N -> D]
  BY <1>5
<1>7. ASSUME NEW i \in 1..N PROVE g[i] = step[<<i, g[i-1]>>]
  <2>1. i - 1 \in 0..N
    OBVIOUS
  <2>2. g[i-1] \in D
    BY <1>6, <2>1
  <2> HIDE DEF g
  <2> QED BY <1>2, <2>2
<1>8. iter[1..N] = g[N]
  OBVIOUS
<1> QED
  <2> HIDE DEF g
  <2> QED BY <1>1, <1>6, <1>7, <1>8 DEF Rounds, Outcomes

\* A loop over a sequence has seen one element more after each round.
LEMMA Prefix ==
  ASSUME NEW T, NEW s \in Seq(T), NEW n \in 0..Len(s)-1
  PROVE  /\ SubSeq(s, 1, n) \in Seq(T) /\ s[n+1] \in T
         /\ SubSeq(s, 1, n+1) = Append(SubSeq(s, 1, n), s[n+1])
<1>1. Len(s) \in Nat /\ n \in Nat /\ n + 1 \in 1..Len(s)
  OBVIOUS
<1> QED
  BY <1>1

\* What solves a recursion over A, and that the equation of a looks at nothing but
\* what is smaller.
Solutions(A, D, step) == {g \in [A -> D] : \A a \in A : g[a] = step[<<a, g>>]}
Descends(A, D, size, step) ==
  \A a \in A : \A g, h \in [A -> D] :
    (\A b \in A : size[b] < size[a] => g[b] = h[b]) => step[<<a, g>>] = step[<<a, h>>]

\* A recursion that descends has a solution: there is one for what is smaller than
\* n, for each n, and they agree.
LEMMA RecursionExists ==
  ASSUME NEW A, NEW D, D # {}, NEW size \in [A -> Nat], NEW step \in [A \X [A -> D] -> D],
         Descends(A, D, size, step)
  PROVE  Solutions(A, D, step) # {}
<1> DEFINE Below(n) == {g \in [A -> D] : \A a \in A : size[a] < n => g[a] = step[<<a, g>>]}
<1>0. ASSUME NEW a \in A, NEW g \in [A -> D], NEW h \in [A -> D],
             \A b \in A : size[b] < size[a] => g[b] = h[b]
      PROVE  step[<<a, g>>] = step[<<a, h>>]
  BY <1>0 DEF Descends
<1>1. \A n \in Nat : Below(n) # {}
  <2> DEFINE S == {n \in Nat : Below(n) # {}}
  <2>1. 0 \in S
    <3>1. PICK d \in D : TRUE
      OBVIOUS
    <3>2. [a \in A |-> d] \in Below(0)
      OBVIOUS
    <3> QED BY <3>2
  <2>2. ASSUME NEW n \in Nat, n \in S PROVE n + 1 \in S
    <3>1. PICK g \in [A -> D] : \A a \in A : size[a] < n => g[a] = step[<<a, g>>]
      BY <2>2
    <3> DEFINE h == [a \in A |-> IF size[a] = n THEN step[<<a, g>>] ELSE g[a]]
    <3>2. h \in [A -> D]
      OBVIOUS
    <3>3. ASSUME NEW a \in A, size[a] < n + 1 PROVE h[a] = step[<<a, h>>]
      <4>1. \A b \in A : size[b] < size[a] => g[b] = h[b]
        BY <3>3
      <4>2. step[<<a, g>>] = step[<<a, h>>]
        <5> HIDE DEF h, Below
        <5>1. g \in [A -> D]
          OBVIOUS
        <5>2. \A f \in [A -> D] :
                (\A b \in A : size[b] < size[a] => g[b] = f[b]) => step[<<a, g>>] = step[<<a, f>>]
          <6> HIDE DEF Descends
          <6> QED BY <1>0, <5>1
        <5> QED BY <3>2, <4>1, <5>2
      <4>3. h[a] = step[<<a, g>>]
        <5>1. h[a] = IF size[a] = n THEN step[<<a, g>>] ELSE g[a]
          OBVIOUS
        <5>2. size[a] = n \/ size[a] < n
          <6>1. size[a] \in Nat
            OBVIOUS
          <6> HIDE DEF h, Below
          <6> QED BY <3>3, <6>1
        <5> HIDE DEF h
        <5> QED BY <3>1, <5>1, <5>2
      <4> QED BY <4>2, <4>3
    <3>4. h \in Below(n + 1)
      <4> HIDE DEF h
      <4> QED BY <3>2, <3>3
    <3> HIDE DEF Below, h
    <3> QED BY <3>4
  <2>3. \A n \in Nat : n \in S
    <3> HIDE DEF S
    <3> QED BY <2>1, <2>2, NatSetInduction
  <2> QED BY <2>3
<1>2. ASSUME NEW m \in Nat, NEW k \in Nat, NEW g \in Below(m), NEW h \in Below(k)
      PROVE  \A a \in A : size[a] < m /\ size[a] < k => g[a] = h[a]
  <2> DEFINE S == {n \in Nat : \A a \in A : size[a] < n /\ size[a] < m /\ size[a] < k => g[a] = h[a]}
  <2>1. 0 \in S
    OBVIOUS
  <2>2. ASSUME NEW n \in Nat, n \in S PROVE n + 1 \in S
    <3>1. SUFFICES ASSUME NEW a \in A, size[a] < n + 1, size[a] < m, size[a] < k
                   PROVE  g[a] = h[a]
      OBVIOUS
    <3>2. \A b \in A : size[b] < size[a] => g[b] = h[b]
      BY <2>2, <3>1
    <3>3. g \in [A -> D] /\ h \in [A -> D]
      OBVIOUS
    <3>4. step[<<a, g>>] = step[<<a, h>>]
      BY <1>0, <3>2, <3>3
    <3> QED BY <3>1, <3>4
  <2>3. \A n \in Nat : n \in S
    <3> HIDE DEF S
    <3> QED BY <2>1, <2>2, NatSetInduction
  <2>4. \A a \in A : size[a] + 1 \in S /\ size[a] < size[a] + 1
    BY <2>3
  <2> QED BY <2>4
<1> DEFINE part(n) == CHOOSE g \in Below(n) : TRUE
           f == [a \in A |-> part(size[a] + 1)[a]]
<1>3. \A n \in Nat : part(n) \in Below(n)
  BY <1>1
<1>4. \A n \in Nat : part(n) \in [A -> D]
  BY <1>3
<1>5. f \in [A -> D]
  <2>1. \A a \in A : size[a] + 1 \in Nat
    OBVIOUS
  <2> HIDE DEF part
  <2> QED BY <1>4, <2>1
<1>6. ASSUME NEW a \in A PROVE f[a] = step[<<a, f>>]
  <2> DEFINE n == size[a] + 1
  <2>1. n \in Nat /\ size[a] < n
    OBVIOUS
  <2>2. \A b \in A : size[b] < size[a] => f[b] = part(n)[b]
    <3>1. SUFFICES ASSUME NEW b \in A, size[b] < size[a] PROVE part(size[b] + 1)[b] = part(n)[b]
      OBVIOUS
    <3>2. size[b] + 1 \in Nat /\ size[b] < size[b] + 1 /\ size[b] < n
      BY <3>1
    <3>3. part(size[b] + 1) \in Below(size[b] + 1) /\ part(n) \in Below(n)
      BY <1>3, <2>1, <3>2
    <3> HIDE DEF part, Below, n
    <3> QED BY <1>2, <2>1, <3>2, <3>3
  <2>3. f[a] = part(n)[a]
    OBVIOUS
  <2>4. part(n)[a] = step[<<a, part(n)>>]
    <3>1. part(n) \in Below(n)
      BY <1>3, <2>1
    <3> HIDE DEF part
    <3> QED BY <2>1, <3>1
  <2>5. step[<<a, part(n)>>] = step[<<a, f>>]
    <3>1. part(n) \in [A -> D]
      BY <1>4, <2>1
    <3> HIDE DEF part, n, f
    <3> QED BY <1>0, <1>5, <2>2, <3>1
  <2> HIDE DEF f, part, n
  <2> QED BY <2>3, <2>4, <2>5
<1>7. f \in Solutions(A, D, step)
  <2> HIDE DEF f
  <2> QED BY <1>5, <1>6 DEF Solutions
<1> QED
  BY <1>7

\* The same for a loop over a sequence whose body, step, makes of what has been
\* collected in D and the next element what is collected then: the functions FoldLeft
\* chooses from, what follows one wherever it is in D, and the values in the rounds.
IsLoop(g, D, b, seq, step) ==
  /\ g \in [SUBSET DOMAIN seq -> D]
  /\ \A s \in SUBSET DOMAIN seq :
       g[s] = IF s = {} THEN b ELSE step[<<g[s \ {Max(s)}], seq[Max(s)]>>]
Iterates(iter, D, b, seq, step) ==
  /\ iter[{}] = b
  /\ \A s \in SUBSET DOMAIN seq : s # {} /\ iter[s \ {Max(s)}] \in D =>
       iter[s] = step[<<iter[s \ {Max(s)}], seq[Max(s)]>>]
Runs(D, b, seq, step) ==
  {h \in [0..Len(seq) -> D] : h[0] = b /\ \A i \in 1..Len(seq) : h[i] = step[<<h[i-1], seq[i]>>]}
Ends(D, b, seq, step) == {h[Len(seq)] : h \in Runs(D, b, seq, step)}

\* The places of a sequence that a loop looks at.
LEMMA LoopPoints ==
  ASSUME NEW T, NEW seq \in Seq(T), NEW s \in SUBSET DOMAIN seq, s # {}
  PROVE  Max(s) \in DOMAIN seq /\ seq[Max(s)] \in T /\ s \ {Max(s)} \in SUBSET DOMAIN seq
<1>1. Len(seq) \in Nat /\ DOMAIN seq = 1..Len(seq) /\ \A i \in DOMAIN seq : seq[i] \in T
  OBVIOUS
<1>2. Max(s) \in DOMAIN seq
  BY <1>1, MaxInterval
<1> QED BY <1>1, <1>2

LEMMA LoopExists ==
  ASSUME NEW D, NEW T, NEW b \in D, NEW seq \in Seq(T), NEW step \in [D \X T -> D]
  PROVE  \E g : IsLoop(g, D, b, seq, step)
<1> DEFINE N == Len(seq)
           at == [each \in (1..N) \X D |-> step[<<each[2], seq[each[1]]>>]]
<1>1. N \in Nat /\ DOMAIN seq = 1..N /\ \A i \in 1..N : seq[i] \in T
  OBVIOUS
<1>2. at \in [(1..N) \X D -> D]
  <2> HIDE DEF N
  <2> QED BY <1>1
<1>3. PICK g \in [SUBSET (1..N) -> D] :
             \A s \in SUBSET (1..N) : g[s] = IF s = {} THEN b ELSE at[<<Max(s), g[s \ {Max(s)}]>>]
  <2> HIDE DEF at, N
  <2>1. FoldsOver(D, b, N, at) # {}
    BY <1>1, <1>2, FoldExists
  <2> QED BY <2>1 DEF FoldsOver
<1>4. ASSUME NEW s \in SUBSET (1..N)
      PROVE  g[s] = IF s = {} THEN b ELSE step[<<g[s \ {Max(s)}], seq[Max(s)]>>]
  <2>1. CASE s = {}
    BY <1>3, <2>1
  <2>2. CASE s # {}
    <3>1. Max(s) \in 1..N /\ g[s \ {Max(s)}] \in D
      <4> HIDE DEF N
      <4> QED BY <1>1, <1>3, <2>2, LoopPoints
    <3>2. \A i \in 1..N, d \in D : at[<<i, d>>] = step[<<d, seq[i]>>]
      OBVIOUS
    <3> HIDE DEF at, N
    <3> QED BY <1>3, <2>2, <3>1, <3>2
  <2> QED BY <2>1, <2>2
<1> HIDE DEF N
<1> QED BY <1>1, <1>3, <1>4 DEF IsLoop

LEMMA LoopRuns ==
  ASSUME NEW D, NEW T, NEW b \in D, NEW seq \in Seq(T), NEW step \in [D \X T -> D], NEW iter,
         Iterates(iter, D, b, seq, step)
  PROVE  iter[DOMAIN seq] \in Ends(D, b, seq, step)
<1> DEFINE N == Len(seq)
           at == [each \in (1..N) \X D |-> step[<<each[2], seq[each[1]]>>]]
<1>1. N \in Nat /\ DOMAIN seq = 1..N /\ \A i \in 1..N : seq[i] \in T
  OBVIOUS
<1>2. at \in [(1..N) \X D -> D]
  <2> HIDE DEF N
  <2> QED BY <1>1
<1>3. \A i \in 1..N, d \in D : at[<<i, d>>] = step[<<d, seq[i]>>]
  OBVIOUS
<1>4. Follows(iter, D, b, N, at)
  <2>1. ASSUME NEW s \in SUBSET (1..N), s # {}, iter[s \ {Max(s)}] \in D
        PROVE  iter[s] = at[<<Max(s), iter[s \ {Max(s)}]>>]
    <3>1. Max(s) \in 1..N
      <4> HIDE DEF N
      <4> QED BY <1>1, <2>1, LoopPoints
    <3> HIDE DEF at, N
    <3> QED BY <1>1, <1>3, <2>1, <3>1 DEF Iterates
  <2> HIDE DEF at, N
  <2> QED BY <2>1 DEF Follows, Iterates
<1>5. PICK h \in Rounds(D, b, N, at) : iter[1..N] = h[N]
  <2> HIDE DEF at, N
  <2>1. iter[1..N] \in Outcomes(D, b, N, at)
    BY <1>1, <1>2, <1>4, FoldSteps
  <2> QED BY <2>1 DEF Outcomes
<1>6. h \in Runs(D, b, seq, step)
  <2>1. h \in [0..N -> D] /\ h[0] = b /\ \A i \in 1..N : h[i] = at[<<i, h[i-1]>>]
    <3> HIDE DEF at, N
    <3> QED BY <1>5 DEF Rounds
  <2>2. \A i \in 1..N : i - 1 \in 0..N
    <3> HIDE DEF N
    <3> QED BY <1>1
  <2>3. \A i \in 1..N : h[i] = step[<<h[i-1], seq[i]>>]
    <3> HIDE DEF at, N
    <3> QED BY <1>3, <2>1, <2>2
  <2> HIDE DEF at
  <2> QED BY <2>1, <2>3 DEF Runs
<1> HIDE DEF at, N
<1> QED BY <1>1, <1>5, <1>6 DEF N, Ends

\* What holds of the first value and is kept by every round holds of the last.
LEMMA RunInduction ==
  ASSUME NEW S, NEW N \in Nat, NEW h, h[0] \in S, \A i \in 1..N : h[i-1] \in S => h[i] \in S
  PROVE  \A i \in 0..N : h[i] \in S
<1> DEFINE good == {i \in Nat : h[i] \in S}
<1>1. 0 \in good
  OBVIOUS
<1>2. \A n \in 0..N-1 : n \in good => n + 1 \in good
  <2>1. ASSUME NEW n \in 0..N-1, n \in good PROVE n + 1 \in good
    <3>1. n + 1 \in 1..N /\ (n + 1) - 1 = n
      OBVIOUS
    <3> QED BY <2>1, <3>1
  <2> QED BY <2>1
<1>3. \A n \in 0..N : n \in good
  <2> HIDE DEF good
  <2> QED BY <1>1, <1>2, IntervalInduction
<1> QED BY <1>3

\* Two sequences, one behind the other.
LEMMA Concatenation ==
  ASSUME NEW T, NEW s \in Seq(T), NEW t \in Seq(T)
  PROVE  /\ s \o t \in Seq(T) /\ Len(s \o t) = Len(s) + Len(t)
         /\ \A i \in DOMAIN s : i \in DOMAIN (s \o t) /\ (s \o t)[i] = s[i]
         /\ \A i \in DOMAIN t : Len(s) + i \in DOMAIN (s \o t) /\ (s \o t)[Len(s) + i] = t[i]
         /\ \A i \in DOMAIN (s \o t) : i \in DOMAIN s \/ (i - Len(s) \in DOMAIN t /\ i = Len(s) + (i - Len(s)))
         /\ ToSet(s \o t) = ToSet(s) \cup ToSet(t)
<1>1. s \o t \in Seq(T) /\ Len(s \o t) = Len(s) + Len(t)
  OBVIOUS
<1>2. /\ DOMAIN s = 1..Len(s) /\ DOMAIN t = 1..Len(t) /\ DOMAIN (s \o t) = 1..(Len(s) + Len(t))
      /\ Len(s) \in Nat /\ Len(t) \in Nat
  OBVIOUS
<1>3. \A i \in DOMAIN s : i \in DOMAIN (s \o t) /\ (s \o t)[i] = s[i]
  OBVIOUS
<1>4. \A i \in DOMAIN t : Len(s) + i \in DOMAIN (s \o t) /\ (s \o t)[Len(s) + i] = t[i]
  OBVIOUS
<1>5. \A i \in DOMAIN (s \o t) : i \in DOMAIN s \/ (i - Len(s) \in DOMAIN t /\ i = Len(s) + (i - Len(s)))
  BY <1>2
<1>6. ToSet(s \o t) = ToSet(s) \cup ToSet(t)
  <2> DEFINE r == s \o t
  <2>1. /\ \A i \in DOMAIN s : i \in DOMAIN r /\ r[i] = s[i]
        /\ \A i \in DOMAIN t : Len(s) + i \in DOMAIN r /\ r[Len(s) + i] = t[i]
        /\ \A i \in DOMAIN r : i \in DOMAIN s \/ (i - Len(s) \in DOMAIN t /\ r[i] = t[i - Len(s)])
    BY <1>3, <1>4, <1>5
  <2> HIDE DEF r
  <2>2. ToSet(r) = ToSet(s) \cup ToSet(t)
    <3>1. ASSUME NEW x \in ToSet(r) PROVE x \in ToSet(s) \cup ToSet(t)
      <4>1. PICK i \in DOMAIN r : x = r[i]
        BY <3>1 DEF ToSet
      <4> QED BY <2>1, <4>1 DEF ToSet
    <3>2. ASSUME NEW x \in ToSet(s) PROVE x \in ToSet(r)
      BY <2>1, <3>2 DEF ToSet
    <3>3. ASSUME NEW x \in ToSet(t) PROVE x \in ToSet(r)
      BY <2>1, <3>3 DEF ToSet
    <3> QED BY <3>1, <3>2, <3>3
  <2> QED BY <2>2 DEF r
<1> QED BY <1>1, <1>3, <1>4, <1>5, <1>6

\* FlattenSeq puts one sequence after the other behind those before it.
LEMMA FlattenRounds ==
  ASSUME NEW T, NEW seqs \in Seq(Seq(T))
  PROVE  \E h \in [0..Len(seqs) -> Seq(T)] :
           /\ h[0] = <<>> /\ \A i \in 1..Len(seqs) : h[i] = h[i-1] \o seqs[i]
           /\ FlattenSeq(seqs) = h[Len(seqs)]
<1> DEFINE N == Len(seqs)
           A == 1..N
           D == Seq(T)
           size == [i \in A |-> i]
           Joined(i, f) == IF i = 1 THEN seqs[i] ELSE f[i-1] \o seqs[i]
           step == [each \in A \X [A -> D] |-> Joined(each[1], each[2])]
           flatten == CHOOSE f : f = [i \in A |-> Joined(i, f)]
           h == [i \in 0..N |-> IF i = 0 THEN <<>> ELSE flatten[i]]
<1>1. N \in Nat /\ DOMAIN seqs = A /\ \A i \in A : seqs[i] \in D
  OBVIOUS
<1>2. \A i \in A : i # 1 => i - 1 \in A /\ i - 1 < i
  <2> HIDE DEF N
  <2> QED BY <1>1
<1>3. \A s, t \in D : s \o t \in D
  BY Concatenation
<1>4. step \in [A \X [A -> D] -> D]
  <2>1. ASSUME NEW i \in A, NEW f \in [A -> D] PROVE Joined(i, f) \in D
    <3> HIDE DEF A, D
    <3> QED BY <1>1, <1>2, <1>3, <2>1
  <2> HIDE DEF A, D, Joined
  <2> QED BY <2>1
<1>5. Descends(A, D, size, step)
  <2>1. ASSUME NEW i \in A, NEW f \in [A -> D], NEW g \in [A -> D],
               \A j \in A : size[j] < size[i] => f[j] = g[j]
        PROVE  step[<<i, f>>] = step[<<i, g>>]
    <3>1. Joined(i, f) = Joined(i, g)
      BY <1>2, <2>1
    <3> HIDE DEF A, D, Joined
    <3> QED BY <3>1
  <2> HIDE DEF A, D, Joined, step, size
  <2> QED BY <2>1 DEF Descends
<1>6. PICK g \in [A -> D] : \A i \in A : g[i] = step[<<i, g>>]
  <2>1. size \in [A -> Nat] /\ D # {}
    <3>1. \A i \in A : i \in Nat
      OBVIOUS
    <3>2. <<>> \in D
      OBVIOUS
    <3> HIDE DEF A, D
    <3> QED BY <3>1, <3>2
  <2> HIDE DEF A, D, size, step
  <2>2. Solutions(A, D, step) # {}
    BY <1>4, <1>5, <2>1, RecursionExists
  <2> QED BY <2>2 DEF Solutions
<1>7. g = [i \in A |-> Joined(i, g)]
  <2> HIDE DEF A, D, Joined
  <2> QED BY <1>6
<1>8. flatten = [i \in A |-> Joined(i, flatten)]
  <2> HIDE DEF A, D, Joined
  <2> QED BY <1>7
<1> HIDE DEF flatten
<1>9. N # 0 => FlattenSeq(seqs) = flatten[N]
  BY DEF FlattenSeq, flatten
<1>10. \A i \in 1..N : h[i-1] \in D => h[i] = h[i-1] \o seqs[i]
  <2>1. ASSUME NEW i \in A, h[i-1] \in D PROVE h[i] = h[i-1] \o seqs[i]
    <3>1. h[i] = Joined(i, flatten)
      <4>1. i \in 0..N /\ i # 0
        BY <1>1
      <4> HIDE DEF Joined
      <4> QED BY <1>8, <4>1
    <3>2. CASE i = 1
      <4>1. h[i-1] = <<>> /\ seqs[i] \in D
        BY <1>1, <3>2
      <4>2. \A s \in D : <<>> \o s = s
        OBVIOUS
      <4> QED BY <3>1, <3>2, <4>1, <4>2
    <3>3. CASE i # 1
      <4>1. i - 1 \in 0..N /\ i - 1 # 0
        BY <1>1, <3>3
      <4> QED BY <3>1, <3>3, <4>1
    <3> QED BY <3>2, <3>3
  <2> QED BY <2>1
<1>11. h[0] = <<>> /\ <<>> \in D
  BY <1>1
<1>12. \A i \in 0..N : h[i] \in D
  <2>1. \A i \in 1..N : h[i-1] \in D => h[i] \in D
    <3> HIDE DEF h, D
    <3> QED BY <1>1, <1>3, <1>10
  <2> HIDE DEF h, N, D
  <2> QED BY <1>1, <1>11, <2>1, RunInduction
<1>13. \A i \in 1..N : h[i] = h[i-1] \o seqs[i]
  <2>1. \A i \in 1..N : i - 1 \in 0..N
    BY <1>1
  <2> HIDE DEF h, D, N
  <2> QED BY <1>10, <1>12, <2>1
<1>14. h \in [0..N -> D]
  <2> HIDE DEF D, N
  <2> QED BY <1>12
<1>15. FlattenSeq(seqs) = h[N]
  <2>1. CASE N = 0
    <3>1. seqs = <<>> /\ FlattenSeq(seqs) = seqs
      BY <2>1 DEF FlattenSeq
    <3> QED BY <1>11, <2>1, <3>1
  <2>2. CASE N # 0
    <3> HIDE DEF N
    <3> QED BY <1>1, <1>9, <2>2
  <2> QED BY <2>1, <2>2
<1> HIDE DEF h, D
<1> QED BY <1>11, <1>13, <1>14, <1>15 DEF D

\* So it is a sequence of the elements of all of them, ...
LEMMA FlattenType ==
  ASSUME NEW T, NEW seqs \in Seq(Seq(T))
  PROVE  /\ FlattenSeq(seqs) \in Seq(T)
         /\ ToSet(FlattenSeq(seqs)) = UNION {ToSet(seqs[i]) : i \in DOMAIN seqs}
<1> DEFINE N == Len(seqs)
           D == Seq(T)
<1>1. N \in Nat /\ DOMAIN seqs = 1..N /\ \A i \in 1..N : seqs[i] \in D
  OBVIOUS
<1>2. PICK h \in [0..N -> D] : /\ h[0] = <<>> /\ \A i \in 1..N : h[i] = h[i-1] \o seqs[i]
                               /\ FlattenSeq(seqs) = h[N]
  BY FlattenRounds
<1> HIDE DEF N, D
<1> DEFINE S == {n \in Nat : ToSet(h[n]) = UNION {ToSet(seqs[i]) : i \in 1..n}}
<1>3. 0 \in S
  <2>1. 1..0 = {} /\ DOMAIN <<>> = {}
    OBVIOUS
  <2> QED BY <1>2, <2>1 DEF ToSet
<1>4. ASSUME NEW n \in 0..N-1, n \in S PROVE n + 1 \in S
  <2>1. n + 1 \in 1..N /\ (n + 1) - 1 = n /\ n \in 0..N /\ 1..n+1 = (1..n) \cup {n+1}
    BY <1>1
  <2>2. h[n+1] = h[n] \o seqs[n+1] /\ h[n] \in Seq(T) /\ seqs[n+1] \in Seq(T)
    BY <1>1, <1>2, <2>1 DEF D
  <2>3. ToSet(h[n+1]) = ToSet(h[n]) \cup ToSet(seqs[n+1])
    BY <2>2, Concatenation
  <2>4. UNION {ToSet(seqs[i]) : i \in 1..n+1} = (UNION {ToSet(seqs[i]) : i \in 1..n}) \cup ToSet(seqs[n+1])
    BY <2>1
  <2>5. ToSet(h[n]) = UNION {ToSet(seqs[i]) : i \in 1..n}
    BY <1>4
  <2>6. ToSet(h[n+1]) = UNION {ToSet(seqs[i]) : i \in 1..n+1}
    BY <2>3, <2>4, <2>5
  <2> QED BY <2>1, <2>6
<1>5. \A n \in 0..N : n \in S
  <2> HIDE DEF S
  <2> QED BY <1>1, <1>3, <1>4, IntervalInduction
<1>6. N \in 0..N
  BY <1>1
<1> QED BY <1>1, <1>2, <1>5, <1>6 DEF D

\* ... in their order: of two places the one before is in a sequence before, or before
\* the other one in the same.
LEMMA FlattenOrder ==
  ASSUME NEW T, NEW seqs \in Seq(Seq(T)), NEW i \in DOMAIN FlattenSeq(seqs),
         NEW k \in DOMAIN FlattenSeq(seqs), i < k
  PROVE  \E x, y \in DOMAIN seqs : \E u \in DOMAIN seqs[x], v \in DOMAIN seqs[y] :
           /\ FlattenSeq(seqs)[i] = seqs[x][u] /\ FlattenSeq(seqs)[k] = seqs[y][v]
           /\ x < y \/ (x = y /\ u < v)
<1> DEFINE N == Len(seqs)
           D == Seq(T)
<1>1. N \in Nat /\ DOMAIN seqs = 1..N /\ \A x \in 1..N : seqs[x] \in D
  OBVIOUS
<1>2. PICK h \in [0..N -> D] : /\ h[0] = <<>> /\ \A x \in 1..N : h[x] = h[x-1] \o seqs[x]
                               /\ FlattenSeq(seqs) = h[N]
  BY FlattenRounds
<1> HIDE DEF N, D
<1> DEFINE One(n) == \A a \in DOMAIN h[n] : \E x \in 1..n : \E u \in DOMAIN seqs[x] : h[n][a] = seqs[x][u]
           Two(n) == \A a, b \in DOMAIN h[n] : a < b =>
             \E x, y \in 1..n : \E u \in DOMAIN seqs[x], v \in DOMAIN seqs[y] :
               /\ h[n][a] = seqs[x][u] /\ h[n][b] = seqs[y][v]
               /\ x < y \/ (x = y /\ u < v)
           S == {n \in Nat : One(n) /\ Two(n)}
<1>3. 0 \in S
  <2>1. DOMAIN h[0] = {}
    BY <1>2
  <2> QED BY <2>1
<1>4. ASSUME NEW n \in 0..N-1, n \in S PROVE n + 1 \in S
  <2> DEFINE s == h[n]
             t == seqs[n+1]
             m == Len(s)
             r == h[n+1]
  <2>1. n + 1 \in 1..N /\ (n + 1) - 1 = n /\ n \in 0..N /\ \A x \in 1..n : x \in 1..n+1 /\ x < n + 1
    BY <1>1
  <2>2. r = s \o t /\ s \in Seq(T) /\ t \in Seq(T)
    BY <1>1, <1>2, <2>1 DEF D
  <2>3. /\ \A a \in DOMAIN s : r[a] = s[a]
        /\ \A a \in DOMAIN t : r[m + a] = t[a]
        /\ \A a \in DOMAIN r : a \in DOMAIN s \/ (a - m \in DOMAIN t /\ a = m + (a - m))
        /\ DOMAIN s = 1..m /\ DOMAIN t = 1..Len(t) /\ m \in Nat /\ Len(t) \in Nat
    <3> HIDE DEF r, s, t
    <3>1. /\ \A a \in DOMAIN s : (s \o t)[a] = s[a]
          /\ \A a \in DOMAIN t : (s \o t)[m + a] = t[a]
          /\ \A a \in DOMAIN (s \o t) : a \in DOMAIN s \/ (a - m \in DOMAIN t /\ a = m + (a - m))
      BY <2>2, Concatenation
    <3>2. DOMAIN s = 1..m /\ DOMAIN t = 1..Len(t) /\ m \in Nat /\ Len(t) \in Nat
      BY <2>2
    <3> HIDE DEF m
    <3> QED BY <2>2, <3>1, <3>2
  <2>4. One(n) /\ Two(n)
    BY <1>4
  <2>5. n + 1 \in 1..n+1
    BY <2>1
  <2> HIDE DEF r, s, t, m
  <2>6. ASSUME NEW a \in DOMAIN r PROVE \E x \in 1..n+1 : \E u \in DOMAIN seqs[x] : r[a] = seqs[x][u]
    <3>1. CASE a \in DOMAIN s
      <4>1. PICK x \in 1..n : \E u \in DOMAIN seqs[x] : s[a] = seqs[x][u]
        BY <2>4, <3>1 DEF s
      <4>2. r[a] = s[a] /\ x \in 1..n+1
        BY <2>1, <2>3, <3>1
      <4> QED BY <4>1, <4>2
    <3>2. CASE a \notin DOMAIN s
      <4>1. a - m \in DOMAIN t /\ r[a] = t[a - m]
        BY <2>3, <3>2
      <4> QED BY <2>5, <4>1 DEF t
    <3> QED BY <3>1, <3>2
  <2>7. ASSUME NEW a \in DOMAIN r, NEW b \in DOMAIN r, a < b
        PROVE  \E x, y \in 1..n+1 : \E u \in DOMAIN seqs[x], v \in DOMAIN seqs[y] :
                 /\ r[a] = seqs[x][u] /\ r[b] = seqs[y][v]
                 /\ x < y \/ (x = y /\ u < v)
    <3>1. CASE a \in DOMAIN s /\ b \in DOMAIN s
      <4>1. \E x, y \in 1..n : \E u \in DOMAIN seqs[x], v \in DOMAIN seqs[y] :
               /\ s[a] = seqs[x][u] /\ s[b] = seqs[y][v]
               /\ x < y \/ (x = y /\ u < v)
        <5>1. Two(n) /\ a \in DOMAIN h[n] /\ b \in DOMAIN h[n] /\ a < b
          BY <2>4, <2>7, <3>1 DEF s
        <5>2. \E x, y \in 1..n : \E u \in DOMAIN seqs[x], v \in DOMAIN seqs[y] :
                 /\ h[n][a] = seqs[x][u] /\ h[n][b] = seqs[y][v]
                 /\ x < y \/ (x = y /\ u < v)
          BY <5>1
        <5> QED BY <5>2 DEF s
      <4> QED BY <2>1, <2>3, <3>1, <4>1
    <3>2. CASE a \in DOMAIN s /\ b \notin DOMAIN s
      <4>1. b - m \in DOMAIN t /\ r[b] = t[b - m]
        BY <2>3, <3>2
      <4>2. PICK x \in 1..n : \E u \in DOMAIN seqs[x] : s[a] = seqs[x][u]
        BY <2>4, <3>2 DEF s
      <4>3. r[a] = s[a] /\ x \in 1..n+1 /\ x < n + 1
        BY <2>1, <2>3, <3>2
      <4> QED BY <2>5, <4>1, <4>2, <4>3 DEF t
    <3>3. CASE a \notin DOMAIN s
      <4>1. /\ a - m \in DOMAIN t /\ r[a] = t[a - m] /\ a \in Int /\ a > m
        BY <2>3, <3>3
      <4>2. b \notin DOMAIN s
        BY <2>3, <2>7, <4>1
      <4>3. /\ b - m \in DOMAIN t /\ r[b] = t[b - m] /\ b \in Int
        BY <2>3, <4>2
      <4>4. a - m < b - m
        BY <2>3, <2>7, <4>1, <4>3
      <4> QED BY <2>5, <4>1, <4>3, <4>4 DEF t
    <3> QED BY <3>1, <3>2, <3>3
  <2> QED BY <2>6, <2>7 DEF r
<1>5. \A n \in 0..N : n \in S
  <2> HIDE DEF S
  <2> QED BY <1>1, <1>3, <1>4, IntervalInduction
<1>6. N \in 0..N /\ N \in S
  BY <1>1, <1>5
<1>7. Two(N)
  BY <1>6
<1>8. \E x, y \in 1..N : \E u \in DOMAIN seqs[x], v \in DOMAIN seqs[y] :
        /\ h[N][i] = seqs[x][u] /\ h[N][k] = seqs[y][v]
        /\ x < y \/ (x = y /\ u < v)
  <2>1. i \in DOMAIN h[N] /\ k \in DOMAIN h[N] /\ i < k
    BY <1>2
  <2> HIDE DEF S
  <2> QED BY <1>7, <2>1
<1> HIDE DEF Two, One, S
<1> QED BY <1>1, <1>2, <1>8
=============================================================================
