------------------------------ MODULE Induction ------------------------------
(***************************************************************************)
(* Induction over numbers, sequences and finite sets, and the functions    *)
(* defined by recursion over numbers.  What is proved by induction is a    *)
(* set here, that of the arguments it holds of, and a recursion is given   *)
(* by its step as a function, so that the lemmas take no operators.        *)
(***************************************************************************)
EXTENDS Integers, Sequences, FiniteSets, FiniteSetTheorems, SequenceTheorems,
        WellFoundedInduction, TLAPS

\* A set of numbers with 0 and the successors of its members.
LEMMA NatSetInduction ==
    ASSUME NEW Q, 0 \in Q, \A n \in Nat : n \in Q => n + 1 \in Q
    PROVE  Nat \subseteq Q
<1> DEFINE Less == OpToRel(<, Nat)
<1>1. \A x, y \in Nat : <<x, y>> \in Less <=> x < y
    BY DEF OpToRel
<1>2. IsWellFoundedOn(Less, Nat)
    BY NatLessThanWellFounded
<1> HIDE DEF Less
<1> SUFFICES ASSUME Nat \ Q # {} PROVE FALSE
    OBVIOUS
<1>3. PICK m \in Nat \ Q : \A y \in Nat \ Q : ~(<<y, m>> \in Less)
    BY <1>2, WFMin
<1>4. m # 0 /\ m \in Nat
    BY <1>3
<1>5. m - 1 \in Nat /\ m - 1 < m
    BY <1>4
<1>6. m - 1 \in Q
    BY <1>1, <1>3, <1>5
<1>7. (m - 1) + 1 \in Q
    BY <1>5, <1>6
<1> QED BY <1>3, <1>4, <1>7

\* A set of sequences with the empty one and the extensions of its members.
LEMMA SeqSetInduction ==
    ASSUME NEW S, NEW Q, <<>> \in Q,
           \A q \in Seq(S), e \in S : q \in Q => Append(q, e) \in Q
    PROVE  Seq(S) \subseteq Q
<1> DEFINE N == {n \in Nat : \A q \in Seq(S) : Len(q) = n => q \in Q}
<1>1. 0 \in N
  <2>1. \A q \in Seq(S) : Len(q) = 0 => q = <<>>
    BY EmptySeq
  <2> QED BY <2>1
<1>2. ASSUME NEW n \in Nat, n \in N PROVE n + 1 \in N
  <2>1. ASSUME NEW q \in Seq(S), Len(q) = n + 1 PROVE q \in Q
    <3> DEFINE p == SubSeq(q, 1, n)
    <3>1. \A i \in 1 .. n : q[i] \in S
      BY <2>1, ElementOfSeq
    <3>2. p \in Seq(S) /\ Len(p) = n /\ \A i \in 1 .. n : p[i] = q[i]
      BY <3>1, SubSeqProperties
    <3> HIDE DEF p
    <3>3. q[n + 1] \in S
      BY <2>1, ElementOfSeq
    <3>4. /\ Append(p, q[n + 1]) \in Seq(S) /\ Len(Append(p, q[n + 1])) = n + 1
          /\ \A i \in 1 .. n + 1 : Append(p, q[n + 1])[i] = q[i]
      BY <3>2, <3>3, AppendProperties
    <3>5. q = Append(p, q[n + 1])
      BY <2>1, <3>4, SeqEqual
    <3>6. p \in Q
      BY <1>2, <3>2
    <3> QED BY <3>2, <3>3, <3>5, <3>6
  <2> QED BY <2>1
<1> HIDE DEF N
<1>3. Nat \subseteq N
    BY <1>1, <1>2, NatSetInduction
<1>4. ASSUME NEW q \in Seq(S) PROVE q \in Q
  <2>1. Len(q) \in N
    BY <1>3, LenProperties
  <2> QED BY <2>1 DEF N
<1> QED BY <1>4

\* One element more at the end of two sequences put together.
LEMMA ConcatAppend ==
    ASSUME NEW S, NEW p \in Seq(S), NEW q \in Seq(S), NEW e \in S
    PROVE  p \o Append(q, e) = Append(p \o q, e)
<1>1. <<e>> \in Seq(S) /\ Append(q, e) = q \o <<e>>
    BY AppendIsConcat
<1>2. p \o q \in Seq(S)
    BY ConcatProperties
<1>3. (p \o q) \o <<e>> = p \o (q \o <<e>>)
    BY <1>1, ConcatAssociative
<1>4. Append(p \o q, e) = (p \o q) \o <<e>>
    BY <1>2, AppendIsConcat
<1> QED BY <1>1, <1>3, <1>4

\* A set of sets with the empty one and the extensions of its members.
LEMMA FiniteSetInduction ==
    ASSUME NEW F, IsFiniteSet(F), NEW Q, {} \in Q,
           \A T \in SUBSET F : \A x \in F \ T : T \in Q => T \cup {x} \in Q
    PROVE  F \in Q
<1> DEFINE N == {n \in Nat : \A T \in SUBSET F : Cardinality(T) = n => T \in Q}
<1>1. 0 \in N
    BY FS_Subset, FS_EmptySet
<1>2. ASSUME NEW n \in Nat, n \in N PROVE n + 1 \in N
  <2>1. ASSUME NEW T \in SUBSET F, Cardinality(T) = n + 1 PROVE T \in Q
    <3>1. IsFiniteSet(T)
      BY FS_Subset
    <3>2. PICK x \in T : TRUE
      BY <2>1, <3>1, FS_EmptySet
    <3>3. Cardinality(T \ {x}) = n
      <4>1. Cardinality(T \ {x}) = Cardinality(T) - 1
        BY <3>1, <3>2, FS_RemoveElement
      <4> QED BY <2>1, <4>1
    <3>4. T \ {x} \in Q
      BY <1>2, <3>3
    <3>5. T = (T \ {x}) \cup {x} /\ x \in F \ (T \ {x}) /\ T \ {x} \in SUBSET F
      BY <3>2
    <3> QED BY <3>4, <3>5
  <2> QED BY <2>1
<1> HIDE DEF N
<1>3. Nat \subseteq N
    BY <1>1, <1>2, NatSetInduction
<1>4. Cardinality(F) \in Nat
    BY FS_CardinalityType
<1>5. Cardinality(F) \in N
    BY <1>3, <1>4
<1> QED BY <1>5 DEF N

\* s makes a T of each number of 1 .. n and a T.
Steps(s, n, T) == \A i \in 1 .. n : \A t \in T : s[<<i, t>>] \in T

\* f is defined by recursion over 0 .. n, from b by the steps s.
Solves(f, n, T, b, s) ==
    /\ f \in [0 .. n -> T]
    /\ f[0] = b
    /\ \A i \in 1 .. n : f[i] = s[<<i, f[i - 1]>>]

\* A recursion over 0 .. n has a solution.
LEMMA RecursionExists ==
    ASSUME NEW T, NEW b \in T, NEW n \in Nat, NEW s, Steps(s, n, T)
    PROVE  \E f : Solves(f, n, T, b, s)
<1> USE DEF Steps
<1> DEFINE Good(f, m) == /\ f[0] = b
                         /\ \A i \in 1 .. m : f[i] = s[<<i, f[i - 1]>>]
           Q == {m \in Nat : m <= n => \E f \in [0 .. m -> T] : Good(f, m)}
<1>1. 0 \in Q
  <2> DEFINE f == [i \in 0 .. 0 |-> b]
  <2>1. f \in [0 .. 0 -> T] /\ Good(f, 0)
    OBVIOUS
  <2> QED BY <2>1
<1>2. ASSUME NEW m \in Nat, m \in Q PROVE m + 1 \in Q
  <2> SUFFICES ASSUME m + 1 <= n PROVE \E f \in [0 .. m + 1 -> T] : Good(f, m + 1)
    OBVIOUS
  <2>1. PICK g \in [0 .. m -> T] : Good(g, m)
    BY <1>2
  <2> DEFINE f == [i \in 0 .. m + 1 |-> IF i = m + 1 THEN s[<<m + 1, g[m]>>] ELSE g[i]]
  <2>2. s[<<m + 1, g[m]>>] \in T
    <3>1. g[m] \in T /\ m + 1 \in 1 .. n
      BY <2>1
    <3> QED BY <3>1
  <2>3. f \in [0 .. m + 1 -> T]
    BY <2>1, <2>2
  <2>4. f[0] = b
    BY <2>1
  <2>5. ASSUME NEW i \in 1 .. m + 1 PROVE f[i] = s[<<i, f[i - 1]>>]
    <3>1. CASE i = m + 1
      <4>1. f[i - 1] = g[m] /\ f[i] = s[<<m + 1, g[m]>>]
        BY <3>1
      <4> QED BY <3>1, <4>1
    <3>2. CASE i # m + 1
      <4>1. i \in 1 .. m /\ f[i] = g[i] /\ f[i - 1] = g[i - 1]
        BY <3>2
      <4> QED BY <2>1, <4>1
    <3> QED BY <3>1, <3>2
  <2> QED BY <2>3, <2>4, <2>5
<1> HIDE DEF Q
<1>3. n \in Q
    BY <1>1, <1>2, NatSetInduction
<1> QED BY <1>3 DEF Q, Solves

\* Its values are of a type the step keeps.
LEMMA RecursionTyped ==
    ASSUME NEW T, NEW n \in Nat, NEW f, f[0] \in T,
           \A i \in 1 .. n : f[i - 1] \in T => f[i] \in T
    PROVE  \A i \in 0 .. n : f[i] \in T
<1> DEFINE Q == {i \in Nat : i <= n => f[i] \in T}
<1>1. 0 \in Q
    OBVIOUS
<1>2. ASSUME NEW i \in Nat, i \in Q PROVE i + 1 \in Q
  <2> SUFFICES ASSUME i + 1 <= n PROVE f[i + 1] \in T
    OBVIOUS
  <2>1. i + 1 \in 1 .. n /\ (i + 1) - 1 = i /\ f[i] \in T
    BY <1>2
  <2> QED BY <2>1
<1> HIDE DEF Q
<1>3. Nat \subseteq Q
    BY <1>1, <1>2, NatSetInduction
<1> QED BY <1>3 DEF Q

\* s makes a T of each element of S and a T.
StepsOver(s, S, T) == \A e \in S : \A t \in T : s[<<e, t>>] \in T

\* f is defined by recursion along q: s takes an element and what was made of
\* those before it.
SolvesAlong(f, q, T, b, s) ==
    /\ f \in [0 .. Len(q) -> T]
    /\ f[0] = b
    /\ \A i \in 1 .. Len(q) : f[i] = s[<<q[i], f[i - 1]>>]

\* A recursion along a sequence has a solution.
LEMMA AlongExists ==
    ASSUME NEW S, NEW T, NEW b \in T, NEW s, StepsOver(s, S, T), NEW q \in Seq(S)
    PROVE  \E f : SolvesAlong(f, q, T, b, s)
<1> DEFINE n == Len(q)
           r == [x \in (1 .. n) \X T |-> s[<<q[x[1]], x[2]>>]]
<1>1. n \in Nat /\ \A i \in 1 .. n : q[i] \in S
    BY LenProperties, ElementOfSeq
<1> HIDE DEF n
<1>2. \A i \in 1 .. n : \A t \in T : r[<<i, t>>] = s[<<q[i], t>>]
    BY <1>1
<1> HIDE DEF r
<1>3. Steps(r, n, T)
    BY <1>1, <1>2 DEF Steps, StepsOver
<1>4. PICK f : Solves(f, n, T, b, r)
    BY <1>1, <1>3, RecursionExists
<1>5. ASSUME NEW i \in 1 .. n PROVE f[i] = s[<<q[i], f[i - 1]>>]
  <2>1. f[i - 1] \in T /\ f[i] = r[<<i, f[i - 1]>>]
    BY <1>1, <1>4 DEF Solves
  <2> QED BY <1>2, <2>1
<1>6. SolvesAlong(f, q, T, b, s)
    BY <1>4, <1>5 DEF Solves, SolvesAlong, n
<1> QED BY <1>6

\* One element more is one step more.
LEMMA AlongAppend ==
    ASSUME NEW S, NEW T, NEW q \in Seq(S), NEW e \in S, NEW b, NEW s,
           NEW f, SolvesAlong(f, q, T, b, s),
           NEW g, SolvesAlong(g, Append(q, e), T, b, s)
    PROVE  g[Len(q) + 1] = s[<<e, f[Len(q)]>>]
<1>1. /\ Len(q) \in Nat /\ Len(Append(q, e)) = Len(q) + 1
      /\ \A i \in 1 .. Len(q) : Append(q, e)[i] = q[i]
      /\ Append(q, e)[Len(q) + 1] = e
    BY LenProperties, AppendProperties
<1> DEFINE Q == {i \in Nat : i <= Len(q) => f[i] = g[i]}
<1>2. 0 \in Q
    BY DEF SolvesAlong
<1>3. ASSUME NEW i \in Nat, i \in Q PROVE i + 1 \in Q
  <2> SUFFICES ASSUME i + 1 <= Len(q) PROVE f[i + 1] = g[i + 1]
    OBVIOUS
  <2>1. /\ i + 1 \in 1 .. Len(q) /\ i + 1 \in 1 .. Len(q) + 1
        /\ (i + 1) - 1 = i /\ f[i] = g[i]
    BY <1>1, <1>3
  <2> QED BY <1>1, <2>1 DEF SolvesAlong
<1> HIDE DEF Q
<1>4. Len(q) \in Q
    BY <1>1, <1>2, <1>3, NatSetInduction
<1>5. f[Len(q)] = g[Len(q)]
    BY <1>1, <1>4 DEF Q
<1>6. Len(q) + 1 \in 1 .. Len(q) + 1 /\ (Len(q) + 1) - 1 = Len(q)
    BY <1>1
<1> QED BY <1>1, <1>5, <1>6 DEF SolvesAlong

\* s adds up h from 1 on.
Adds(s, h, n) ==
    /\ s \in [0 .. n -> Int]
    /\ s[0] = 0
    /\ \A i \in 1 .. n : s[i] = s[i - 1] + h[i]

\* Integers can be added up.
LEMMA AddsExists ==
    ASSUME NEW n \in Nat, NEW h \in [1 .. n -> Int]
    PROVE  \E s : Adds(s, h, n)
<1> DEFINE a == [x \in (1 .. n) \X Int |-> x[2] + h[x[1]]]
<1>1. ASSUME NEW i \in 1 .. n, NEW t \in Int
      PROVE  a[<<i, t>>] = t + h[i] /\ t + h[i] \in Int
    OBVIOUS
<1> HIDE DEF a
<1>2. Steps(a, n, Int)
    BY <1>1 DEF Steps
<1>3. PICK s : Solves(s, n, Int, 0, a)
    BY <1>2, RecursionExists
<1>4. ASSUME NEW i \in 1 .. n PROVE s[i] = s[i - 1] + h[i]
  <2>1. s[i - 1] \in Int /\ s[i] = a[<<i, s[i - 1]>>]
    BY <1>3 DEF Solves
  <2> QED BY <1>1, <2>1
<1> QED BY <1>3, <1>4 DEF Adds, Solves

\* Nothing adds up to nothing.
LEMMA AddsZero ==
    ASSUME NEW n \in Nat, NEW h, NEW s, Adds(s, h, n), \A i \in 1 .. n : h[i] = 0
    PROVE  s[n] = 0
<1> DEFINE Q == {i \in Nat : i <= n => s[i] = 0}
<1>1. 0 \in Q
    BY DEF Adds
<1>2. ASSUME NEW i \in Nat, i \in Q PROVE i + 1 \in Q
  <2> SUFFICES ASSUME i + 1 <= n PROVE s[i + 1] = 0
    OBVIOUS
  <2>1. i + 1 \in 1 .. n /\ (i + 1) - 1 = i /\ s[i] = 0
    BY <1>2
  <2>2. s[i + 1] = s[i] + h[i + 1] /\ h[i + 1] = 0
    BY <2>1 DEF Adds
  <2> QED BY <2>1, <2>2
<1> HIDE DEF Q
<1>3. Nat \subseteq Q
    BY <1>1, <1>2, NatSetInduction
<1> QED BY <1>3 DEF Q

\* g is h with d more at k.
Raised(g, h, k, d, n) ==
    /\ g \in [1 .. n -> Int] /\ h \in [1 .. n -> Int]
    /\ k \in 1 .. n /\ d \in Int
    /\ g[k] = h[k] + d
    /\ \A i \in 1 .. n : i # k => g[i] = h[i]

\* d more in one place is d more in all.
LEMMA AddsPoint ==
    ASSUME NEW n \in Nat, NEW h, NEW g, NEW s, NEW t, Adds(s, h, n), Adds(t, g, n),
           NEW k, NEW d, Raised(g, h, k, d, n)
    PROVE  t[n] = s[n] + d
<1>0. k \in Int /\ k <= n /\ 1 <= k /\ d \in Int
    BY DEF Raised
<1> DEFINE Q == {i \in Nat : i <= n => t[i] = s[i] + (IF i < k THEN 0 ELSE d)}
<1>1. 0 \in Q
    BY <1>0 DEF Adds
<1>2. ASSUME NEW i \in Nat, i \in Q PROVE i + 1 \in Q
  <2> SUFFICES ASSUME i + 1 <= n
               PROVE  t[i + 1] = s[i + 1] + (IF i + 1 < k THEN 0 ELSE d)
    OBVIOUS
  <2>1. /\ i + 1 \in 1 .. n /\ (i + 1) - 1 = i
        /\ t[i] = s[i] + (IF i < k THEN 0 ELSE d)
    BY <1>2
  <2>2. /\ s[i + 1] = s[i] + h[i + 1] /\ t[i + 1] = t[i] + g[i + 1]
    BY <2>1 DEF Adds
  <2>3. s[i] \in Int /\ t[i] \in Int /\ h[i + 1] \in Int /\ g[i + 1] \in Int
    <3>1. i \in 0 .. n
      BY <2>1
    <3>2. s \in [0 .. n -> Int] /\ t \in [0 .. n -> Int]
      BY DEF Adds
    <3>3. h[i + 1] \in Int /\ g[i + 1] \in Int
      BY <2>1 DEF Raised
    <3> QED BY <2>1, <3>1, <3>2, <3>3
  <2>4. CASE i + 1 = k
    <3>1. g[i + 1] = h[i + 1] + d
      BY <2>4 DEF Raised
    <3>2. i < k /\ ~(i + 1 < k)
      BY <1>0, <2>4
    <3>3. t[i] = s[i] /\ s[i + 1] = s[i] + h[i + 1] /\ t[i + 1] = t[i] + (h[i + 1] + d)
      BY <2>1, <2>2, <2>3, <3>1, <3>2
    <3> QED BY <1>0, <2>3, <3>2, <3>3
  <2>5. CASE i + 1 # k
    <3>1. g[i + 1] = h[i + 1] /\ (i < k <=> i + 1 < k)
      BY <1>0, <2>1, <2>5 DEF Raised
    <3> QED BY <1>0, <2>1, <2>2, <2>3, <3>1
  <2> QED BY <2>4, <2>5
<1> HIDE DEF Q
<1>3. Nat \subseteq Q
    BY <1>1, <1>2, NatSetInduction
<1>4. t[n] = s[n] + (IF n < k THEN 0 ELSE d)
    BY <1>3 DEF Q
<1> QED BY <1>0, <1>4

\* h has the weight of each element of T at its place, and 0 elsewhere.
Placed(h, w, a, T, n) ==
    /\ h \in [1 .. n -> Int]
    /\ \A x \in T : h[a[x]] = w[x]
    /\ \A i \in 1 .. n : (\A x \in T : a[x] # i) => h[i] = 0

\* What is placed without one element is, at its place, less by its weight.
LEMMA PlacedLess ==
    ASSUME NEW n \in Nat, NEW F, NEW w \in [F -> Int], NEW a \in Injection(F, 1 .. n),
           NEW T \in SUBSET F, NEW x \in F \ T,
           NEW h, NEW s, Placed(h, w, a, T \cup {x}, n), Adds(s, h, n)
    PROVE  \E k, r : Placed(k, w, a, T, n) /\ Adds(r, k, n) /\ s[n] = r[n] + w[x]
<1> DEFINE k == [i \in 1 .. n |-> IF i = a[x] THEN 0 ELSE h[i]]
<1>1. /\ a[x] \in 1 .. n /\ w[x] \in Int /\ h[a[x]] = w[x]
      /\ \A y \in T : a[y] # a[x] /\ a[y] \in 1 .. n /\ h[a[y]] = w[y]
  <2>1. a \in [F -> 1 .. n] /\ \A y \in F : a[y] = a[x] => x = y
    BY DEF Injection, IsInjective
  <2> QED BY <2>1 DEF Placed
<1>2. k \in [1 .. n -> Int] /\ h \in [1 .. n -> Int]
    BY DEF Placed
<1>3. Placed(k, w, a, T, n)
  <2>1. \A y \in T : k[a[y]] = w[y]
    BY <1>1
  <2>2. ASSUME NEW i \in 1 .. n, \A y \in T : a[y] # i PROVE k[i] = 0
    BY <2>2 DEF Placed
  <2> QED BY <1>2, <2>1, <2>2 DEF Placed
<1>4. \A i \in 1 .. n : i # a[x] => h[i] = k[i]
    OBVIOUS
<1>5. h[a[x]] = k[a[x]] + w[x]
    BY <1>1
<1> HIDE DEF k
<1>6. PICK r : Adds(r, k, n)
    BY <1>2, AddsExists
<1>7. s[n] = r[n] + w[x]
  <2>1. Raised(h, k, a[x], w[x], n)
    BY <1>1, <1>2, <1>4, <1>5 DEF Raised
  <2> QED BY <1>6, <2>1, AddsPoint
<1> QED BY <1>3, <1>6, <1>7

\* A sum does not depend on the places of what is added.
LEMMA SumOrder ==
    ASSUME NEW n \in Nat, NEW F, IsFiniteSet(F), NEW w \in [F -> Int],
           NEW a \in Injection(F, 1 .. n), NEW b \in Injection(F, 1 .. n),
           NEW h, NEW s, Placed(h, w, a, F, n), Adds(s, h, n),
           NEW g, NEW t, Placed(g, w, b, F, n), Adds(t, g, n)
    PROVE  s[n] = t[n]
<1> DEFINE Same(T) == \A h1, s1, g1, t1 :
                        /\ Placed(h1, w, a, T, n) /\ Adds(s1, h1, n)
                        /\ Placed(g1, w, b, T, n) /\ Adds(t1, g1, n)
                        => s1[n] = t1[n]
           Q == {T \in SUBSET F : Same(T)}
<1>1. {} \in Q
  <2>1. ASSUME NEW h1, NEW s1, NEW g1, NEW t1,
               Placed(h1, w, a, {}, n), Adds(s1, h1, n),
               Placed(g1, w, b, {}, n), Adds(t1, g1, n)
        PROVE  s1[n] = t1[n]
    <3>1. \A i \in 1 .. n : h1[i] = 0 /\ g1[i] = 0
      BY <2>1 DEF Placed
    <3>2. s1[n] = 0 /\ t1[n] = 0
      BY <2>1, <3>1, AddsZero
    <3> QED BY <3>2
  <2> QED BY <2>1
<1>2. ASSUME NEW T \in SUBSET F, NEW x \in F \ T, T \in Q PROVE T \cup {x} \in Q
  <2>1. ASSUME NEW h1, NEW s1, NEW g1, NEW t1,
               Placed(h1, w, a, T \cup {x}, n), Adds(s1, h1, n),
               Placed(g1, w, b, T \cup {x}, n), Adds(t1, g1, n)
        PROVE  s1[n] = t1[n]
    <3> HIDE DEF Q
    <3>1. PICK h2, s2 : Placed(h2, w, a, T, n) /\ Adds(s2, h2, n) /\ s1[n] = s2[n] + w[x]
      BY <2>1, PlacedLess
    <3>2. PICK g2, t2 : Placed(g2, w, b, T, n) /\ Adds(t2, g2, n) /\ t1[n] = t2[n] + w[x]
      BY <2>1, PlacedLess
    <3>3. Same(T)
      BY <1>2 DEF Q
    <3>4. s2[n] = t2[n]
      BY <3>1, <3>2, <3>3
    <3> QED BY <3>1, <3>2, <3>4
  <2> QED BY <2>1
<1>3. F \in Q
  <2> HIDE DEF Q
  <2> QED BY <1>1, <1>2, FiniteSetInduction
<1> QED BY <1>3
=============================================================================
