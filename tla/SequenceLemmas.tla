---------------------------- MODULE SequenceLemmas ---------------------------
(***************************************************************************)
(* Lemmas about sequences: about the elements of one that grows at its end *)
(* or is used up from its head, and about sums over its elements, which    *)
(* the modules write as folds.                                             *)
(***************************************************************************)
EXTENDS Integers, SequencesExt, WellFoundedInduction, TLAPS

\* The elements of a sequence are of the set it is over; none are in an empty one.
LEMMA ElementsTyped ==
  ASSUME NEW S, NEW s \in Seq(S)
  PROVE  /\ ToSet(s) \subseteq S
         /\ s = <<>> => ToSet(s) = {}
BY DEF ToSet

\* One more element at the end.
LEMMA ElementsOfAppend ==
  ASSUME NEW S, NEW s \in Seq(S), NEW e \in S
  PROVE  /\ Append(s, e) \in Seq(S)
         /\ Append(s, e) # <<>>
         /\ ToSet(Append(s, e)) = ToSet(s) \cup {e}
<1>1. /\ Append(s, e) \in Seq(S)
      /\ Append(s, e) # <<>>
      /\ DOMAIN Append(s, e) = 1 .. Len(s) + 1
      /\ DOMAIN s = 1 .. Len(s)
      /\ Append(s, e)[Len(s) + 1] = e
      /\ \A i \in 1 .. Len(s) : Append(s, e)[i] = s[i]
  OBVIOUS
<1>2. DOMAIN Append(s, e) = DOMAIN s \cup {Len(s) + 1}
  BY <1>1
<1>3. QED
  BY <1>1, <1>2 DEF ToSet

\* A new element at the end keeps the elements distinct.
LEMMA InjectiveAppend ==
  ASSUME NEW S, NEW s \in Seq(S), NEW e \in S, IsInjective(s), e \notin ToSet(s)
  PROVE  IsInjective(Append(s, e))
<1>1. /\ DOMAIN Append(s, e) = 1 .. Len(s) + 1
      /\ DOMAIN s = 1 .. Len(s)
      /\ Append(s, e)[Len(s) + 1] = e
      /\ \A i \in 1 .. Len(s) : Append(s, e)[i] = s[i]
  OBVIOUS
<1>2. \A i \in 1 .. Len(s) : s[i] # e
  BY <1>1 DEF ToSet
<1>3. QED
  BY <1>1, <1>2 DEF IsInjective

\* Without the head, what is left is a part of the elements, the head aside.
LEMMA ElementsOfTail ==
  ASSUME NEW S, NEW s \in Seq(S), s # <<>>
  PROVE  /\ Head(s) \in S
         /\ Tail(s) \in Seq(S)
         /\ ToSet(s) = {Head(s)} \cup ToSet(Tail(s))
<1>1. /\ DOMAIN s = 1 .. Len(s)
      /\ Len(s) >= 1
      /\ Head(s) = s[1]
      /\ Tail(s) \in Seq(S)
      /\ DOMAIN Tail(s) = 1 .. Len(s) - 1
      /\ \A i \in 1 .. Len(s) - 1 : Tail(s)[i] = s[i + 1]
      /\ Head(s) \in S
  OBVIOUS
<1>2. ToSet(Tail(s)) \subseteq ToSet(s)
  BY <1>1 DEF ToSet
<1>3. ASSUME NEW e \in ToSet(s), e # Head(s) PROVE e \in ToSet(Tail(s))
  <2>1. PICK i \in 1 .. Len(s) : e = s[i]
    BY <1>1, <1>3 DEF ToSet
  <2>2. i - 1 \in 1 .. Len(s) - 1 /\ Tail(s)[i - 1] = e
    BY <1>1, <1>3, <2>1
  <2>3. QED
    BY <1>1, <2>2 DEF ToSet
<1>4. Head(s) \in ToSet(s)
  BY <1>1 DEF ToSet
<1>5. QED
  BY <1>1, <1>2, <1>3, <1>4

\* Without the head, the elements are still distinct, and distinct from it.
LEMMA InjectiveTail ==
  ASSUME NEW S, NEW s \in Seq(S), s # <<>>, IsInjective(s)
  PROVE  /\ IsInjective(Tail(s))
         /\ Head(s) \notin ToSet(Tail(s))
<1>1. /\ DOMAIN s = 1 .. Len(s)
      /\ Len(s) >= 1
      /\ Head(s) = s[1]
      /\ DOMAIN Tail(s) = 1 .. Len(s) - 1
      /\ \A i \in 1 .. Len(s) - 1 : Tail(s)[i] = s[i + 1]
  OBVIOUS
<1>2. IsInjective(Tail(s))
  BY <1>1 DEF IsInjective
<1>3. \A i \in 1 .. Len(s) - 1 : Tail(s)[i] # Head(s)
  BY <1>1 DEF IsInjective
<1>4. QED
  BY <1>1, <1>2, <1>3 DEF ToSet

-----------------------------------------------------------------------------
(* Induction over the natural numbers, with a set for the predicate, which  *)
(* the provers can instantiate.                                            *)

\* A set with 0, and with n + 1 for every number n in it, has all numbers.
LEMMA SetInduction ==
  ASSUME NEW T, 0 \in T, \A n \in Nat : n \in T => n + 1 \in T
  PROVE  Nat \subseteq T
<1>1. SUFFICES ASSUME Nat \ T # {} PROVE FALSE
  OBVIOUS
<1>2. PICK n \in Nat \ T : \A m \in Nat \ T : ~ (<<m, n>> \in OpToRel(<, Nat))
  BY <1>1, NatLessThanWellFounded, WFMin, Zenon
<1>3. \A m \in Nat \ T : ~(m < n)
  BY <1>2, Zenon DEF OpToRel
<1>4. n # 0 /\ n - 1 \in Nat /\ n - 1 < n /\ (n - 1) + 1 = n
  OBVIOUS
<1>5. n - 1 \in T
  BY <1>3, <1>4
<1>6. QED
  BY <1>4, <1>5

\* A set of natural numbers that is bounded and not empty has a maximum.
LEMMA MaxOfSet ==
  ASSUME NEW n \in Nat, NEW S \in SUBSET (0 .. n), S # {}
  PROVE  Max(S) \in S /\ \A i \in S : i <= Max(S)
<1> DEFINE T == {m \in Nat : \A R \in SUBSET (0 .. m) : R # {} => \E x \in R : \A y \in R : y <= x}
<1>1. 0 \in T
  <2>1. ASSUME NEW R \in SUBSET (0 .. 0), R # {} PROVE \E x \in R : \A y \in R : y <= x
    <3>1. \A y \in R : y = 0
      OBVIOUS
    <3>2. PICK x : x \in R
      BY <2>1
    <3>3. \A y \in R : y <= x
      BY <3>1, <3>2
    <3>4. QED
      BY <3>2, <3>3
  <2>2. QED
    BY <2>1
<1>2. ASSUME NEW m \in Nat, m \in T PROVE m + 1 \in T
  <2>1. ASSUME NEW R \in SUBSET (0 .. m + 1), R # {} PROVE \E x \in R : \A y \in R : y <= x
    <3>1. CASE m + 1 \in R
      BY <3>1
    <3>2. CASE m + 1 \notin R
      <4>1. R \in SUBSET (0 .. m)
        BY <3>2
      <4>2. QED
        BY <1>2, <2>1, <4>1
    <3>3. QED
      BY <3>1, <3>2
  <2>2. QED
    BY <2>1
<1>3. Nat \subseteq T
  <2> HIDE DEF T
  <2>1. QED
    BY <1>1, <1>2, SetInduction
<1>4. \E x \in S : \A y \in S : y <= x
  BY <1>3
<1>5. \E x \in S : \A y \in S : x >= y
  BY <1>4
<1>6. QED
  BY <1>5 DEF Max

-----------------------------------------------------------------------------
(* Sums.  The folds of the community modules are recursive functions over  *)
(* the subsets of an interval, which take the largest element first.        *)

\* f sums w over every subset of 1 .. n, as the folds do.
IsTable(f, w, n) ==
  f = [s \in SUBSET (1 .. n) |-> IF s = {} THEN 0 ELSE f[s \ {Max(s)}] + w[Max(s)]]

\* There is such a function, so that the definition of a fold means something.
LEMMA TableExists ==
  ASSUME NEW w, NEW n \in Nat
  PROVE  \E f : IsTable(f, w, n)
<1> DEFINE T == {m \in Nat : \E f : IsTable(f, w, m)}
<1>1. 0 \in T
  <2> DEFINE f == [s \in SUBSET (1 .. 0) |-> 0]
  <2>1. \A s \in SUBSET (1 .. 0) : s = {}
    OBVIOUS
  <2>2. f = [s \in SUBSET (1 .. 0) |-> IF s = {} THEN 0 ELSE f[s \ {Max(s)}] + w[Max(s)]]
    BY <2>1
  <2>3. QED
    BY <2>2 DEF IsTable
<1>2. ASSUME NEW m \in Nat, m \in T PROVE m + 1 \in T
  <2>1. PICK f : IsTable(f, w, m)
    BY <1>2
  <2> DEFINE g == [s \in SUBSET (1 .. m + 1) |->
                     IF m + 1 \in s THEN f[s \ {m + 1}] + w[m + 1] ELSE f[s]]
  <2> DEFINE step(s) == IF s = {} THEN 0 ELSE g[s \ {Max(s)}] + w[Max(s)]
  <2>2. ASSUME NEW s \in SUBSET (1 .. m + 1) PROVE g[s] = step(s)
    <3>1. CASE m + 1 \in s
      <4>1. m + 1 \in Nat /\ s \in SUBSET (0 .. m + 1) /\ s # {}
        BY <3>1
      <4> HIDE DEF g
      <4>2. Max(s) \in s /\ \A i \in s : i <= Max(s)
        BY <4>1, MaxOfSet
      <4>3. Max(s) = m + 1
        <5>1. Max(s) \in 1 .. m + 1 /\ m + 1 <= Max(s)
          BY <3>1, <4>2
        <5>2. QED
          BY <5>1
      <4> USE DEF g
      <4>4. g[s \ {m + 1}] = f[s \ {m + 1}]
        OBVIOUS
      <4>5. QED
        BY <3>1, <4>3, <4>4
    <3>2. CASE m + 1 \notin s
      <4>1. s \in SUBSET (1 .. m)
        BY <3>2
      <4>2. f[s] = IF s = {} THEN 0 ELSE f[s \ {Max(s)}] + w[Max(s)]
        BY <2>1, <4>1 DEF IsTable
      <4>3. g[s \ {Max(s)}] = f[s \ {Max(s)}]
        BY <3>2
      <4>4. QED
        BY <3>2, <4>2, <4>3
    <3>3. QED
      BY <3>1, <3>2
  <2>3. g = [s \in SUBSET (1 .. m + 1) |-> step(s)]
    BY <2>2
  <2>4. IsTable(g, w, m + 1)
    BY <2>3 DEF IsTable
  <2>5. QED
    BY <2>4
<1>3. Nat \subseteq T
  <2> HIDE DEF T
  <2>1. QED
    BY <1>1, <1>2, SetInduction
<1>4. QED
  BY <1>3

\* What it says of the beginnings of the interval.
LEMMA TableRows ==
  ASSUME NEW f, NEW w, NEW n \in Nat, IsTable(f, w, n)
  PROVE  /\ f[1 .. 0] = 0
         /\ \A k \in 0 .. n - 1 : f[1 .. k + 1] = f[1 .. k] + w[k + 1]
<1>1. f[1 .. 0] = 0
  <2>1. 1 .. 0 = {} /\ {} \in SUBSET (1 .. n)
    OBVIOUS
  <2>2. QED
    BY <2>1 DEF IsTable
<1>2. ASSUME NEW k \in 0 .. n - 1 PROVE f[1 .. k + 1] = f[1 .. k] + w[k + 1]
  <2> DEFINE S == 1 .. k + 1
  <2>1. S \in SUBSET (0 .. k + 1) /\ S \in SUBSET (1 .. n) /\ S # {} /\ k + 1 \in S /\ k + 1 \in Nat
    OBVIOUS
  <2>2. \A i \in S : i <= k + 1
    OBVIOUS
  <2>3. S \ {k + 1} = 1 .. k
    OBVIOUS
  <2> HIDE DEF S
  <2>4. Max(S) \in S /\ \A i \in S : i <= Max(S)
    BY <2>1, MaxOfSet
  <2>5. Max(S) = k + 1
    <3>1. Max(S) \in 0 .. k + 1 /\ k + 1 <= Max(S)
      BY <2>1, <2>4
    <3>2. QED
      BY <3>1
  <2>6. f[S] = f[S \ {k + 1}] + w[k + 1]
    BY <2>1, <2>5 DEF IsTable
  <2>7. QED
    BY <2>3, <2>6 DEF S
<1>3. QED
  BY <1>1, <1>2

\* Sums of the same numbers are the same, whatever comes behind them.
LEMMA TablesAgree ==
  ASSUME NEW f, NEW w, NEW m \in Nat, IsTable(f, w, m),
         NEW g, NEW v, NEW n \in Nat, IsTable(g, v, n),
         NEW k \in Nat, k <= m, k <= n, \A i \in 1 .. k : w[i] = v[i]
  PROVE  f[1 .. k] = g[1 .. k]
<1> DEFINE T == {j \in Nat : j <= k => f[1 .. j] = g[1 .. j]}
<1>1. 0 \in T
  BY TableRows
<1>2. ASSUME NEW j \in Nat, j \in T PROVE j + 1 \in T
  <2>1. CASE j + 1 <= k
    <3>1. j \in 0 .. m - 1 /\ j \in 0 .. n - 1 /\ j + 1 \in 1 .. k
      BY <2>1
    <3>2. f[1 .. j + 1] = f[1 .. j] + w[j + 1] /\ g[1 .. j + 1] = g[1 .. j] + v[j + 1]
      BY <3>1, TableRows
    <3>3. f[1 .. j] = g[1 .. j] /\ w[j + 1] = v[j + 1]
      BY <1>2, <2>1, <3>1
    <3>4. QED
      BY <3>2, <3>3
  <2>2. CASE ~ j + 1 <= k
    BY <2>2
  <2>3. QED
    BY <2>1, <2>2
<1>3. Nat \subseteq T
  <2> HIDE DEF T
  <2>1. QED
    BY <1>1, <1>2, SetInduction
<1>4. QED
  BY <1>3

\* The sum of w[1], ..., w[n].
Total(w, n) == (CHOOSE f : IsTable(f, w, n))[1 .. n]

\* Any table says what the sum is.
LEMMA TotalOfTable ==
  ASSUME NEW f, NEW w, NEW n \in Nat, NEW m \in Nat, n <= m, IsTable(f, w, m)
  PROVE  f[1 .. n] = Total(w, n)
<1>1. PICK g : g = (CHOOSE h : IsTable(h, w, n)) /\ IsTable(g, w, n)
  BY TableExists
<1>2. f[1 .. n] = g[1 .. n]
  BY <1>1, TablesAgree
<1>3. QED
  BY <1>1, <1>2 DEF Total

\* The sum of nothing, and of one number more.
LEMMA TotalSteps ==
  ASSUME NEW w, NEW n \in Nat
  PROVE  /\ Total(w, 0) = 0
         /\ Total(w, n + 1) = Total(w, n) + w[n + 1]
<1>1. n + 1 \in Nat /\ n <= n + 1 /\ 0 <= n + 1 /\ n \in 0 .. (n + 1) - 1 /\ 0 \in Nat
  OBVIOUS
<1>2. PICK f : IsTable(f, w, n + 1)
  BY <1>1, TableExists
<1>3. f[1 .. 0] = Total(w, 0) /\ f[1 .. n] = Total(w, n) /\ f[1 .. n + 1] = Total(w, n + 1)
  <2> DEFINE m == n + 1
  <2>1. m \in Nat /\ n <= m /\ 0 <= m /\ m <= m /\ 0 \in Nat /\ IsTable(f, w, m)
    BY <1>1, <1>2
  <2> HIDE DEF m
  <2>2. f[1 .. 0] = Total(w, 0) /\ f[1 .. n] = Total(w, n) /\ f[1 .. m] = Total(w, m)
    BY <2>1, TotalOfTable
  <2>3. QED
    BY <2>2 DEF m
<1>4. f[1 .. 0] = 0 /\ f[1 .. n + 1] = f[1 .. n] + w[n + 1]
  BY <1>1, <1>2, TableRows
<1>5. QED
  BY <1>3, <1>4

\* The sum depends on the numbers that are summed and on nothing else.
LEMMA TotalSame ==
  ASSUME NEW w, NEW v, NEW n \in Nat, \A i \in 1 .. n : w[i] = v[i]
  PROVE  Total(w, n) = Total(v, n)
<1>1. PICK f : IsTable(f, w, n)
  BY TableExists
<1>2. PICK g : IsTable(g, v, n)
  BY TableExists
<1>3. f[1 .. n] = g[1 .. n]
  BY <1>1, <1>2, TablesAgree
<1>4. n <= n
  OBVIOUS
<1>5. f[1 .. n] = Total(w, n) /\ g[1 .. n] = Total(v, n)
  BY <1>1, <1>2, <1>4, TotalOfTable
<1>6. QED
  BY <1>3, <1>5

\* Natural numbers have a natural sum.
LEMMA TotalTyped ==
  ASSUME NEW w, NEW n \in Nat, \A i \in 1 .. n : w[i] \in Nat
  PROVE  Total(w, n) \in Nat
<1> DEFINE T == {j \in Nat : j <= n => Total(w, j) \in Nat}
<1>1. 0 \in T
  BY TotalSteps
<1>2. ASSUME NEW j \in Nat, j \in T PROVE j + 1 \in T
  <2>1. Total(w, j + 1) = Total(w, j) + w[j + 1]
    BY TotalSteps
  <2>2. j + 1 <= n => Total(w, j) \in Nat /\ w[j + 1] \in Nat
    BY <1>2
  <2>3. QED
    BY <2>1, <2>2
<1>3. Nat \subseteq T
  <2> HIDE DEF T
  <2>1. QED
    BY <1>1, <1>2, SetInduction
<1>4. QED
  BY <1>3

\* The sum of m + n numbers is that of the first m and that of the last n.
LEMMA TotalSplit ==
  ASSUME NEW w, NEW m \in Nat, NEW v, NEW n \in Nat,
         \A i \in 1 .. m + n : w[i] \in Nat, \A i \in 1 .. n : v[i] = w[m + i]
  PROVE  Total(w, m + n) = Total(w, m) + Total(v, n)
<1> DEFINE T == {j \in Nat : j <= n => Total(w, m + j) = Total(w, m) + Total(v, j)}
<1>0. Total(w, m) \in Nat
  <2>1. \A i \in 1 .. m : w[i] \in Nat
    OBVIOUS
  <2>2. QED
    BY <2>1, TotalTyped
<1>1. 0 \in T
  BY <1>0, TotalSteps
<1>2. ASSUME NEW j \in Nat, j \in T PROVE j + 1 \in T
  <2>1. SUFFICES ASSUME j + 1 <= n PROVE Total(w, m + (j + 1)) = Total(w, m) + Total(v, j + 1)
    OBVIOUS
  <2>2. m + j \in Nat /\ m + (j + 1) = (m + j) + 1
    OBVIOUS
  <2>3. Total(w, m + (j + 1)) = Total(w, m + j) + w[(m + j) + 1]
    BY <2>2, TotalSteps
  <2>4. Total(v, j + 1) = Total(v, j) + v[j + 1]
    BY TotalSteps
  <2>5. Total(w, m + j) = Total(w, m) + Total(v, j)
    BY <1>2, <2>1
  <2>6. v[j + 1] = w[(m + j) + 1] /\ v[j + 1] \in Nat
    <3>1. j + 1 \in 1 .. n /\ m + (j + 1) \in 1 .. m + n
      BY <2>1
    <3>2. QED
      BY <2>2, <3>1
  <2>7. Total(v, j) \in Nat
    <3>1. \A i \in 1 .. j : v[i] \in Nat
      BY <2>1
    <3>2. QED
      BY <3>1, TotalTyped
  <2>8. QED
    BY <1>0, <2>3, <2>4, <2>5, <2>6, <2>7
<1>3. Nat \subseteq T
  <2> HIDE DEF T
  <2>1. QED
    BY <1>1, <1>2, SetInduction
<1>4. QED
  BY <1>3

\* Larger numbers that are added up make the sum grow.
LEMMA TotalGrows ==
  ASSUME NEW w, NEW n \in Nat, \A i \in 1 .. n : w[i] \in Nat \ {0}
  PROVE  \A j \in 0 .. n : \A i \in 0 .. j : i # j => Total(w, i) < Total(w, j)
<1> DEFINE T == {j \in Nat : j <= n => \A i \in 0 .. j : i # j => Total(w, i) < Total(w, j)}
<1>1. 0 \in T
  OBVIOUS
<1>2. \A i \in 0 .. n : Total(w, i) \in Nat
  <2>1. \A i \in 0 .. n : \A j \in 1 .. i : w[j] \in Nat
    OBVIOUS
  <2>2. QED
    BY <2>1, TotalTyped
<1>3. ASSUME NEW j \in Nat, j \in T PROVE j + 1 \in T
  <2>1. SUFFICES ASSUME j + 1 <= n, NEW i \in 0 .. j + 1, i # j + 1
                 PROVE  Total(w, i) < Total(w, j + 1)
    OBVIOUS
  <2>2. Total(w, j + 1) = Total(w, j) + w[j + 1]
    BY TotalSteps
  <2>3. Total(w, i) \in Nat /\ Total(w, j) \in Nat /\ w[j + 1] \in Nat \ {0}
    BY <1>2, <2>1
  <2>4. i = j \/ Total(w, i) < Total(w, j)
    BY <1>3, <2>1
  <2>5. QED
    BY <2>2, <2>3, <2>4
<1>4. Nat \subseteq T
  <2> HIDE DEF T
  <2>1. QED
    BY <1>1, <1>3, SetInduction
<1>5. QED
  BY <1>4

\* A fold that adds numbers up takes them from the row of a table: the largest
\* element of a set is where the number stands.
LEMMA MaxInside ==
  ASSUME NEW n \in Nat
  PROVE  \A r \in SUBSET (1 .. n) : r # {} => Max(r) \in 1 .. n
<1>1. ASSUME NEW r \in SUBSET (1 .. n), r # {} PROVE Max(r) \in 1 .. n
  <2>1. r \in SUBSET (0 .. n)
    OBVIOUS
  <2>2. Max(r) \in r
    BY <1>1, <2>1, MaxOfSet
  <2>3. QED
    BY <2>2
<1>2. QED
  BY <1>1

\* A sequence of at most n elements is one.
LEMMA BoundedSequence ==
  ASSUME NEW S, NEW n \in Nat, NEW s \in SeqOf(S, n)
  PROVE  s \in Seq(S) /\ Len(s) <= n
<1>1. PICK m \in 0 .. n : s \in [1 .. m -> S]
  BY DEF SeqOf
<1>2. m \in Nat /\ DOMAIN s = 1 .. m
  BY <1>1
<1>3. s \in Seq(S)
  BY <1>1, <1>2
<1>4. Len(s) = m
  BY <1>2, <1>3
<1>5. QED
  BY <1>1, <1>3, <1>4

\* A sequence over a set is one over any larger set.
LEMMA LargerSet ==
  ASSUME NEW S, NEW T, S \subseteq T, NEW s \in Seq(S)
  PROVE  s \in Seq(T)
<1>1. Len(s) \in Nat /\ DOMAIN s = 1 .. Len(s) /\ \A i \in 1 .. Len(s) : s[i] \in T
  OBVIOUS
<1>2. s = [i \in 1 .. Len(s) |-> s[i]]
  OBVIOUS
<1>3. [i \in 1 .. Len(s) |-> s[i]] \in Seq(T)
  BY <1>1
<1>4. QED
  BY <1>2, <1>3

\* Sequences with the same elements are the same.
LEMMA SameSequence ==
  ASSUME NEW S, NEW s \in Seq(S), NEW t \in Seq(S), Len(s) = Len(t),
         \A i \in 1 .. Len(s) : s[i] = t[i]
  PROVE  s = t
<1>1. s = [i \in 1 .. Len(s) |-> s[i]] /\ t = [i \in 1 .. Len(t) |-> t[i]]
  OBVIOUS
<1>2. [i \in 1 .. Len(s) |-> s[i]] = [i \in 1 .. Len(t) |-> t[i]]
  OBVIOUS
<1>3. QED
  BY <1>1, <1>2, Zenon

\* Two sequences of one element, one behind the other.
LEMMA PairOfSingles ==
  ASSUME NEW S, NEW x \in S, NEW y \in S
  PROVE  <<x>> \o <<y>> = <<x, y>>
<1>1. /\ <<x>> \in Seq(S) /\ <<y>> \in Seq(S) /\ Len(<<x>>) = 1 /\ Len(<<y>>) = 1
      /\ <<x>>[1] = x /\ <<y>>[1] = y
  OBVIOUS
<1>2. /\ <<x>> \o <<y>> \in Seq(S) /\ Len(<<x>> \o <<y>>) = 2
      /\ (<<x>> \o <<y>>)[1] = x /\ (<<x>> \o <<y>>)[2] = y
  BY <1>1
<1>3. <<x, y>> \in Seq(S) /\ Len(<<x, y>>) = 2 /\ <<x, y>>[1] = x /\ <<x, y>>[2] = y
  OBVIOUS
<1>4. \A i \in 1 .. 2 : (<<x>> \o <<y>>)[i] = <<x, y>>[i]
  BY <1>2, <1>3
<1>5. QED
  BY <1>2, <1>3, <1>4, SameSequence

-----------------------------------------------------------------------------
(* Sequences of sequences, one behind the other.                            *)

\* f has the beginnings of the sequence s, from its first element to its n-th, one
\* behind the other, as FlattenSeq has them.
IsChain(f, s, n) ==
  f = [i \in 1 .. n |-> IF i = 1 THEN s[i] ELSE f[i - 1] \o s[i]]

\* What it says of the beginnings.
LEMMA ChainRows ==
  ASSUME NEW f, NEW s, NEW n \in Nat, IsChain(f, s, n)
  PROVE  \A i \in 1 .. n : f[i] = IF i = 1 THEN s[i] ELSE f[i - 1] \o s[i]
BY DEF IsChain

\* There is such a function.
LEMMA ChainExists ==
  ASSUME NEW s, NEW n \in Nat
  PROVE  \E f : IsChain(f, s, n)
<1> DEFINE T == {m \in Nat : \E f : IsChain(f, s, m)}
<1>1. 0 \in T
  <2> DEFINE f == [i \in 1 .. 0 |-> s[i]]
  <2>1. f = [i \in 1 .. 0 |-> IF i = 1 THEN s[i] ELSE f[i - 1] \o s[i]]
    OBVIOUS
  <2>2. QED
    BY <2>1 DEF IsChain
<1>2. ASSUME NEW m \in Nat, m \in T PROVE m + 1 \in T
  <2>1. PICK f : IsChain(f, s, m)
    BY <1>2
  <2> DEFINE g == [i \in 1 .. m + 1 |-> IF i <= m THEN f[i]
                                        ELSE IF i = 1 THEN s[i] ELSE f[i - 1] \o s[i]]
             step(i) == IF i = 1 THEN s[i] ELSE g[i - 1] \o s[i]
  <2>2. ASSUME NEW i \in 1 .. m + 1 PROVE g[i] = step(i)
    <3>1. CASE i <= m
      <4>1. f[i] = IF i = 1 THEN s[i] ELSE f[i - 1] \o s[i]
        BY <2>1, <3>1, ChainRows
      <4>2. i # 1 => g[i - 1] = f[i - 1]
        BY <3>1
      <4>3. QED
        BY <3>1, <4>1, <4>2
    <3>2. CASE ~ i <= m
      <4>1. i = m + 1 /\ (i # 1 => g[i - 1] = f[i - 1])
        BY <3>2
      <4>2. QED
        BY <3>2, <4>1
    <3>3. QED
      BY <3>1, <3>2
  <2>3. g = [i \in 1 .. m + 1 |-> step(i)]
    BY <2>2
  <2>4. IsChain(g, s, m + 1)
    BY <2>3 DEF IsChain
  <2>5. QED
    BY <2>4
<1>3. Nat \subseteq T
  <2> HIDE DEF T
  <2>1. QED
    BY <1>1, <1>2, SetInduction
<1>4. QED
  BY <1>3

\* The same sequences have the same beginnings, whatever comes behind them.
LEMMA ChainsAgree ==
  ASSUME NEW f, NEW s, NEW m \in Nat, IsChain(f, s, m),
         NEW g, NEW t, NEW n \in Nat, IsChain(g, t, n),
         NEW k \in Nat, k <= m, k <= n, \A i \in 1 .. k : s[i] = t[i]
  PROVE  \A i \in 1 .. k : f[i] = g[i]
<1> DEFINE T == {j \in Nat : j + 1 <= k => f[j + 1] = g[j + 1]}
<1>1. \A i \in 1 .. k : /\ f[i] = IF i = 1 THEN s[i] ELSE f[i - 1] \o s[i]
                        /\ g[i] = IF i = 1 THEN t[i] ELSE g[i - 1] \o t[i]
  <2>1. \A i \in 1 .. k : i \in 1 .. m /\ i \in 1 .. n
    OBVIOUS
  <2>2. QED
    BY <2>1, ChainRows
<1>2. 0 \in T
  <2>1. CASE 1 <= k
    BY <1>1, <2>1
  <2>2. QED
    BY <2>1
<1>3. ASSUME NEW j \in Nat, j \in T PROVE j + 1 \in T
  <2> DEFINE i == j + 1 + 1
  <2>1. CASE i <= k
    <3>1. i \in 1 .. k /\ i # 1 /\ i - 1 = j + 1 /\ j + 1 <= k
      BY <2>1
    <3>2. f[i - 1] = g[i - 1]
      BY <1>3, <3>1
    <3>3. f[i] = g[i]
      BY <1>1, <3>1, <3>2
    <3>4. QED
      BY <3>3
  <2>2. QED
    BY <2>1
<1>4. Nat \subseteq T
  <2> HIDE DEF T
  <2>1. QED
    BY <1>2, <1>3, SetInduction
<1>5. ASSUME NEW i \in 1 .. k PROVE f[i] = g[i]
  <2>1. i - 1 \in T /\ (i - 1) + 1 = i
    BY <1>4
  <2>2. QED
    BY <2>1
<1>6. QED
  BY <1>5

\* Whatever such function there is says what FlattenSeq does, also of a beginning.
LEMMA FlattenByChain ==
  ASSUME NEW s, Len(s) \in Nat \ {0}, NEW t, NEW f, NEW n \in Nat, Len(s) <= n,
         IsChain(f, t, n), \A i \in 1 .. Len(s) : s[i] = t[i]
  PROVE  FlattenSeq(s) = f[Len(s)]
<1> DEFINE g == CHOOSE g : g = [i \in 1 .. Len(s) |-> IF i = 1 THEN s[i] ELSE g[i - 1] \o s[i]]
<1>1. FlattenSeq(s) = g[Len(s)]
  BY DEF FlattenSeq
<1>2. IsChain(g, s, Len(s))
  <2>1. PICK h : h = [i \in 1 .. Len(s) |-> IF i = 1 THEN s[i] ELSE h[i - 1] \o s[i]]
    BY ChainExists DEF IsChain
  <2>2. QED
    BY <2>1 DEF IsChain
<1> HIDE DEF g
<1>3. Len(s) \in 1 .. Len(s)
  OBVIOUS
<1>4. QED
  BY <1>1, <1>2, <1>3, ChainsAgree

\* Nothing but the sequences themselves matters.
LEMMA FlattenSame ==
  ASSUME NEW s, NEW t, Len(s) \in Nat \ {0}, Len(t) = Len(s), \A i \in 1 .. Len(s) : s[i] = t[i]
  PROVE  FlattenSeq(s) = FlattenSeq(t)
<1> DEFINE n == Len(s)
<1>1. n \in Nat /\ n \in 1 .. n /\ n <= n
  OBVIOUS
<1>2. PICK f : IsChain(f, s, n)
  BY <1>1, ChainExists
<1>3. PICK g : IsChain(g, t, n)
  BY <1>1, ChainExists
<1>4. FlattenSeq(s) = f[n] /\ FlattenSeq(t) = g[n]
  BY <1>1, <1>2, <1>3, FlattenByChain
<1>5. f[n] = g[n]
  BY <1>1, <1>2, <1>3, ChainsAgree
<1>6. QED
  BY <1>4, <1>5

\* Of no sequence, of one, and of one more at the end.
LEMMA FlattenGrows ==
  ASSUME NEW S, NEW s \in Seq(Seq(S)), NEW x \in Seq(S)
  PROVE  /\ FlattenSeq(<<>>) = <<>>
         /\ FlattenSeq(<<x>>) = x
         /\ FlattenSeq(Append(s, x)) = FlattenSeq(s) \o x
<1>1. FlattenSeq(<<>>) = <<>>
  BY DEF FlattenSeq
<1>2. FlattenSeq(<<x>>) = x
  <2> DEFINE t == <<x>>
  <2>1. Len(t) = 1 /\ t[1] = x
    OBVIOUS
  <2>2. PICK f : IsChain(f, t, 1)
    BY ChainExists
  <2> HIDE DEF t
  <2>3. f[1] = x
    BY <2>1, <2>2, ChainRows
  <2>4. FlattenSeq(t) = f[1]
    <3>1. Len(t) \in Nat \ {0} /\ 1 \in Nat /\ Len(t) <= 1
      BY <2>1
    <3>2. FlattenSeq(t) = f[Len(t)]
      BY <2>2, <3>1, FlattenByChain
    <3>3. QED
      BY <2>1, <3>2
  <2>5. QED
    BY <2>3, <2>4 DEF t
<1>3. FlattenSeq(Append(s, x)) = FlattenSeq(s) \o x
  <2> DEFINE n == Len(s)
             t == Append(s, x)
  <2>1. n \in Nat /\ Len(t) = n + 1 /\ t[n + 1] = x /\ \A i \in 1 .. n : t[i] = s[i]
    OBVIOUS
  <2>2. CASE n = 0
    <3>1. s = <<>> /\ t = <<x>> /\ <<>> \o x = x
      BY <2>2
    <3>2. QED
      BY <1>1, <1>2, <3>1
  <2>3. CASE n # 0
    <3>1. n \in 1 .. n /\ n <= n + 1 /\ n + 1 <= n + 1 /\ n + 1 \in Nat \ {0} /\ n \in Nat \ {0}
      BY <2>1, <2>3
    <3> DEFINE m == n + 1
    <3> HIDE DEF n, m, t
    <3>2. m \in Nat /\ m \in Nat \ {0} /\ m <= m /\ m \in 1 .. m /\ m # 1 /\ m - 1 = n /\ n <= m
      BY <3>1, <2>3 DEF m
    <3>3. PICK f : IsChain(f, t, m)
      BY <3>2, ChainExists
    <3>4. FlattenSeq(t) = f[m]
      BY <2>1, <3>2, <3>3, FlattenByChain DEF m
    <3>5. FlattenSeq(s) = f[n]
      BY <2>1, <3>1, <3>2, <3>3, FlattenByChain DEF n
    <3>6. f[m] = f[n] \o x
      <4>1. f[m] = IF m = 1 THEN t[m] ELSE f[m - 1] \o t[m]
        <5>1. \A i \in 1 .. m : f[i] = IF i = 1 THEN t[i] ELSE f[i - 1] \o t[i]
          BY <3>2, <3>3, ChainRows
        <5>2. QED
          BY <3>2, <5>1
      <4>2. QED
        BY <2>1, <3>2, <4>1 DEF m
    <3>7. QED
      BY <3>4, <3>5, <3>6 DEF t
  <2>4. QED
    BY <2>2, <2>3
<1>4. QED
  BY <1>1, <1>2, <1>3

\* A sequence that is not empty is its front with its last element at the end.
LEMMA FrontAndLast ==
  ASSUME NEW S, NEW s \in Seq(S), s # <<>>
  PROVE  /\ Front(s) \in Seq(S) /\ Last(s) \in S
         /\ Len(s) \in Nat \ {0} /\ Len(Front(s)) = Len(s) - 1
         /\ \A i \in 1 .. Len(s) - 1 : Front(s)[i] = s[i]
         /\ Last(s) = s[Len(s)]
         /\ s = Append(Front(s), Last(s))
<1>1. Len(s) \in Nat \ {0} /\ Len(s) \in 1 .. Len(s)
  OBVIOUS
<1>2. /\ Front(s) \in Seq(S) /\ Len(Front(s)) = Len(s) - 1
      /\ \A i \in 1 .. Len(s) - 1 : Front(s)[i] = s[i]
  <2>1. Front(s) = [i \in 1 .. Len(s) - 1 |-> s[i]]
    <3>1. Front(s) = SubSeq(s, 1, Len(s) - 1)
      BY DEF Front
    <3>2. QED
      BY <1>1, <3>1
  <2>2. Len(s) - 1 \in Nat /\ \A i \in 1 .. Len(s) - 1 : s[i] \in S
    BY <1>1
  <2>3. QED
    BY <2>1, <2>2
<1>3. Last(s) \in S /\ Last(s) = s[Len(s)]
  BY <1>1 DEF Last
<1>4. s = Append(Front(s), Last(s))
  <2> DEFINE t == Append(Front(s), Last(s))
  <2>1. /\ t \in Seq(S) /\ Len(t) = Len(s) /\ t[Len(s)] = Last(s)
        /\ \A i \in 1 .. Len(s) - 1 : t[i] = Front(s)[i]
    BY <1>1, <1>2, <1>3
  <2>2. \A i \in 1 .. Len(s) : s[i] = t[i]
    <3>1. \A i \in 1 .. Len(s) : i = Len(s) \/ i \in 1 .. Len(s) - 1
      BY <1>1
    <3>2. QED
      BY <1>2, <1>3, <2>1, <3>1
  <2> HIDE DEF t
  <2>3. QED
    BY <2>1, <2>2, SameSequence DEF t
<1>5. QED
  BY <1>1, <1>2, <1>3, <1>4

\* What is behind one another is over the same set.
LEMMA FlattenTyped ==
  ASSUME NEW S, NEW s \in Seq(Seq(S))
  PROVE  FlattenSeq(s) \in Seq(S)
<1> DEFINE T == {m \in Nat : \A t \in Seq(Seq(S)) : Len(t) = m => FlattenSeq(t) \in Seq(S)}
<1>1. 0 \in T
  <2>1. ASSUME NEW t \in Seq(Seq(S)), Len(t) = 0 PROVE FlattenSeq(t) \in Seq(S)
    <3>1. t = <<>> /\ <<>> \in Seq(S)
      BY <2>1
    <3>2. QED
      BY <3>1, FlattenGrows
  <2>2. QED
    BY <2>1
<1>2. ASSUME NEW m \in Nat, m \in T PROVE m + 1 \in T
  <2>1. ASSUME NEW t \in Seq(Seq(S)), Len(t) = m + 1 PROVE FlattenSeq(t) \in Seq(S)
    <3>1. t # <<>> /\ Len(t) - 1 = m
      BY <2>1
    <3>2. /\ Front(t) \in Seq(Seq(S)) /\ Last(t) \in Seq(S) /\ Len(Front(t)) = m
          /\ t = Append(Front(t), Last(t))
      BY <2>1, <3>1, FrontAndLast
    <3>3. FlattenSeq(Front(t)) \in Seq(S)
      BY <1>2, <3>2
    <3>4. FlattenSeq(t) = FlattenSeq(Front(t)) \o Last(t)
      BY <3>2, FlattenGrows
    <3>5. QED
      BY <3>2, <3>3, <3>4
  <2>2. QED
    BY <2>1
<1>3. Nat \subseteq T
  <2> HIDE DEF T
  <2>1. QED
    BY <1>1, <1>2, SetInduction
<1>4. Len(s) \in Nat
  OBVIOUS
<1>5. QED
  BY <1>3, <1>4

\* What was appended is the last, and the rest the front.
LEMMA FrontOfAppend ==
  ASSUME NEW S, NEW s \in Seq(S), NEW e \in S
  PROVE  /\ Append(s, e) \in Seq(S) /\ Append(s, e) # <<>>
         /\ Front(Append(s, e)) = s /\ Last(Append(s, e)) = e
<1> DEFINE t == Append(s, e)
<1>1. /\ t \in Seq(S) /\ t # <<>> /\ Len(t) = Len(s) + 1 /\ t[Len(s) + 1] = e
      /\ \A i \in 1 .. Len(s) : t[i] = s[i]
  OBVIOUS
<1> HIDE DEF t
<1>2. /\ Front(t) \in Seq(S) /\ Len(Front(t)) = Len(t) - 1 /\ Last(t) = t[Len(t)]
      /\ \A i \in 1 .. Len(t) - 1 : Front(t)[i] = t[i]
  BY <1>1, FrontAndLast
<1>3. Len(s) \in Nat /\ Len(t) - 1 = Len(s) /\ Len(Front(t)) = Len(s)
  BY <1>1, <1>2
<1>4. \A i \in 1 .. Len(s) : Front(t)[i] = s[i]
  BY <1>1, <1>2, <1>3
<1>5. Front(t) = s
  BY <1>2, <1>3, <1>4, SameSequence
<1>6. Last(t) = e
  BY <1>1, <1>2
<1>7. QED
  BY <1>1, <1>5, <1>6 DEF t

\* How sequences are put one behind the other makes no difference.
LEMMA ConcatAssociates ==
  ASSUME NEW S, NEW a \in Seq(S), NEW b \in Seq(S), NEW c \in Seq(S)
  PROVE  /\ a \o b \in Seq(S) /\ b \o c \in Seq(S)
         /\ (a \o b) \o c = a \o (b \o c)
         /\ a \o <<>> = a /\ <<>> \o a = a
OBVIOUS

\* Appending is putting a sequence of one behind.
LEMMA AppendIsConcat ==
  ASSUME NEW S, NEW s \in Seq(S), NEW e \in S
  PROVE  <<e>> \in Seq(S) /\ Append(s, e) = s \o <<e>>
<1> DEFINE one == <<e>>
<1>1. one \in Seq(S) /\ Len(one) = 1 /\ one[1] = e
  OBVIOUS
<1> HIDE DEF one
<1>2. /\ s \o one \in Seq(S) /\ Len(s \o one) = Len(s) + 1
      /\ (s \o one)[Len(s) + 1] = e /\ \A i \in 1 .. Len(s) : (s \o one)[i] = s[i]
  BY <1>1
<1>3. /\ Append(s, e) \in Seq(S) /\ Len(Append(s, e)) = Len(s) + 1
      /\ Append(s, e)[Len(s) + 1] = e /\ \A i \in 1 .. Len(s) : Append(s, e)[i] = s[i]
  OBVIOUS
<1>4. \A i \in 1 .. Len(s) + 1 : Append(s, e)[i] = (s \o one)[i]
  <2>1. \A i \in 1 .. Len(s) + 1 : i = Len(s) + 1 \/ i \in 1 .. Len(s)
    OBVIOUS
  <2>2. QED
    BY <1>2, <1>3, <2>1
<1>5. Append(s, e) = s \o one
  BY <1>2, <1>3, <1>4, SameSequence
<1>6. QED
  BY <1>1, <1>5 DEF one

\* Sequences are built by appending to the empty one.
LEMMA SequenceInduction ==
  ASSUME NEW S, NEW T, <<>> \in T, \A s \in Seq(S) : s \in T => \A e \in S : Append(s, e) \in T
  PROVE  Seq(S) \subseteq T
<1> DEFINE N == {n \in Nat : \A s \in Seq(S) : Len(s) = n => s \in T}
<1>1. 0 \in N
  <2>1. \A s \in Seq(S) : Len(s) = 0 => s = <<>>
    OBVIOUS
  <2>2. QED
    BY <2>1
<1>2. ASSUME NEW n \in Nat, n \in N PROVE n + 1 \in N
  <2>1. ASSUME NEW s \in Seq(S), Len(s) = n + 1 PROVE s \in T
    <3>1. s # <<>>
      BY <2>1
    <3>2. /\ Front(s) \in Seq(S) /\ Last(s) \in S /\ Len(Front(s)) = n
          /\ s = Append(Front(s), Last(s))
      BY <2>1, <3>1, FrontAndLast
    <3>3. Front(s) \in T
      BY <1>2, <3>2
    <3>4. Append(Front(s), Last(s)) \in T
      BY <3>2, <3>3
    <3>5. QED
      BY <3>2, <3>4
  <2>2. QED
    BY <2>1
<1>3. Nat \subseteq N
  <2> HIDE DEF N
  <2>1. QED
    BY <1>1, <1>2, SetInduction
<1>4. ASSUME NEW s \in Seq(S) PROVE s \in T
  <2>1. Len(s) \in N
    BY <1>3
  <2>2. QED
    BY <2>1
<1>5. QED
  BY <1>4

\* Appending to the second of two sequences appends to both of them together.
LEMMA ConcatAppends ==
  ASSUME NEW S, NEW s \in Seq(S), NEW t \in Seq(S), NEW e \in S
  PROVE  /\ s \o t \in Seq(S) /\ Append(t, e) \in Seq(S)
         /\ s \o Append(t, e) = Append(s \o t, e)
         /\ Append(s, e) # <<>>
         /\ Len(Append(s, e)) = Len(s) + 1
<1>1. s \o t \in Seq(S) /\ Append(t, e) \in Seq(S) /\ <<e>> \in Seq(S)
  OBVIOUS
<1>2. Append(t, e) = t \o <<e>> /\ Append(s \o t, e) = (s \o t) \o <<e>>
  BY <1>1, AppendIsConcat
<1>3. (s \o t) \o <<e>> = s \o (t \o <<e>>)
  BY <1>1, ConcatAssociates
<1>4. Append(s, e) # <<>> /\ Len(Append(s, e)) = Len(s) + 1
  OBVIOUS
<1>5. QED
  BY <1>1, <1>2, <1>3, <1>4

\* To flatten is to put the first sequence before the others.
LEMMA FlattenFirst ==
  ASSUME NEW S, NEW s \in Seq(Seq(S)), NEW x \in Seq(S)
  PROVE  FlattenSeq(<<x>> \o s) = x \o FlattenSeq(s)
<1> DEFINE T == {t \in Seq(Seq(S)) : FlattenSeq(<<x>> \o t) = x \o FlattenSeq(t)}
           one == <<x>>
           U == Seq(S)
<1>1. one \in Seq(U)
  OBVIOUS
<1>2. <<>> \in Seq(U) /\ <<>> \in Seq(S)
  OBVIOUS
<1>3. FlattenSeq(<<>>) = <<>> /\ FlattenSeq(one) = x
  BY <1>2, FlattenGrows
<1>4. <<>> \in T
  <2>1. one \o <<>> = one /\ x \o <<>> = x
    BY <1>1, ConcatAssociates
  <2>2. QED
    BY <1>2, <1>3, <2>1
<1>5. ASSUME NEW t \in Seq(U), t \in T, NEW e \in U PROVE Append(t, e) \in T
  <2> HIDE DEF one
  <2>1. one \o t \in Seq(U) /\ Append(t, e) \in Seq(U) /\ one \o Append(t, e) = Append(one \o t, e)
    BY <1>1, ConcatAppends
  <2>2. FlattenSeq(Append(one \o t, e)) = FlattenSeq(one \o t) \o e
    BY <2>1, FlattenGrows
  <2>3. FlattenSeq(Append(t, e)) = FlattenSeq(t) \o e /\ FlattenSeq(t) \in Seq(S)
    BY FlattenGrows, FlattenTyped
  <2>4. FlattenSeq(one \o t) = x \o FlattenSeq(t)
    BY <1>5 DEF one
  <2>5. (x \o FlattenSeq(t)) \o e = x \o (FlattenSeq(t) \o e)
    BY <2>3, ConcatAssociates
  <2>6. QED
    BY <2>1, <2>2, <2>3, <2>4, <2>5 DEF one
<1>6. Seq(U) \subseteq T
  <2> HIDE DEF T, U
  <2>1. QED
    BY <1>4, <1>5, SequenceInduction
<1>7. QED
  BY <1>6

\* What stands where in two sequences put together.
LEMMA ConcatCells ==
  ASSUME NEW S, NEW s \in Seq(S), NEW t \in Seq(S)
  PROVE  /\ s \o t \in Seq(S) /\ Len(s \o t) = Len(s) + Len(t)
         /\ \A i \in 1 .. Len(s) : (s \o t)[i] = s[i]
         /\ \A j \in 1 .. Len(t) : (s \o t)[Len(s) + j] = t[j]
<1>1. s \o t \in Seq(S)
  OBVIOUS
<1>2. Len(s \o t) = Len(s) + Len(t)
  OBVIOUS
<1>3. ASSUME NEW i \in 1 .. Len(s) PROVE (s \o t)[i] = s[i]
  OBVIOUS
<1>4. ASSUME NEW j \in 1 .. Len(t) PROVE (s \o t)[Len(s) + j] = t[j]
  OBVIOUS
<1>5. QED
  BY <1>1, <1>2, <1>3, <1>4

\* A sequence that is not empty has a first element, and others behind it.
LEMMA HeadAndTail ==
  ASSUME NEW S, NEW s \in Seq(S), s # <<>>
  PROVE  /\ Head(s) \in S /\ Tail(s) \in Seq(S) /\ Head(s) = s[1]
         /\ Len(Tail(s)) = Len(s) - 1 /\ \A i \in 1 .. Len(s) - 1 : Tail(s)[i] = s[i + 1]
         /\ s = <<Head(s)>> \o Tail(s)
<1>1. /\ Head(s) \in S /\ Tail(s) \in Seq(S) /\ Head(s) = s[1] /\ Len(s) \in Nat \ {0}
      /\ Len(Tail(s)) = Len(s) - 1 /\ \A i \in 1 .. Len(s) - 1 : Tail(s)[i] = s[i + 1]
  OBVIOUS
<1> DEFINE h == Head(s)
           t == Tail(s)
           one == <<h>>
<1>2. one \in Seq(S) /\ Len(one) = 1 /\ one[1] = h
  BY <1>1
<1>3. t \in Seq(S) /\ Len(t) = Len(s) - 1 /\ h = s[1] /\ \A i \in 1 .. Len(s) - 1 : t[i] = s[i + 1]
  BY <1>1
<1> HIDE DEF h, t, one
<1>4. /\ one \o t \in Seq(S) /\ Len(one \o t) = 1 + Len(t) /\ (one \o t)[1] = h
      /\ \A j \in 1 .. Len(t) : (one \o t)[1 + j] = t[j]
  BY <1>2, <1>3, ConcatCells
<1>5. ASSUME NEW i \in 1 .. Len(s) PROVE (one \o t)[i] = s[i]
  <2>1. CASE i = 1
    BY <1>3, <1>4, <2>1
  <2>2. CASE i # 1
    <3> DEFINE j == i - 1
    <3>1. j \in 1 .. Len(s) - 1 /\ i = j + 1 /\ i = 1 + j
      BY <1>1, <2>2
    <3> HIDE DEF j
    <3>2. QED
      BY <1>3, <1>4, <3>1
  <2>3. QED
    BY <2>1, <2>2
<1>6. Len(one \o t) = Len(s)
  BY <1>1, <1>3, <1>4
<1>7. s = one \o t
  BY <1>4, <1>5, <1>6, SameSequence
<1>8. QED
  BY <1>1, <1>7 DEF h, t, one
=============================================================================
