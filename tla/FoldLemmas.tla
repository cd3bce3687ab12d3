------------------------------- MODULE FoldLemmas ------------------------------
(***************************************************************************)
(* Facts about numbers and about functions defined by recursion on one,    *)
(* and what they give for a fold in turn (Stepwise).  Op is the fold's     *)
(* step: a module about a fold with some step takes an instance of these   *)
(* lemmas, with that step for Op.                                          *)
(***************************************************************************)
EXTENDS Stepwise, WellFoundedInduction, TLAPS

(* Every nonempty set of numbers has a least one: the index the code finds *)
(* with `position` and `find`.                                             *)
LEMMA LeastNumber ==
  ASSUME NEW S \in SUBSET Nat, S # {}
  PROVE  LET least == CHOOSE i \in S : \A j \in S : i <= j
         IN  least \in S /\ \A j \in S : least <= j
<1>1. PICK x \in S : \A y \in S : ~ (<<y, x>> \in OpToRel(<, Nat))
  BY NatLessThanWellFounded, WFMin
<1>2. \A y \in S : ~ (y < x)
  BY <1>1, Zenon DEF OpToRel
<1>3. \A y \in S : x <= y
  BY <1>2
<1> QED  BY <1>3

(* A set of numbers up to N that holds 0, and each after the one before.   *)
LEMMA Inductive ==
  ASSUME NEW N \in Nat, NEW T, T \subseteq 0..N, 0 \in T,
         \A i \in 1..N : i - 1 \in T => i \in T
  PROVE  T = 0..N
<1> DEFINE Q == (0..N) \ T
<1> SUFFICES ASSUME Q # {} PROVE FALSE
  OBVIOUS
<1>1. Q \in SUBSET Nat
  OBVIOUS
<1> HIDE DEF Q
<1>2. PICK m \in Q : \A k \in Q : m <= k
  BY <1>1, LeastNumber
<1>3. m \in 1..N
  BY <1>2 DEF Q
<1>4. m - 1 \in Q
  BY <1>2, <1>3 DEF Q
<1> QED  BY <1>1, <1>2, <1>4

(* A sequence over a set is one over any larger set.                       *)
LEMMA Wider ==
  \A S, T : S \subseteq T => \A s \in Seq(S) : s \in Seq(T)
<1> SUFFICES ASSUME NEW S, NEW T, S \subseteq T, NEW s \in Seq(S)
             PROVE  s \in Seq(T)
  OBVIOUS
<1>1. Len(s) \in Nat /\ s = [i \in 1..Len(s) |-> s[i]] /\ \A i \in 1..Len(s) : s[i] \in S
  OBVIOUS
<1>2. \A i \in 1..Len(s) : s[i] \in T
  BY <1>1
<1> QED  BY <1>1, <1>2

--------------------------------------------------------------------------------
(* Functions defined by recursion on a number.                             *)

(* A function on 0..m of which each value is g of the value before it.     *)
Recurs(f, m, base, g) ==
  f = [n \in 0..m |-> IF n = 0 THEN base ELSE g[<<n, f[n - 1]>>]]

(* Such an equation has a solution.                                        *)
LEMMA RecursionExists ==
  ASSUME NEW N \in Nat, NEW V, NEW base \in V, NEW g \in [(1..N) \X V -> V]
  PROVE  \E f \in [0..N -> V] : Recurs(f, N, base, g)
<1> DEFINE Is(f, m) == f \in [0..m -> V] /\ Recurs(f, m, base, g)
           Q == {m \in 0..N : ~ \E f : Is(f, m)}
           least == CHOOSE m \in Q : \A k \in Q : m <= k
<1> SUFFICES ASSUME Q # {} PROVE FALSE
  BY N \in 0..N
<1>1. least \in Q /\ \A k \in Q : least <= k
  <2>1. Q \in SUBSET Nat
    OBVIOUS
  <2> HIDE DEF Q
  <2> QED  BY <2>1, LeastNumber
<1>2. PICK m \in Q : \A k \in Q : m <= k
  BY <1>1
<1>3. m # 0
  <2> DEFINE f == [n \in 0..0 |-> base]
  <2>1. f \in [0..0 -> V]
    OBVIOUS
  <2>2. f = [n \in 0..0 |-> IF n = 0 THEN base ELSE g[<<n, f[n - 1]>>]]
    OBVIOUS
  <2>3. Is(f, 0)
    BY <2>1, <2>2, Zenon DEF Recurs
  <2> HIDE DEF Is, f
  <2> QED  BY <2>3
<1>4. m \in 1..N /\ m - 1 \in 0..N /\ ~(m <= m - 1)
  BY <1>3
<1>5. PICK e : Is(e, m - 1)
  <2>1. m - 1 \notin Q
    BY <1>2, <1>4
  <2> HIDE DEF Is
  <2> QED  BY <1>4, <2>1
<1>6. e \in [0..(m - 1) -> V]
      /\ e = [n \in 0..(m - 1) |-> IF n = 0 THEN base ELSE g[<<n, e[n - 1]>>]]
  BY <1>5, Zenon DEF Recurs
<1> DEFINE f == [n \in 0..m |-> IF n = m THEN g[<<m, e[m - 1]>>] ELSE e[n]]
<1>7. e[m - 1] \in V /\ g[<<m, e[m - 1]>>] \in V
  <2>1. e[m - 1] \in V
    BY <1>4, <1>6
  <2> QED  BY <1>4, <2>1
<1>8. f \in [0..m -> V]
  <2>1. \A n \in 0..m : n # m => n \in 0..(m - 1)
    BY <1>4
  <2> QED  BY <1>6, <1>7, <2>1
<1>9. f = [n \in 0..m |-> IF n = 0 THEN base ELSE g[<<n, f[n - 1]>>]]
  <2> SUFFICES ASSUME NEW n \in 0..m
               PROVE  f[n] = IF n = 0 THEN base ELSE g[<<n, f[n - 1]>>]
    OBVIOUS
  <2>1. CASE n = m
    <3>1. m - 1 \in 0..m /\ m - 1 # m
      BY <1>4
    <3>2. f[m - 1] = e[m - 1]
      BY <3>1
    <3> QED  BY <1>3, <2>1, <3>2
  <2>2. CASE n # m /\ n = 0
    BY <1>6, <2>2, <1>4
  <2>3. CASE n # m /\ n # 0
    <3>1. n \in 0..(m - 1) /\ n - 1 \in 0..(m - 1) /\ n - 1 \in 0..m /\ n - 1 # m
      BY <1>4, <2>3
    <3>2. e[n] = g[<<n, e[n - 1]>>]
      BY <1>6, <2>3, <3>1
    <3>3. f[n] = e[n] /\ f[n - 1] = e[n - 1]
      BY <2>3, <3>1
    <3> QED  BY <2>3, <3>2, <3>3
  <2> QED  BY <2>1, <2>2, <2>3
<1>10. Is(f, m)
  BY <1>8, <1>9, Zenon DEF Recurs
<1> HIDE DEF Is, f
<1> QED  BY <1>2, <1>10

--------------------------------------------------------------------------------
(* What `Only` leaves of a sequence.                                       *)

Filters(f, s, K) ==
  f = [n \in 0..Len(s) |->
         IF n = 0 THEN <<>>
         ELSE IF s[n] \in K THEN Append(f[n - 1], s[n]) ELSE f[n - 1]]

(* Two filterings of one sequence are equal.                               *)
LEMMA FiltersAgree ==
  ASSUME NEW S, NEW s \in Seq(S), NEW K, NEW f, NEW h, Filters(f, s, K), Filters(h, s, K)
  PROVE  f = h
<1> DEFINE Q == {n \in 0..Len(s) : f[n] # h[n]}
           least == CHOOSE n \in Q : \A k \in Q : n <= k
<1>1. Len(s) \in Nat
  OBVIOUS
<1>2. /\ f = [n \in 0..Len(s) |->
                IF n = 0 THEN <<>>
                ELSE IF s[n] \in K THEN Append(f[n - 1], s[n]) ELSE f[n - 1]]
      /\ h = [n \in 0..Len(s) |->
                IF n = 0 THEN <<>>
                ELSE IF s[n] \in K THEN Append(h[n - 1], s[n]) ELSE h[n - 1]]
  BY Zenon DEF Filters
<1>3. Q = {}
  <2> SUFFICES ASSUME Q # {} PROVE FALSE
    OBVIOUS
  <2>1. least \in Q /\ \A k \in Q : least <= k
    <3>1. Q \in SUBSET Nat
      BY <1>1
    <3> HIDE DEF Q
    <3> QED  BY <3>1, LeastNumber
  <2>2. PICK n \in Q : \A k \in Q : n <= k
    BY <2>1
  <2>3. n # 0
    BY <1>1, <1>2
  <2>4. n - 1 \in 0..Len(s) /\ ~(n <= n - 1)
    BY <1>1, <2>3
  <2>5. f[n - 1] = h[n - 1]
    BY <2>2, <2>4
  <2> QED  BY <1>2, <2>3, <2>5
<1> QED  BY <1>2, <1>3

(* What is left of a sequence is the last step of any of its filterings.   *)
LEMMA OnlyIs ==
  ASSUME NEW S, NEW s \in Seq(S), NEW K, NEW f, Filters(f, s, K)
  PROVE  Only(s, K) = f[Len(s)]
<1> DEFINE kept == CHOOSE h : Filters(h, s, K)
<1>1. Only(s, K) = kept[Len(s)]
  BY Zenon DEF Only, Filters
<1>2. Filters(kept, s, K)
  OBVIOUS
<1> HIDE DEF kept
<1>3. kept = f
  BY <1>2, FiltersAgree
<1> QED  BY <1>1, <1>3

(* There is one, into sequences of the elements kept.                      *)
LEMMA OnlySolves ==
  ASSUME NEW S, NEW s \in Seq(S), NEW K
  PROVE  \E f \in [0..Len(s) -> Seq(S \cap K)] : Filters(f, s, K) /\ Only(s, K) = f[Len(s)]
<1> DEFINE V == Seq(S \cap K)
           g == [p \in (1..Len(s)) \X V |->
                   IF s[p[1]] \in K THEN Append(p[2], s[p[1]]) ELSE p[2]]
<1>1. Len(s) \in Nat /\ <<>> \in V
  OBVIOUS
<1>2. g \in [(1..Len(s)) \X V -> V]
  OBVIOUS
<1>3. \A n \in 1..Len(s), v \in V :
        g[<<n, v>>] = IF s[n] \in K THEN Append(v, s[n]) ELSE v
  OBVIOUS
<1>4. PICK f \in [0..Len(s) -> V] : Recurs(f, Len(s), <<>>, g)
  <2> HIDE DEF g, V
  <2> QED  BY <1>1, <1>2, RecursionExists
<1> HIDE DEF g, V
<1>5. f = [n \in 0..Len(s) |-> IF n = 0 THEN <<>> ELSE g[<<n, f[n - 1]>>]]
  BY <1>4, Zenon DEF Recurs
<1>6. ASSUME NEW n \in 0..Len(s), n # 0
      PROVE  g[<<n, f[n - 1]>>] = IF s[n] \in K THEN Append(f[n - 1], s[n]) ELSE f[n - 1]
  <2>1. n \in 1..Len(s) /\ n - 1 \in 0..Len(s)
    BY <1>1, <1>6
  <2>2. f[n - 1] \in V
    BY <2>1
  <2> QED  BY <1>3, <2>1, <2>2
<1>7. f = [n \in 0..Len(s) |->
             IF n = 0 THEN <<>>
             ELSE IF s[n] \in K THEN Append(f[n - 1], s[n]) ELSE f[n - 1]]
  BY <1>5, <1>6
<1>8. Filters(f, s, K)
  BY <1>7, Zenon DEF Filters
<1>9. Only(s, K) = f[Len(s)]
  BY <1>8, OnlyIs
<1> QED  BY <1>8, <1>9 DEF V

(* It keeps only what is in K.                                             *)
LEMMA OnlyType ==
  ASSUME NEW S, NEW s \in Seq(S), NEW K
  PROVE  Only(s, K) \in Seq(S \cap K)
<1>1. PICK f \in [0..Len(s) -> Seq(S \cap K)] : Only(s, K) = f[Len(s)]
  BY OnlySolves
<1>2. Len(s) \in 0..Len(s)
  OBVIOUS
<1> QED  BY <1>1, <1>2

(* What is left, in order: each element comes from a place of its own.     *)
LEMMA OnlyEmbeds ==
  ASSUME NEW S, NEW s \in Seq(S), NEW K
  PROVE  \E g \in [1..Len(Only(s, K)) -> 1..Len(s)] :
           /\ \A i \in 1..Len(Only(s, K)) : Only(s, K)[i] = s[g[i]]
           /\ \A i, j \in 1..Len(Only(s, K)) : i < j => g[i] < g[j]
<1>1. PICK f \in [0..Len(s) -> Seq(S \cap K)] : Filters(f, s, K) /\ Only(s, K) = f[Len(s)]
  BY OnlySolves
<1> DEFINE N == Len(s)
           Comes(kept, n) ==
             \E g \in [1..Len(kept) -> 1..n] :
               /\ \A i \in 1..Len(kept) : kept[i] = s[g[i]]
               /\ \A i, j \in 1..Len(kept) : i < j => g[i] < g[j]
           T == {n \in 0..N : Comes(f[n], n)}
<1>2. N \in Nat
  OBVIOUS
<1>3. f = [n \in 0..N |->
             IF n = 0 THEN <<>>
             ELSE IF s[n] \in K THEN Append(f[n - 1], s[n]) ELSE f[n - 1]]
  BY <1>1, Zenon DEF Filters
<1>4. 0 \in T
  <2>1. 0 \in 0..N /\ Len(f[0]) = 0
    BY <1>2, <1>3
  <2>2. Comes(f[0], 0)
    <3> DEFINE g == [i \in 1..0 |-> i]
    <3>1. g \in [1..Len(f[0]) -> 1..0]
      BY <2>1
    <3> QED  BY <2>1, <3>1
  <2> QED  BY <2>1, <2>2
<1>5. ASSUME NEW n \in 1..N, n - 1 \in T
      PROVE  n \in T
  <2> DEFINE before == f[n - 1]
             k == Len(before)
  <2>1. n - 1 \in 0..N /\ n \in 0..N /\ n # 0 /\ n \in Nat
    BY <1>2
  <2>2. before \in Seq(S \cap K) /\ k \in Nat
    BY <2>1
  <2>3. PICK g \in [1..k -> 1..n - 1] :
          /\ \A i \in 1..k : before[i] = s[g[i]]
          /\ \A i, j \in 1..k : i < j => g[i] < g[j]
    BY <1>5
  <2>4. f[n] = IF s[n] \in K THEN Append(before, s[n]) ELSE before
    BY <1>3, <2>1
  <2> HIDE DEF before
  <2>5. CASE s[n] \notin K
    <3>1. g \in [1..k -> 1..n]
      BY <2>1, <2>2
    <3>2. Comes(before, n)
      BY <2>3, <3>1
    <3> QED  BY <2>1, <2>4, <2>5, <3>2, Zenon
  <2>6. CASE s[n] \in K
    <3> DEFINE more == Append(before, s[n])
               h == [i \in 1..k + 1 |-> IF i = k + 1 THEN n ELSE g[i]]
    <3>1. /\ Len(more) = k + 1 /\ more[k + 1] = s[n]
          /\ \A i \in 1..k : more[i] = before[i]
      BY <2>2
    <3>2. \A i \in 1..k + 1 : i # k + 1 => i \in 1..k
      BY <2>2
    <3>3. h \in [1..Len(more) -> 1..n]
      BY <2>1, <2>2, <3>1, <3>2
    <3>4. \A i \in 1..Len(more) : more[i] = s[h[i]]
      BY <2>2, <2>3, <3>1, <3>2
    <3>5. \A i, j \in 1..Len(more) : i < j => h[i] < h[j]
      <4> SUFFICES ASSUME NEW i \in 1..k + 1, NEW j \in 1..k + 1, i < j
                   PROVE  h[i] < h[j]
        BY <3>1
      <4>1. i \in 1..k /\ h[i] = g[i] /\ g[i] \in 1..n - 1
        BY <2>2
      <4> QED  BY <2>1, <2>2, <2>3, <3>2, <4>1
    <3> HIDE DEF h, more
    <3>6. Comes(more, n)
      BY <3>3, <3>4, <3>5
    <3> QED  BY <2>1, <2>4, <2>6, <3>6, Zenon DEF more
  <2> QED  BY <2>5, <2>6
<1>6. T \subseteq 0..N
  OBVIOUS
<1> HIDE DEF T
<1>7. T = 0..N
  BY <1>2, <1>4, <1>5, <1>6, Inductive
<1>8. N \in T
  BY <1>2, <1>7
<1> QED  BY <1>1, <1>8 DEF T

(* Nothing that is in K is left out.                                       *)
LEMMA OnlyKeeps ==
  ASSUME NEW S, NEW s \in Seq(S), NEW K
  PROVE  \A i \in 1..Len(s) : s[i] \in K =>
           \E j \in 1..Len(Only(s, K)) : Only(s, K)[j] = s[i]
<1>1. PICK f \in [0..Len(s) -> Seq(S \cap K)] : Filters(f, s, K) /\ Only(s, K) = f[Len(s)]
  BY OnlySolves
<1> DEFINE N == Len(s)
           Has(kept, n) == \A i \in 1..n : s[i] \in K =>
                             \E j \in 1..Len(kept) : kept[j] = s[i]
           T == {n \in 0..N : Has(f[n], n)}
<1>2. N \in Nat
  OBVIOUS
<1>3. f = [n \in 0..N |->
             IF n = 0 THEN <<>>
             ELSE IF s[n] \in K THEN Append(f[n - 1], s[n]) ELSE f[n - 1]]
  BY <1>1, Zenon DEF Filters
<1>4. 0 \in T
  BY <1>2
<1>5. ASSUME NEW n \in 1..N, n - 1 \in T
      PROVE  n \in T
  <2> DEFINE before == f[n - 1]
             k == Len(before)
  <2>1. n - 1 \in 0..N /\ n \in 0..N /\ n # 0 /\ n \in Nat
    BY <1>2
  <2>2. before \in Seq(S \cap K) /\ k \in Nat
    BY <2>1
  <2>3. Has(before, n - 1)
    BY <1>5
  <2>4. f[n] = IF s[n] \in K THEN Append(before, s[n]) ELSE before
    BY <1>3, <2>1
  <2> HIDE DEF before
  <2>5. \A i \in 1..n : i # n => i \in 1..n - 1
    BY <2>1
  <2>6. CASE s[n] \notin K
    <3>1. Has(before, n)
      BY <2>3, <2>5, <2>6
    <3> QED  BY <2>1, <2>4, <2>6, <3>1, Zenon
  <2>7. CASE s[n] \in K
    <3> DEFINE more == Append(before, s[n])
    <3>1. /\ Len(more) = k + 1 /\ more[k + 1] = s[n] /\ k + 1 \in 1..k + 1
          /\ \A i \in 1..k : more[i] = before[i] /\ i \in 1..k + 1
      BY <2>2
    <3> HIDE DEF more
    <3>2. Has(more, n)
      <4> SUFFICES ASSUME NEW i \in 1..n, s[i] \in K
                   PROVE  \E j \in 1..Len(more) : more[j] = s[i]
        OBVIOUS
      <4>1. CASE i = n
        BY <3>1, <4>1
      <4>2. CASE i # n
        <5>1. PICK j \in 1..k : before[j] = s[i]
          BY <2>3, <2>5, <4>2
        <5> QED  BY <3>1, <5>1
      <4> QED  BY <4>1, <4>2
    <3> QED  BY <2>1, <2>4, <2>7, <3>2, Zenon DEF more
  <2> QED  BY <2>6, <2>7
<1>6. T \subseteq 0..N
  OBVIOUS
<1> HIDE DEF T
<1>7. T = 0..N
  BY <1>2, <1>4, <1>5, <1>6, Inductive
<1>8. N \in T
  BY <1>2, <1>7
<1> QED  BY <1>1, <1>8 DEF T

--------------------------------------------------------------------------------
(* A fold in turn.                                                         *)
CONSTANT Op(_, _)

Folded(base, seq) == InTurn(Op, base, seq)

Taken(u, base, seq) ==
  u = [i \in 0..Len(seq) |->
         IF i = 0 THEN base
         ELSE CHOOSE next \in {Op(before, seq[i]) : before \in {u[i - 1]}} : TRUE]

Closed(V, X) == \A v \in V, x \in X : Op(v, x) \in V

(* The states a fold goes through are of the kind its steps lead to.       *)
LEMMA StepsTaken ==
  ASSUME NEW V, NEW X, Closed(V, X), NEW base \in V, NEW seq \in Seq(X)
  PROVE  \E u \in [0..Len(seq) -> V] :
           Taken(u, base, seq) /\ Folded(base, seq) = u[Len(seq)]
<1> DEFINE N == Len(seq)
           g == [p \in (1..N) \X V |-> Op(p[2], seq[p[1]])]
<1>1. N \in Nat /\ \A i \in 1..N : seq[i] \in X
  OBVIOUS
<1>2. g \in [(1..N) \X V -> V]
  BY <1>1 DEF Closed
<1>3. \A i \in 1..N, v \in V : g[<<i, v>>] = Op(v, seq[i])
  OBVIOUS
<1> HIDE DEF g
<1>4. PICK f \in [0..N -> V] : Recurs(f, N, base, g)
  BY <1>1, <1>2, RecursionExists
<1>5. Taken(f, base, seq)
  <2>1. f = [n \in 0..N |-> IF n = 0 THEN base ELSE g[<<n, f[n - 1]>>]]
    BY <1>4, Zenon DEF Recurs
  <2>2. ASSUME NEW n \in 0..N, n # 0
        PROVE  g[<<n, f[n - 1]>>] =
                 CHOOSE next \in {Op(before, seq[n]) : before \in {f[n - 1]}} : TRUE
    <3>1. n \in 1..N /\ f[n - 1] \in V
      BY <1>1, <1>4, <2>2
    <3>2. {Op(before, seq[n]) : before \in {f[n - 1]}} = {Op(f[n - 1], seq[n])}
      OBVIOUS
    <3>3. \A a : (CHOOSE next \in {a} : TRUE) = a
      OBVIOUS
    <3> QED  BY <1>3, <3>1, <3>2, <3>3, Zenon
  <2>3. f = [n \in 0..N |->
               IF n = 0 THEN base
               ELSE CHOOSE next \in {Op(before, seq[n]) : before \in {f[n - 1]}} : TRUE]
    BY <2>1, <2>2, Zenon
  <2> QED  BY <2>3, Zenon DEF Taken
<1> DEFINE u == CHOOSE w : Taken(w, base, seq)
<1>6. Taken(u, base, seq)
  BY <1>5, Zenon
<1>7. Folded(base, seq) = u[N]
  BY Zenon DEF Folded, InTurn, Taken
<1> HIDE DEF u
<1>8. u = [i \in 0..N |->
             IF i = 0 THEN base
             ELSE CHOOSE next \in {Op(before, seq[i]) : before \in {u[i - 1]}} : TRUE]
  BY <1>6, Zenon DEF Taken
<1>9. {i \in 0..N : u[i] \in V} = 0..N
  <2> DEFINE T == {i \in 0..N : u[i] \in V}
  <2>1. 0 \in T
    BY <1>1, <1>8
  <2>2. ASSUME NEW i \in 1..N, i - 1 \in T
        PROVE  i \in T
    <3>1. i \in 0..N /\ i # 0 /\ u[i - 1] \in V /\ seq[i] \in X
      BY <1>1, <2>2
    <3>2. {Op(before, seq[i]) : before \in {u[i - 1]}} = {Op(u[i - 1], seq[i])}
      OBVIOUS
    <3>3. \A a : (CHOOSE next \in {a} : TRUE) = a
      OBVIOUS
    <3>4. u[i] = Op(u[i - 1], seq[i])
      BY <1>8, <3>1, <3>2, <3>3, Zenon
    <3>5. u[i] \in V
      BY <3>1, <3>4, Zenon DEF Closed
    <3> QED  BY <3>1, <3>5
  <2>3. T \subseteq 0..N
    OBVIOUS
  <2> HIDE DEF T
  <2>4. T = 0..N
    BY <1>1, <2>1, <2>2, <2>3, Inductive
  <2> QED  BY <2>4 DEF T
<1>10. u \in [0..N -> V]
  BY <1>8, <1>9
<1> QED  BY <1>6, <1>7, <1>10

(* Those states, the last of which is the result.                          *)
Walks(V, base, seq) ==
  {u \in [0..Len(seq) -> V] :
     /\ u[0] = base /\ Folded(base, seq) = u[Len(seq)]
     /\ \A i \in 1..Len(seq) : u[i] = Op(u[i - 1], seq[i])}

(* A fold goes through some.                                               *)
LEMMA FoldedSteps ==
  \A V, X : Closed(V, X) => \A base \in V, seq \in Seq(X) : Walks(V, base, seq) # {}
<1> SUFFICES ASSUME NEW V, NEW X, Closed(V, X), NEW base \in V, NEW seq \in Seq(X)
             PROVE  Walks(V, base, seq) # {}
  BY Zenon
<1> DEFINE N == Len(seq)
<1>1. N \in Nat
  OBVIOUS
<1>2. PICK u \in [0..N -> V] : Taken(u, base, seq) /\ Folded(base, seq) = u[N]
  BY StepsTaken
<1>3. \A a : (CHOOSE next \in {a} : TRUE) = a
  OBVIOUS
<1>4. \A i \in 1..N : u[i] = Op(u[i - 1], seq[i])
  <2> SUFFICES ASSUME NEW i \in 1..N
               PROVE  u[i] = Op(u[i - 1], seq[i])
    OBVIOUS
  <2>1. i \in 0..N /\ i # 0
    BY <1>1
  <2>2. {Op(before, seq[i]) : before \in {u[i - 1]}} = {Op(u[i - 1], seq[i])}
    OBVIOUS
  <2> QED  BY <1>2, <1>3, <2>1, <2>2, Zenon DEF Taken
<1>5. u[0] = base
  <2>1. 0 \in 0..N
    BY <1>1
  <2> QED  BY <1>2, <2>1, Zenon DEF Taken
<1> QED  BY <1>2, <1>4, <1>5 DEF Walks

(* So is its result.                                                       *)
LEMMA FoldedType ==
  \A V, X : Closed(V, X) => \A base \in V, seq \in Seq(X) : Folded(base, seq) \in V
<1> SUFFICES ASSUME NEW V, NEW X, Closed(V, X), NEW base \in V, NEW seq \in Seq(X)
             PROVE  Folded(base, seq) \in V
  BY Zenon
<1>1. PICK u \in [0..Len(seq) -> V] : Folded(base, seq) = u[Len(seq)]
  BY StepsTaken
<1> QED  BY <1>1

(* A fold of nothing changes nothing.                                      *)
LEMMA FoldedEmpty ==
  ASSUME NEW base
  PROVE  Folded(base, <<>>) = base
<1>1. Folded(base, <<>>) \in {base}
  <2>1. Closed({base}, {})
    BY DEF Closed
  <2>2. <<>> \in Seq({})
    OBVIOUS
  <2> QED  BY <2>1, <2>2, FoldedType
<1> QED  BY <1>1

(* Of one element more, it is a step from the fold of those before.        *)
LEMMA FoldedLast ==
  \A V, X : Closed(V, X) =>
    \A base \in V, seq \in Seq(X), x \in X :
      Folded(base, Append(seq, x)) = Op(Folded(base, seq), x)
<1> SUFFICES ASSUME NEW V, NEW X, Closed(V, X), NEW base \in V, NEW seq \in Seq(X), NEW x \in X
             PROVE  Folded(base, Append(seq, x)) = Op(Folded(base, seq), x)
  BY Zenon
<1> DEFINE N == Len(seq)
           more == Append(seq, x)
<1>1. /\ N \in Nat /\ more \in Seq(X) /\ Len(more) = N + 1 /\ more[N + 1] = x
      /\ \A i \in 1..N : more[i] = seq[i]
  OBVIOUS
<1> HIDE DEF more
<1>2. PICK u \in [0..N -> V] : Taken(u, base, seq) /\ Folded(base, seq) = u[N]
  BY StepsTaken
<1>3. PICK w \in [0..Len(more) -> V] : Taken(w, base, more) /\ Folded(base, more) = w[Len(more)]
  BY <1>1, StepsTaken
<1>4. \A a : (CHOOSE next \in {a} : TRUE) = a
  OBVIOUS
<1>5. \A i \in 1..N : u[i] = Op(u[i - 1], seq[i])
  <2> SUFFICES ASSUME NEW i \in 1..N
               PROVE  u[i] = Op(u[i - 1], seq[i])
    OBVIOUS
  <2>1. i \in 0..N /\ i # 0
    BY <1>1
  <2>2. {Op(before, seq[i]) : before \in {u[i - 1]}} = {Op(u[i - 1], seq[i])}
    OBVIOUS
  <2> QED  BY <1>2, <1>4, <2>1, <2>2, Zenon DEF Taken
<1>6. \A i \in 1..N + 1 : w[i] = Op(w[i - 1], more[i])
  <2> SUFFICES ASSUME NEW i \in 1..N + 1
               PROVE  w[i] = Op(w[i - 1], more[i])
    OBVIOUS
  <2>1. i \in 0..Len(more) /\ i # 0
    BY <1>1
  <2>2. {Op(before, more[i]) : before \in {w[i - 1]}} = {Op(w[i - 1], more[i])}
    OBVIOUS
  <2> QED  BY <1>3, <1>4, <2>1, <2>2, Zenon DEF Taken
<1>7. u[0] = base /\ w[0] = base
  <2>1. 0 \in 0..N /\ 0 \in 0..Len(more)
    BY <1>1
  <2> QED  BY <1>2, <1>3, <2>1, Zenon DEF Taken
<1> DEFINE T == {i \in 0..N : u[i] = w[i]}
<1>8. 0 \in T
  BY <1>1, <1>7
<1>9. ASSUME NEW i \in 1..N, i - 1 \in T
      PROVE  i \in T
  <2>1. u[i - 1] = w[i - 1] /\ i \in 1..N + 1 /\ i \in 0..N /\ more[i] = seq[i]
    BY <1>1, <1>9
  <2>2. u[i] = w[i]
    BY <1>5, <1>6, <2>1, Zenon
  <2> QED  BY <2>1, <2>2
<1>10. T \subseteq 0..N
  OBVIOUS
<1> HIDE DEF T
<1>11. T = 0..N
  BY <1>1, <1>8, <1>9, <1>10, Inductive
<1>12. u[N] = w[N] /\ N \in 0..N
  BY <1>1, <1>11 DEF T
<1>13. w[N + 1] = Op(w[N], x)
  <2>1. N + 1 \in 1..N + 1 /\ N + 1 - 1 = N
    BY <1>1
  <2> QED  BY <1>1, <1>6, <2>1
<1> QED  BY <1>1, <1>2, <1>3, <1>12, <1>13, Zenon DEF more

================================================================================
