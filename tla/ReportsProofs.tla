--------------------------- MODULE ReportsProofs ---------------------------
(***************************************************************************)
(* Theorems about Reports, for any entries, processes, offset of MSK and   *)
(* number of failing writes: what the audit file keeps of the records that *)
(* were acknowledged, what a client that pages through it is given, what   *)
(* an "ok" of the start-up check means, and that the reports add up.       *)
(***************************************************************************)
EXTENDS Reports, SequenceTheorems, FiniteSetTheorems, NaturalsInduction, WellFoundedInduction,
        TLAPS

----------------------------------------------------------------------------
(* Induction, folds, lists and numerals.                                   *)

\* A non-empty set of natural numbers has a least member.
LEMMA LeastNumber ==
  ASSUME NEW S, S \subseteq Nat, S # {}
  PROVE  \E x \in S : \A y \in S : x <= y
<1>1. PICK x \in S : \A y \in S : ~ (<<y, x>> \in OpToRel(<, Nat))
  BY NatLessThanWellFounded, WFMin
<1>2. ASSUME NEW y \in S PROVE x <= y
  <2>1. <<y, x>> \in Nat \X Nat
    OBVIOUS
  <2>2. ~ (y < x)
    BY <1>1, <2>1 DEF OpToRel
  <2> QED
    BY <2>2
<1> QED
  BY <1>2

\* Induction, with a set in the place of a predicate.
LEMMA Induction ==
  ASSUME NEW Q, 0 \in Q, \A n \in Nat : n \in Q => n + 1 \in Q
  PROVE  Nat \subseteq Q
<1> DEFINE B == {n \in Nat : n \notin Q}
<1>1. SUFFICES ASSUME B # {} PROVE FALSE
  OBVIOUS
<1>2. PICK x \in B : \A y \in B : x <= y
  BY <1>1, LeastNumber
<1>3. x # 0 /\ x - 1 \in Nat /\ ~ (x <= x - 1)
  BY <1>2
<1>4. x - 1 \in Q
  BY <1>2, <1>3
<1> QED
  BY <1>2, <1>3, <1>4

\* c picks a member of every non-empty subset of S; iter folds g over the subsets.
Picks(c, S) == \A s \in SUBSET S : s # {} => c[s] \in s
Folds(iter, S, c, g, base) ==
  \A s \in SUBSET S : iter[s] = IF s = {} THEN base ELSE g[<<c[s], iter[s \ {c[s]}]>>]
Agree(a, b, S, c) ==
  /\ a[{}] = b[{}]
  /\ \A s \in SUBSET S : s # {} /\ a[s \ {c[s]}] = b[s \ {c[s]}] => a[s] = b[s]

\* Folding over a finite set, in the order in which c picks, is well defined.
LEMMA FoldExists ==
  ASSUME NEW S, IsFiniteSet(S), NEW T, NEW base \in T, NEW c, Picks(c, S),
         NEW g \in [S \X T -> T]
  PROVE  \E iter \in [SUBSET S -> T] : Folds(iter, S, c, g, base)
<1> USE DEF Picks, Folds
<1> DEFINE Level(n) == {s \in SUBSET S : Cardinality(s) <= n}
           Ok(f, n) == \A s \in Level(n) :
                         f[s] = IF s = {} THEN base ELSE g[<<c[s], f[s \ {c[s]}]>>]
           Q == {n \in Nat : \E f \in [Level(n) -> T] : Ok(f, n)}
<1>1. \A s \in SUBSET S : IsFiniteSet(s) /\ Cardinality(s) \in Nat
  BY FS_Subset, FS_CardinalityType
<1>2. 0 \in Q
  <2>1. \A s \in Level(0) : s = {}
    BY <1>1, FS_EmptySet
  <2> DEFINE f == [s \in Level(0) |-> base]
  <2>2. f \in [Level(0) -> T] /\ Ok(f, 0)
    BY <2>1
  <2> QED
    BY <2>2
<1>3. ASSUME NEW n \in Nat, n \in Q PROVE n + 1 \in Q
  <2>1. PICK f \in [Level(n) -> T] : Ok(f, n)
    BY <1>3
  <2> DEFINE h == [s \in Level(n + 1) |-> IF s \in Level(n) THEN f[s] ELSE g[<<c[s], f[s \ {c[s]}]>>]]
  <2>2. ASSUME NEW s \in SUBSET S, s # {}
        PROVE  c[s] \in S /\ s \ {c[s]} \in SUBSET S /\ Cardinality(s \ {c[s]}) = Cardinality(s) - 1
    BY <1>1, <2>2, FS_RemoveElement
  <2>3. ASSUME NEW s \in Level(n + 1), s # {} PROVE s \ {c[s]} \in Level(n)
    BY <1>1, <2>2, <2>3
  <2>4. {} \in Level(n)
    BY FS_EmptySet
  <2>5. \A s \in Level(n) : s \in Level(n + 1)
    BY <1>1
  <2>6. h \in [Level(n + 1) -> T]
    <3> SUFFICES ASSUME NEW s \in Level(n + 1) PROVE h[s] \in T
      OBVIOUS
    <3>1. CASE s \in Level(n)
      BY <2>1, <3>1
    <3>2. CASE s \notin Level(n)
      <4>1. s # {} /\ s \ {c[s]} \in Level(n) /\ c[s] \in S
        BY <2>2, <2>3, <2>4, <3>2
      <4> HIDE DEF Level
      <4> QED
        BY <2>1, <3>2, <4>1
    <3> QED
      BY <3>1, <3>2
  <2>7. Ok(h, n + 1)
    <3> SUFFICES ASSUME NEW s \in Level(n + 1)
                 PROVE  h[s] = IF s = {} THEN base ELSE g[<<c[s], h[s \ {c[s]}]>>]
      OBVIOUS
    <3>1. CASE s = {}
      BY <2>1, <2>4, <3>1
    <3>2. CASE s # {}
      <4>1. s \ {c[s]} \in Level(n) /\ s \ {c[s]} \in Level(n + 1)
        BY <2>3, <2>5, <3>2
      <4>2. h[s \ {c[s]}] = f[s \ {c[s]}]
        BY <4>1
      <4> QED
        BY <2>1, <3>2, <4>2
    <3> QED
      BY <3>1, <3>2
  <2> HIDE DEF h, Level, Ok
  <2> QED
    BY <2>6, <2>7
<1>4. Cardinality(S) \in Nat /\ Cardinality(S) \in Q
  <2> HIDE DEF Q
  <2> QED
    BY <1>1, <1>2, <1>3, Induction
<1>5. Level(Cardinality(S)) = SUBSET S
  BY FS_Subset
<1> QED
  BY <1>4, <1>5

\* Two functions on the subsets of a finite set that agree on {} and, on any other subset, when
\* they agree on what a given member leaves of it.
LEMMA FoldAgrees ==
  ASSUME NEW S, IsFiniteSet(S), NEW c, NEW a, NEW b, Picks(c, S), Agree(a, b, S, c)
  PROVE  \A s \in SUBSET S : a[s] = b[s]
<1> USE DEF Picks, Agree
<1> DEFINE Q == {n \in Nat : \A s \in SUBSET S : Cardinality(s) = n => a[s] = b[s]}
<1>1. \A s \in SUBSET S : IsFiniteSet(s) /\ Cardinality(s) \in Nat
  BY FS_Subset, FS_CardinalityType
<1>2. 0 \in Q
  BY <1>1, FS_EmptySet
<1>3. ASSUME NEW n \in Nat, n \in Q PROVE n + 1 \in Q
  <2> SUFFICES ASSUME NEW s \in SUBSET S, Cardinality(s) = n + 1 PROVE a[s] = b[s]
    OBVIOUS
  <2>1. s # {}
    <3>1. s = {} => Cardinality(s) = 0
      BY FS_EmptySet, Zenon
    <3> QED
      BY <3>1
  <2>2. Cardinality(s \ {c[s]}) = n
    BY <1>1, <2>1, FS_RemoveElement
  <2> QED
    BY <1>3, <2>1, <2>2
<1>4. Nat \subseteq Q
  <2> HIDE DEF Q
  <2> QED
    BY <1>2, <1>3, Induction
<1> QED
  BY <1>1, <1>4

Chosen(s) == CHOOSE x \in s : TRUE

\* SumFunctionOnSet, unfolded into the function that its CHOOSE stands for.
LEMMA SumUnfolds ==
  ASSUME NEW S, IsFiniteSet(S), NEW f, \A x \in S : f[x] \in Int
  PROVE  \E iter \in [SUBSET S -> Int] :
           /\ \A s \in SUBSET S : iter[s] = IF s = {} THEN 0 ELSE f[Chosen(s)] + iter[s \ {Chosen(s)}]
           /\ SumFunctionOnSet(f, S) = iter[S]
<1> DEFINE Is(i) == i = [s \in SUBSET S |-> IF s = {} THEN 0
                                          ELSE f[Chosen(s)] + i[s \ {Chosen(s)}]]
<1>0. PICK c, g : c = [s \in SUBSET S |-> Chosen(s)] /\ g = [p \in S \X Int |-> f[p[1]] + p[2]]
  OBVIOUS
<1>1. Picks(c, S) /\ \A s \in SUBSET S : c[s] = Chosen(s) /\ (s # {} => c[s] \in S)
  BY <1>0 DEF Chosen, Picks
<1>2. g \in [S \X Int -> Int] /\ \A x \in S, t \in Int : g[<<x, t>>] = f[x] + t
  BY <1>0
<1>3. PICK iter \in [SUBSET S -> Int] : Folds(iter, S, c, g, 0)
  <2>1. 0 \in Int
    OBVIOUS
  <2> QED
    BY <1>1, <1>2, <2>1, FoldExists, Zenon
<1>4. \A s \in SUBSET S : iter[s] = IF s = {} THEN 0 ELSE f[Chosen(s)] + iter[s \ {Chosen(s)}]
  <2> SUFFICES ASSUME NEW s \in SUBSET S, s # {}
               PROVE  iter[s] = f[Chosen(s)] + iter[s \ {Chosen(s)}]
    BY <1>3 DEF Folds
  <2>1. Chosen(s) \in S /\ c[s] = Chosen(s)
    BY <1>1
  <2>2. iter[s \ {Chosen(s)}] \in Int
    BY <1>3
  <2> QED
    BY <1>2, <1>3, <2>1, <2>2 DEF Folds
<1>5. Is(iter)
  BY <1>3, <1>4
<1>6. PICK it : it = CHOOSE i : Is(i)
  OBVIOUS
<1>7. Is(it)
  <2> HIDE DEF Is
  <2> QED
    BY <1>5, <1>6
<1>8. \A s \in SUBSET S : it[s] = IF s = {} THEN 0 ELSE f[Chosen(s)] + it[s \ {Chosen(s)}]
  BY <1>7
<1>9. SumFunctionOnSet(f, S) = it[S]
  BY <1>6 DEF SumFunctionOnSet, FoldFunctionOnSet, MapThenFoldSet, Chosen
<1>10. Agree(it, iter, S, c)
  <2>1. it[{}] = iter[{}]
    BY <1>4, <1>8
  <2>2. ASSUME NEW s \in SUBSET S, s # {}, it[s \ {c[s]}] = iter[s \ {c[s]}]
        PROVE  it[s] = iter[s]
    <3>1. c[s] = Chosen(s)
      BY <1>1
    <3> HIDE DEF Is
    <3> QED
      BY <1>4, <1>8, <2>2, <3>1
  <2> QED
    BY <2>1, <2>2 DEF Agree
<1>11. \A s \in SUBSET S : it[s] = iter[s]
  BY <1>1, <1>10, FoldAgrees
<1> QED
  BY <1>4, <1>9, <1>11

\* A sum is the member chosen first and the sum of the others.
LEMMA SumRecurs ==
  ASSUME NEW S, IsFiniteSet(S), NEW f, \A x \in S : f[x] \in Int
  PROVE  /\ SumFunctionOnSet(f, S) \in Int
         /\ S = {} => SumFunctionOnSet(f, S) = 0
         /\ S # {} => SumFunctionOnSet(f, S)
                        = f[Chosen(S)] + SumFunctionOnSet(f, S \ {Chosen(S)})
<1> DEFINE Is(i, U) == \A s \in SUBSET U :
                         i[s] = IF s = {} THEN 0 ELSE f[Chosen(s)] + i[s \ {Chosen(s)}]
<1>1. PICK i \in [SUBSET S -> Int] : Is(i, S) /\ SumFunctionOnSet(f, S) = i[S]
  BY SumUnfolds
<1>2. i[S] \in Int /\ i[S] = IF S = {} THEN 0 ELSE f[Chosen(S)] + i[S \ {Chosen(S)}]
  BY <1>1
<1>3. ASSUME S # {} PROVE SumFunctionOnSet(f, S \ {Chosen(S)}) = i[S \ {Chosen(S)}]
  <2> DEFINE V == S \ {Chosen(S)}
  <2>1. V \in SUBSET S /\ IsFiniteSet(V)
    BY FS_Subset
  <2> HIDE DEF V
  <2>2. PICK j \in [SUBSET V -> Int] : Is(j, V) /\ SumFunctionOnSet(f, V) = j[V]
    BY <2>1, SumUnfolds
  <2>3. PICK c : c = [s \in SUBSET V |-> Chosen(s)]
    OBVIOUS
  <2>4. Picks(c, V) /\ \A s \in SUBSET V : c[s] = Chosen(s)
    BY <2>3 DEF Picks, Chosen
  <2>5. Agree(i, j, V, c)
    <3>1. i[{}] = j[{}]
      <4>1. {} \in SUBSET S /\ {} \in SUBSET V
        OBVIOUS
      <4> QED
        BY <1>1, <2>2, <4>1
    <3>2. ASSUME NEW s \in SUBSET V, s # {}, i[s \ {c[s]}] = j[s \ {c[s]}] PROVE i[s] = j[s]
      <4>1. s \in SUBSET S /\ c[s] = Chosen(s)
        BY <2>1, <2>4
      <4> QED
        BY <1>1, <2>2, <3>2, <4>1
    <3> HIDE DEF Is
    <3> QED
      BY <3>1, <3>2 DEF Agree
  <2>6. \A s \in SUBSET V : i[s] = j[s]
    BY <2>1, <2>4, <2>5, FoldAgrees
  <2>7. SumFunctionOnSet(f, V) = i[V]
    BY <2>2, <2>6
  <2> QED
    BY <2>7 DEF V
<1> QED
  BY <1>1, <1>2, <1>3

\* The empty sum.
LEMMA SumOfNothing ==
  ASSUME NEW f
  PROVE  SumFunctionOnSet(f, {}) = 0
<1>1. IsFiniteSet({}) /\ \A x \in {} : f[x] \in Int
  BY FS_EmptySet
<1> QED
  BY <1>1, SumRecurs, Zenon

\* It does not matter which member is taken first.
LEMMA SumRemove ==
  ASSUME NEW S, IsFiniteSet(S), NEW f, \A x \in S : f[x] \in Int, NEW x \in S
  PROVE  SumFunctionOnSet(f, S) = f[x] + SumFunctionOnSet(f, S \ {x})
<1> DEFINE Sum(T) == SumFunctionOnSet(f, T)
           Q == {n \in Nat : \A T \in SUBSET S : Cardinality(T) = n =>
                               \A y \in T : Sum(T) = f[y] + Sum(T \ {y})}
<1>1. \A T \in SUBSET S : IsFiniteSet(T) /\ Cardinality(T) \in Nat
  BY FS_Subset, FS_CardinalityType
<1>2. \A T \in SUBSET S : /\ Sum(T) \in Int
                          /\ T # {} => Sum(T) = f[Chosen(T)] + Sum(T \ {Chosen(T)})
  BY <1>1, SumRecurs
<1> HIDE DEF Sum
<1>3. 0 \in Q
  BY <1>1, FS_EmptySet
<1>4. ASSUME NEW n \in Nat, n \in Q PROVE n + 1 \in Q
  <2> SUFFICES ASSUME NEW T \in SUBSET S, Cardinality(T) = n + 1, NEW y \in T
               PROVE  Sum(T) = f[y] + Sum(T \ {y})
    OBVIOUS
  <2>1. PICK z : z = Chosen(T)
    OBVIOUS
  <2>2. z \in T /\ Sum(T) = f[z] + Sum(T \ {z})
    BY <1>2, <2>1 DEF Chosen
  <2>3. CASE y = z
    BY <2>2, <2>3
  <2>4. CASE y # z
    <3> DEFINE A == T \ {z}
               B == T \ {y}
    <3>1. /\ A \in SUBSET S /\ B \in SUBSET S /\ y \in A /\ z \in B
          /\ A \ {y} = B \ {z} /\ A \ {y} \in SUBSET S
      BY <2>2, <2>4
    <3>2. Cardinality(A) = n /\ Cardinality(B) = n
      BY <1>1, <2>2, FS_RemoveElement
    <3> HIDE DEF A, B
    <3>3. Sum(A) = f[y] + Sum(A \ {y}) /\ Sum(B) = f[z] + Sum(B \ {z})
      BY <1>4, <3>1, <3>2
    <3>4. Sum(A \ {y}) = Sum(B \ {z})
      BY <3>1
    <3>5. f[y] \in Int /\ f[z] \in Int /\ Sum(A \ {y}) \in Int
      BY <1>2, <2>2, <3>1
    <3>6. Sum(T) = f[z] + Sum(A)
      BY <2>2 DEF A
    <3>7. Sum(T) = f[y] + Sum(B)
      BY <3>3, <3>4, <3>5, <3>6
    <3> QED
      BY <3>7 DEF B
  <2> QED
    BY <2>3, <2>4
<1>5. Nat \subseteq Q
  <2> HIDE DEF Q
  <2> QED
    BY <1>3, <1>4, Induction
<1>6. S \in SUBSET S /\ Cardinality(S) \in Q
  BY <1>1, <1>5
<1> QED
  BY <1>6 DEF Sum

\* A sum depends on the terms it adds up only.
LEMMA SumSame ==
  ASSUME NEW S, IsFiniteSet(S), NEW f, NEW h, \A x \in S : f[x] \in Int /\ f[x] = h[x]
  PROVE  SumFunctionOnSet(f, S) = SumFunctionOnSet(h, S)
<1>1. PICK a, b, c : /\ a = [T \in SUBSET S |-> SumFunctionOnSet(f, T)]
                     /\ b = [T \in SUBSET S |-> SumFunctionOnSet(h, T)]
                     /\ c = [T \in SUBSET S |-> Chosen(T)]
  OBVIOUS
<1>2. Picks(c, S)
  BY <1>1 DEF Picks, Chosen
<1>3. Agree(a, b, S, c)
  <2>1. a[{}] = 0 /\ b[{}] = 0
    BY <1>1, SumOfNothing
  <2>2. ASSUME NEW T \in SUBSET S, T # {}, a[T \ {c[T]}] = b[T \ {c[T]}] PROVE a[T] = b[T]
    <3>1. IsFiniteSet(T) /\ Chosen(T) \in S /\ c[T] = Chosen(T) /\ T \ {c[T]} \in SUBSET S
      BY <1>1, <2>2, FS_Subset DEF Chosen
    <3>2. a[T] = f[Chosen(T)] + a[T \ {Chosen(T)}]
      BY <1>1, <2>2, <3>1, SumRecurs
    <3>3. b[T] = h[Chosen(T)] + b[T \ {Chosen(T)}]
      BY <1>1, <2>2, <3>1, SumRecurs
    <3> QED
      BY <2>2, <3>1, <3>2, <3>3
  <2> QED
    BY <2>1, <2>2 DEF Agree
<1>4. a[S] = b[S]
  BY <1>2, <1>3, FoldAgrees
<1> QED
  BY <1>1, <1>4

\* Folding a list from the left takes the greatest index last.
LEMMA MaxPicks ==
  ASSUME NEW n \in Nat
  PROVE  Picks([s \in SUBSET (1..n) |-> Max(s)], 1..n)
<1> SUFFICES ASSUME NEW s \in SUBSET (1..n), s # {} PROVE Max(s) \in s
  BY DEF Picks
<1> DEFINE up == {n - x : x \in s}
<1>1. up \subseteq Nat /\ up # {}
  <2>1. PICK x : x \in s
    OBVIOUS
  <2>2. n - x \in up
    BY <2>1
  <2> QED
    BY <2>2
<1>2. PICK m \in up : \A y \in up : m <= y
  <2> HIDE DEF up
  <2> QED
    BY <1>1, LeastNumber
<1>3. PICK x \in s : m = n - x
  OBVIOUS
<1>4. \A y \in s : x >= y
  <2> SUFFICES ASSUME NEW y \in s PROVE x >= y
    OBVIOUS
  <2>1. m <= n - y
    BY <1>2
  <2> QED
    BY <1>3, <2>1
<1> QED
  BY <1>4 DEF Max

\* A fold over positions comes to the last one of a list last.
LEMMA MaxInterval ==
  ASSUME NEW k \in Nat \ {0}
  PROVE  Max(1..k) = k /\ (1..k) \ {k} = 1..(k - 1) /\ 1..k # {}
<1>1. k \in 1..k /\ \A y \in 1..k : k >= y
  OBVIOUS
<1>2. \A x \in 1..k : (\A y \in 1..k : x >= y) => x = k
  OBVIOUS
<1>3. Max(1..k) = k
  BY <1>1, <1>2 DEF Max
<1>4. \A x : x \in (1..k) \ {k} <=> x \in 1..(k - 1)
  OBVIOUS
<1>5. (1..k) \ {k} = 1..(k - 1)
  BY <1>4, Zenon
<1> QED
  BY <1>1, <1>3, <1>5

\* Where() goes through the list once.
LEMMA WherePass ==
  ASSUME NEW U, NEW s \in Seq(U), NEW S
  PROVE  \E kept :
           /\ kept[0] = <<>> /\ Where(s, S) = kept[Len(s)]
           /\ \A k \in 1..Len(s) : kept[k] = IF s[k] \in S THEN Append(kept[k - 1], s[k])
                                             ELSE kept[k - 1]
<1>1. PICK n \in Nat : n = Len(s) /\ DOMAIN s = 1..n /\ \A i \in 1..n : s[i] \in U
  BY LenProperties, ElementOfSeq
<1> DEFINE D == SUBSET (1..n)
           Is(i) == i = [t \in D |-> IF t = {} THEN <<>>
                                     ELSE IF s[Max(t)] \in S
                                          THEN Append(i[t \ {Max(t)}], s[Max(t)])
                                          ELSE i[t \ {Max(t)}]]
<1>2. PICK c, g : /\ c = [t \in D |-> Max(t)]
                  /\ g = [p \in (1..n) \X Seq(U) |-> IF s[p[1]] \in S THEN Append(p[2], s[p[1]])
                                                     ELSE p[2]]
  OBVIOUS
<1>3. Picks(c, 1..n) /\ \A t \in D : c[t] = Max(t)
  BY <1>2, MaxPicks
<1>4. /\ \A k \in 1..n, q \in Seq(U) :
           g[<<k, q>>] = IF s[k] \in S THEN Append(q, s[k]) ELSE q
      /\ g \in [(1..n) \X Seq(U) -> Seq(U)]
  <2>1. \A k \in 1..n, q \in Seq(U) : Append(q, s[k]) \in Seq(U)
    BY <1>1, AppendProperties
  <2> QED
    BY <1>2, <2>1
<1>5. PICK iter \in [D -> Seq(U)] : Folds(iter, 1..n, c, g, <<>>)
  <2>1. <<>> \in Seq(U)
    BY EmptySeq
  <2>2. IsFiniteSet(1..n)
    BY FS_Interval
  <2> QED
    BY <1>3, <1>4, <2>1, <2>2, FoldExists, Zenon
<1>6. Is(iter)
  <2> SUFFICES ASSUME NEW t \in D, t # {}
               PROVE  iter[t] = IF s[Max(t)] \in S THEN Append(iter[t \ {Max(t)}], s[Max(t)])
                                ELSE iter[t \ {Max(t)}]
    BY <1>5 DEF Folds
  <2>1. Max(t) \in 1..n /\ c[t] = Max(t)
    BY <1>3 DEF Picks
  <2>2. iter[t \ {Max(t)}] \in Seq(U)
    BY <1>5
  <2>3. iter[t] = g[<<c[t], iter[t \ {c[t]}]>>]
    BY <1>5 DEF Folds
  <2> QED
    BY <1>4, <2>1, <2>2, <2>3
<1>7. PICK it : it = CHOOSE i : Is(i)
  OBVIOUS
<1>8. Is(it)
  <2> HIDE DEF Is
  <2> QED
    BY <1>6, <1>7
<1>9. Where(s, S) = it[1..n]
  BY <1>1, <1>7 DEF Where, FoldLeft, MapThenFoldSet
<1> DEFINE kept == [k \in 0..n |-> it[1..k]]
<1>10. kept[0] = <<>>
  <2>1. 1..0 = {} /\ {} \in D
    OBVIOUS
  <2> QED
    BY <1>8, <2>1
<1>11. ASSUME NEW k \in 1..n
       PROVE  kept[k] = IF s[k] \in S THEN Append(kept[k - 1], s[k]) ELSE kept[k - 1]
  <2>1. Max(1..k) = k /\ (1..k) \ {k} = 1..(k - 1) /\ 1..k # {} /\ 1..k \in D
    BY MaxInterval
  <2>2. kept[k] = it[1..k] /\ kept[k - 1] = it[1..(k - 1)]
    OBVIOUS
  <2>3. it[1..k] = IF s[Max(1..k)] \in S THEN Append(it[(1..k) \ {Max(1..k)}], s[Max(1..k)])
                   ELSE it[(1..k) \ {Max(1..k)}]
    BY <1>8, <2>1
  <2> QED
    BY <2>1, <2>2, <2>3
<1>12. Where(s, S) = kept[n]
  BY <1>9
<1> HIDE DEF kept
<1> QED
  BY <1>1, <1>10, <1>11, <1>12

\* R holds of any two items of the list, in their order.
Ordered(s, R) == \A i, j \in DOMAIN s : i < j => <<s[i], s[j]>> \in R

\* An item behind a list.
LEMMA OrderedAppend ==
  ASSUME NEW U, NEW s \in Seq(U), NEW R, Ordered(s, R), NEW x \in U,
         \A y \in Range(s) : <<y, x>> \in R
  PROVE  Ordered(Append(s, x), R)
<1>1. /\ Append(s, x) \in Seq(U) /\ Len(Append(s, x)) = Len(s) + 1 /\ Append(s, x)[Len(s) + 1] = x
      /\ \A i \in 1..Len(s) : Append(s, x)[i] = s[i]
  BY AppendProperties
<1>2. DOMAIN s = 1..Len(s) /\ DOMAIN Append(s, x) = 1..(Len(s) + 1) /\ Len(s) \in Nat
  BY <1>1, LenProperties
<1> SUFFICES ASSUME NEW i \in 1..(Len(s) + 1), NEW j \in 1..(Len(s) + 1), i < j
             PROVE  <<Append(s, x)[i], Append(s, x)[j]>> \in R
  BY <1>2 DEF Ordered
<1>3. i \in 1..Len(s)
  BY <1>2
<1>4. CASE j = Len(s) + 1
  BY <1>1, <1>2, <1>3, <1>4 DEF Range
<1>5. CASE j # Len(s) + 1
  BY <1>1, <1>2, <1>3, <1>5 DEF Ordered
<1> QED
  BY <1>4, <1>5

\* The items of a list with one more.
LEMMA RangeAppend ==
  ASSUME NEW U, NEW s \in Seq(U), NEW x \in U
  PROVE  Range(Append(s, x)) = Range(s) \cup {x}
<1>1. /\ Append(s, x) \in Seq(U) /\ Len(Append(s, x)) = Len(s) + 1 /\ Append(s, x)[Len(s) + 1] = x
      /\ \A i \in 1..Len(s) : Append(s, x)[i] = s[i]
  BY AppendProperties
<1>2. DOMAIN s = 1..Len(s) /\ DOMAIN Append(s, x) = 1..(Len(s) + 1) /\ Len(s) \in Nat
  BY <1>1, LenProperties
<1>3. ASSUME NEW y \in Range(Append(s, x)) PROVE y \in Range(s) \cup {x}
  BY <1>1, <1>2 DEF Range
<1>4. ASSUME NEW y \in Range(s) PROVE y \in Range(Append(s, x))
  BY <1>1, <1>2 DEF Range
<1>5. x \in Range(Append(s, x))
  <2>1. Len(s) + 1 \in DOMAIN Append(s, x)
    BY <1>2
  <2> QED
    BY <1>1, <2>1 DEF Range
<1> QED
  BY <1>3, <1>4, <1>5

\* What Where() keeps: the items of S, in an order that the list had.
LEMMA WhereIs ==
  ASSUME NEW U, NEW s \in Seq(U), NEW S
  PROVE  /\ Where(s, S) \in Seq(U)
         /\ Range(Where(s, S)) = Range(s) \cap S
         /\ \A R : Ordered(s, R) => Ordered(Where(s, S), R)
<1>1. PICK kept : /\ kept[0] = <<>> /\ Where(s, S) = kept[Len(s)]
                  /\ \A k \in 1..Len(s) : kept[k] = IF s[k] \in S THEN Append(kept[k - 1], s[k])
                                                    ELSE kept[k - 1]
  BY WherePass
<1>2. PICK n \in Nat : n = Len(s) /\ DOMAIN s = 1..n /\ \A i \in 1..n : s[i] \in U
  BY LenProperties, ElementOfSeq
<1> DEFINE First(k) == {s[i] : i \in 1..k}
           Q == {k \in Nat : k <= n => /\ kept[k] \in Seq(U)
                                       /\ Range(kept[k]) = First(k) \cap S
                                       /\ \A R : Ordered(s, R) => Ordered(kept[k], R)}
<1>3. 0 \in Q
  <2>1. <<>> \in Seq(U) /\ Range(<<>>) = {} /\ First(0) = {} /\ \A R : Ordered(<<>>, R)
    BY EmptySeq DEF Range, Ordered
  <2> QED
    BY <1>1, <2>1
<1>4. ASSUME NEW k \in Nat, k \in Q PROVE k + 1 \in Q
  <2> SUFFICES ASSUME k + 1 <= n
               PROVE  /\ kept[k + 1] \in Seq(U)
                      /\ Range(kept[k + 1]) = First(k + 1) \cap S
                      /\ \A R : Ordered(s, R) => Ordered(kept[k + 1], R)
    OBVIOUS
  <2>1. k <= n /\ k + 1 \in 1..n /\ (k + 1) - 1 = k
    BY <1>2
  <2>2. /\ kept[k] \in Seq(U) /\ Range(kept[k]) = First(k) \cap S
        /\ \A R : Ordered(s, R) => Ordered(kept[k], R)
    BY <1>4, <2>1
  <2>3. PICK x \in U : x = s[k + 1]
    BY <1>2, <2>1
  <2>4. First(k + 1) = First(k) \cup {x}
    <3>1. \A i \in 1..(k + 1) : i \in 1..k \/ i = k + 1
      OBVIOUS
    <3>2. \A i \in 1..k : i \in 1..(k + 1)
      OBVIOUS
    <3>3. k + 1 \in 1..(k + 1)
      OBVIOUS
    <3> QED
      BY <2>3, <3>1, <3>2, <3>3
  <2>5. kept[k + 1] = IF x \in S THEN Append(kept[k], x) ELSE kept[k]
    BY <1>1, <1>2, <2>1, <2>3
  <2> HIDE DEF First
  <2>6. CASE x \notin S
    BY <2>2, <2>4, <2>5, <2>6
  <2>7. CASE x \in S
    <3>1. kept[k + 1] = Append(kept[k], x) /\ Append(kept[k], x) \in Seq(U)
      BY <2>2, <2>5, <2>7, AppendProperties
    <3>2. Range(kept[k + 1]) = First(k + 1) \cap S
      BY <2>2, <2>4, <2>7, <3>1, RangeAppend
    <3>3. ASSUME NEW R, Ordered(s, R) PROVE Ordered(kept[k + 1], R)
      <4>1. \A y \in Range(kept[k]) : <<y, x>> \in R
        <5> SUFFICES ASSUME NEW y \in Range(kept[k]) PROVE <<y, x>> \in R
          OBVIOUS
        <5>1. PICK i \in 1..k : y = s[i]
          BY <2>2 DEF First
        <5>2. i \in DOMAIN s /\ k + 1 \in DOMAIN s /\ i < k + 1
          BY <1>2, <2>1, <5>1
        <5> QED
          BY <2>3, <3>3, <5>1, <5>2 DEF Ordered
      <4>2. Ordered(kept[k], R)
        BY <2>2, <3>3
      <4> QED
        BY <2>2, <2>3, <3>1, <4>1, <4>2, OrderedAppend
    <3> QED
      BY <3>1, <3>2, <3>3
  <2> QED
    BY <2>6, <2>7
<1>5. Nat \subseteq Q
  <2> HIDE DEF Q
  <2> QED
    BY <1>3, <1>4, Induction
<1>6. First(n) = Range(s)
  BY <1>2 DEF Range
<1>7. /\ kept[n] \in Seq(U) /\ Range(kept[n]) = First(n) \cap S
      /\ \A R : Ordered(s, R) => Ordered(kept[n], R)
  <2>1. n <= n
    OBVIOUS
  <2>2. n \in Q
    <3> HIDE DEF Q
    <3> QED
      BY <1>5
  <2> HIDE DEF First
  <2> QED
    BY <2>1, <2>2
<1> QED
  BY <1>1, <1>2, <1>6, <1>7

\* Two lists, one behind the other.
LEMMA OrderedConcat ==
  ASSUME NEW U, NEW s \in Seq(U), NEW t \in Seq(U), NEW R, Ordered(s, R), Ordered(t, R),
         \A y \in Range(s), z \in Range(t) : <<y, z>> \in R
  PROVE  Ordered(s \o t, R)
<1>1. PICK m \in Nat, n \in Nat : /\ m = Len(s) /\ n = Len(t) /\ DOMAIN s = 1..m /\ DOMAIN t = 1..n
  BY LenProperties
<1>2. /\ s \o t \in Seq(U) /\ Len(s \o t) = m + n
      /\ \A i \in 1..(m + n) : (s \o t)[i] = IF i <= m THEN s[i] ELSE t[i - m]
  BY <1>1, ConcatProperties
<1>3. DOMAIN (s \o t) = 1..(m + n)
  BY <1>2, LenProperties
<1> SUFFICES ASSUME NEW i \in 1..(m + n), NEW j \in 1..(m + n), i < j
             PROVE  <<(s \o t)[i], (s \o t)[j]>> \in R
  BY <1>3 DEF Ordered
<1>4. CASE j <= m
  <2>1. i \in DOMAIN s /\ j \in DOMAIN s /\ (s \o t)[i] = s[i] /\ (s \o t)[j] = s[j]
    BY <1>1, <1>2, <1>4
  <2> QED
    BY <2>1 DEF Ordered
<1>5. CASE i <= m /\ ~ (j <= m)
  <2>1. i \in DOMAIN s /\ j - m \in DOMAIN t /\ (s \o t)[i] = s[i] /\ (s \o t)[j] = t[j - m]
    BY <1>1, <1>2, <1>5
  <2> QED
    BY <2>1 DEF Range
<1>6. CASE ~ (i <= m)
  <2>1. /\ i - m \in DOMAIN t /\ j - m \in DOMAIN t /\ i - m < j - m
        /\ (s \o t)[i] = t[i - m] /\ (s \o t)[j] = t[j - m]
    BY <1>1, <1>2, <1>6
  <2> QED
    BY <2>1 DEF Ordered
<1> QED
  BY <1>4, <1>5, <1>6

\* Sorted() goes through the list once.
LEMMA SortedPass ==
  ASSUME NEW U, NEW s \in Seq(U), NEW R
  PROVE  \E sorted :
           /\ sorted[0] = <<>> /\ Sorted(s, R) = sorted[Len(s)]
           /\ \A k \in 1..Len(s) : sorted[k] = Inserted(sorted[k - 1], s[k], R)
<1>1. PICK n \in Nat : n = Len(s) /\ DOMAIN s = 1..n /\ \A i \in 1..n : s[i] \in U
  BY LenProperties, ElementOfSeq
<1> DEFINE D == SUBSET (1..n)
           Is(i) == i = [t \in D |-> IF t = {} THEN <<>> ELSE Inserted(i[t \ {Max(t)}], s[Max(t)], R)]
<1>2. PICK c, g : /\ c = [t \in D |-> Max(t)]
                  /\ g = [p \in (1..n) \X Seq(U) |-> Inserted(p[2], s[p[1]], R)]
  OBVIOUS
<1>3. Picks(c, 1..n) /\ \A t \in D : c[t] = Max(t)
  BY <1>2, MaxPicks
<1>4. /\ \A k \in 1..n, q \in Seq(U) : g[<<k, q>>] = Inserted(q, s[k], R)
      /\ g \in [(1..n) \X Seq(U) -> Seq(U)]
  <2>1. ASSUME NEW k \in 1..n, NEW q \in Seq(U) PROVE Inserted(q, s[k], R) \in Seq(U)
    <3>1. \A A : Where(q, A) \in Seq(U)
      BY WhereIs
    <3>2. <<s[k]>> \in Seq(U)
      BY <1>1
    <3> QED
      BY <3>1, <3>2, ConcatProperties DEF Inserted
  <2> QED
    BY <1>2, <2>1
<1>5. PICK iter \in [D -> Seq(U)] : Folds(iter, 1..n, c, g, <<>>)
  <2>1. <<>> \in Seq(U)
    BY EmptySeq
  <2>2. IsFiniteSet(1..n)
    BY FS_Interval
  <2> QED
    BY <1>3, <1>4, <2>1, <2>2, FoldExists, Zenon
<1>6. Is(iter)
  <2> SUFFICES ASSUME NEW t \in D, t # {}
               PROVE  iter[t] = Inserted(iter[t \ {Max(t)}], s[Max(t)], R)
    BY <1>5 DEF Folds
  <2>1. Max(t) \in 1..n /\ c[t] = Max(t)
    BY <1>3 DEF Picks
  <2>2. iter[t \ {Max(t)}] \in Seq(U)
    BY <1>5
  <2>3. iter[t] = g[<<c[t], iter[t \ {c[t]}]>>]
    BY <1>5 DEF Folds
  <2> QED
    BY <1>4, <2>1, <2>2, <2>3
<1>7. PICK it : it = CHOOSE i : Is(i)
  OBVIOUS
<1>8. Is(it)
  <2> HIDE DEF Is
  <2> QED
    BY <1>6, <1>7
<1>9. Sorted(s, R) = it[1..n]
  BY <1>1, <1>7 DEF Sorted, FoldLeft, MapThenFoldSet
<1> DEFINE sorted == [k \in 0..n |-> it[1..k]]
<1>10. sorted[0] = <<>>
  <2>1. 1..0 = {} /\ {} \in D
    OBVIOUS
  <2> QED
    BY <1>8, <2>1
<1>11. ASSUME NEW k \in 1..n PROVE sorted[k] = Inserted(sorted[k - 1], s[k], R)
  <2>1. Max(1..k) = k /\ (1..k) \ {k} = 1..(k - 1) /\ 1..k # {} /\ 1..k \in D
    BY MaxInterval
  <2>2. sorted[k] = it[1..k] /\ sorted[k - 1] = it[1..(k - 1)]
    OBVIOUS
  <2>3. it[1..k] = Inserted(it[(1..k) \ {Max(1..k)}], s[Max(1..k)], R)
    BY <1>8, <2>1
  <2> QED
    BY <2>1, <2>2, <2>3
<1>12. Sorted(s, R) = sorted[n]
  BY <1>9
<1> HIDE DEF sorted
<1> QED
  BY <1>1, <1>10, <1>11, <1>12

\* R orders A, ties allowed.
Orders(R, A) ==
  /\ \A x, y \in A : <<x, y>> \in R \/ <<y, x>> \in R
  /\ \A x, y, z \in A : <<x, y>> \in R /\ <<y, z>> \in R => <<x, z>> \in R
Symmetric(D, A) == \A x, y \in A : <<x, y>> \in D => <<y, x>> \in D

\* One step of sort(): the new item stands behind those that may stand before it.
LEMMA InsertedIs ==
  ASSUME NEW U, NEW q \in Seq(U), NEW R, NEW x \in U, NEW A, Range(q) \subseteq A, x \in A,
         Orders(R, A), Ordered(q, R)
  PROVE  /\ Inserted(q, x, R) \in Seq(U) /\ Range(Inserted(q, x, R)) = Range(q) \cup {x}
         /\ Ordered(Inserted(q, x, R), R)
         /\ \A D : /\ Symmetric(D, A) /\ Ordered(q, D) /\ \A y \in Range(q) : <<y, x>> \in D
                   => Ordered(Inserted(q, x, R), D)
<1>1. PICK a, b, e : /\ a = Where(q, {y \in Range(q) : <<y, x>> \in R})
                     /\ b = Where(q, {y \in Range(q) : <<y, x>> \notin R})
                     /\ e = <<x>> /\ Inserted(q, x, R) = (a \o e) \o b
  BY DEF Inserted
<1>2. /\ a \in Seq(U) /\ Range(a) = Range(q) \cap {y \in Range(q) : <<y, x>> \in R}
      /\ \A D : Ordered(q, D) => Ordered(a, D)
  BY <1>1, WhereIs
<1>3. /\ b \in Seq(U) /\ Range(b) = Range(q) \cap {y \in Range(q) : <<y, x>> \notin R}
      /\ \A D : Ordered(q, D) => Ordered(b, D)
  BY <1>1, WhereIs
<1>4. e \in Seq(U) /\ Range(e) = {x} /\ \A D : Ordered(e, D)
  BY <1>1 DEF Range, Ordered
<1>5. /\ a \o e \in Seq(U) /\ (a \o e) \o b \in Seq(U)
      /\ Range(a \o e) = Range(a) \cup {x}
      /\ Range((a \o e) \o b) = Range(a \o e) \cup Range(b)
  <2>1. a \o e \in Seq(U) /\ Range(a \o e) = Range(a) \cup {x}
    BY <1>2, <1>4, ConcatProperties, RangeConcatenation
  <2>2. PICK ae : ae = a \o e
    OBVIOUS
  <2>3. ae \in Seq(U)
    BY <2>1, <2>2
  <2>4. ae \o b \in Seq(U) /\ Range(ae \o b) = Range(ae) \cup Range(b)
    BY <1>3, <2>3, ConcatProperties, RangeConcatenation
  <2> QED
    BY <2>1, <2>2, <2>4
<1>6. Range((a \o e) \o b) = Range(q) \cup {x}
  BY <1>2, <1>3, <1>5
<1>7. ASSUME NEW D, Ordered(q, D), \A y \in Range(a) : <<y, x>> \in D,
             \A z \in Range(b) : <<x, z>> \in D,
             \A y \in Range(a), z \in Range(b) : <<y, z>> \in D
      PROVE  Ordered((a \o e) \o b, D)
  <2>1. Ordered(a, D) /\ Ordered(b, D) /\ Ordered(e, D)
    BY <1>2, <1>3, <1>4, <1>7
  <2>2. Ordered(a \o e, D)
    BY <1>2, <1>4, <1>7, <2>1, OrderedConcat
  <2>3. \A y \in Range(a \o e), z \in Range(b) : <<y, z>> \in D
    BY <1>5, <1>7
  <2> QED
    BY <1>3, <1>5, <2>1, <2>2, <2>3, OrderedConcat
<1>8. Ordered((a \o e) \o b, R)
  <2>1. \A y \in Range(a) : <<y, x>> \in R
    BY <1>2
  <2>2. \A z \in Range(b) : <<x, z>> \in R
    BY <1>3 DEF Orders
  <2>3. \A y \in Range(a), z \in Range(b) : <<y, z>> \in R
    BY <1>2, <1>3, <2>1, <2>2 DEF Orders
  <2> QED
    BY <1>7, <2>1, <2>2, <2>3
<1>9. ASSUME NEW D, Symmetric(D, A), Ordered(q, D), \A y \in Range(q) : <<y, x>> \in D
      PROVE  Ordered((a \o e) \o b, D)
  <2>1. \A y \in Range(a) : <<y, x>> \in D
    BY <1>2, <1>9
  <2>2. \A z \in Range(b) : <<x, z>> \in D
    BY <1>3, <1>9 DEF Symmetric
  <2>3. ASSUME NEW y \in Range(a), NEW z \in Range(b) PROVE <<y, z>> \in D
    <3>1. y \in Range(q) /\ z \in Range(q) /\ y # z /\ y \in A /\ z \in A
      BY <1>2, <1>3
    <3>2. PICK i \in DOMAIN q, j \in DOMAIN q : y = q[i] /\ z = q[j]
      BY <3>1 DEF Range
    <3>3. i # j /\ i \in Nat /\ j \in Nat
      BY <3>1, <3>2, LenProperties
    <3>4. <<y, z>> \in D \/ <<z, y>> \in D
      <4>1. \A k, l \in DOMAIN q : k < l => <<q[k], q[l]>> \in D
        BY <1>9 DEF Ordered
      <4>2. i < j \/ j < i
        BY <3>3
      <4> QED
        BY <3>2, <4>1, <4>2
    <3> QED
      BY <1>9, <3>1, <3>4 DEF Symmetric
  <2> QED
    BY <1>7, <1>9, <2>1, <2>2, <2>3
<1> QED
  BY <1>1, <1>5, <1>6, <1>8, <1>9

\* What sort() makes of a list: the same items, in order, and none more often than before.
LEMMA SortedIs ==
  ASSUME NEW U, NEW s \in Seq(U), NEW R, Orders(R, Range(s))
  PROVE  /\ Sorted(s, R) \in Seq(U)
         /\ Range(Sorted(s, R)) = Range(s)
         /\ Ordered(Sorted(s, R), R)
         /\ \A D : Symmetric(D, Range(s)) /\ Ordered(s, D) => Ordered(Sorted(s, R), D)
<1> DEFINE A == Range(s)
<1>1. PICK sorted : /\ sorted[0] = <<>> /\ Sorted(s, R) = sorted[Len(s)]
                    /\ \A k \in 1..Len(s) : sorted[k] = Inserted(sorted[k - 1], s[k], R)
  BY SortedPass
<1>2. PICK n \in Nat : n = Len(s) /\ DOMAIN s = 1..n /\ \A i \in 1..n : s[i] \in U
  BY LenProperties, ElementOfSeq
<1> DEFINE First(k) == {s[i] : i \in 1..k}
           Good(q, k) == /\ q \in Seq(U) /\ Range(q) = First(k) /\ Ordered(q, R)
                         /\ \A D : Symmetric(D, A) /\ Ordered(s, D) => Ordered(q, D)
           Q == {k \in Nat : k <= n => Good(sorted[k], k)}
<1>3. 0 \in Q
  <2>1. <<>> \in Seq(U) /\ Range(<<>>) = {} /\ First(0) = {} /\ \A D : Ordered(<<>>, D)
    BY EmptySeq DEF Range, Ordered
  <2> QED
    BY <1>1, <2>1
<1>4. ASSUME NEW k \in Nat, k \in Q PROVE k + 1 \in Q
  <2> SUFFICES ASSUME k + 1 <= n PROVE Good(sorted[k + 1], k + 1)
    OBVIOUS
  <2>1. k <= n /\ k + 1 \in 1..n /\ (k + 1) - 1 = k
    BY <1>2
  <2>2. Good(sorted[k], k)
    BY <1>4, <2>1
  <2>3. PICK x \in U : x = s[k + 1] /\ x \in A
    BY <1>2, <2>1 DEF Range
  <2>4. First(k + 1) = First(k) \cup {x} /\ First(k) \subseteq A
    <3>1. \A i \in 1..(k + 1) : i \in 1..k \/ i = k + 1
      OBVIOUS
    <3>2. \A i \in 1..k : i \in 1..(k + 1)
      OBVIOUS
    <3>3. k + 1 \in 1..(k + 1) /\ \A i \in 1..k : i \in 1..n
      BY <2>1
    <3>4. First(k) \subseteq A
      BY <1>2, <3>3 DEF Range
    <3> QED
      BY <2>3, <3>1, <3>2, <3>3, <3>4
  <2>5. PICK q, r : q = sorted[k] /\ r = sorted[k + 1]
    OBVIOUS
  <2>6. r = Inserted(q, x, R)
    BY <1>1, <1>2, <2>1, <2>3, <2>5
  <2>7. q \in Seq(U) /\ Range(q) = First(k) /\ Ordered(q, R)
    BY <2>2, <2>5
  <2>8. /\ r \in Seq(U) /\ Range(r) = Range(q) \cup {x} /\ Ordered(r, R)
        /\ \A D : /\ Symmetric(D, A) /\ Ordered(q, D) /\ \A y \in Range(q) : <<y, x>> \in D
                  => Ordered(r, D)
    <3> HIDE DEF First
    <3>1. Range(q) \subseteq A
      BY <2>4, <2>7
    <3> HIDE DEF A
    <3>2. Orders(R, A)
      BY DEF A
    <3> QED
      BY <2>3, <2>6, <2>7, <3>1, <3>2, InsertedIs
  <2>9. ASSUME NEW D, Symmetric(D, A), Ordered(s, D) PROVE Ordered(r, D)
    <3>1. Ordered(q, D)
      BY <2>2, <2>5, <2>9
    <3>2. ASSUME NEW y \in Range(q) PROVE <<y, x>> \in D
      <4>1. PICK i \in 1..k : y = s[i]
        BY <2>7
      <4>2. i \in DOMAIN s /\ k + 1 \in DOMAIN s /\ i < k + 1
        BY <1>2, <2>1, <4>1
      <4> QED
        BY <2>3, <2>9, <4>1, <4>2 DEF Ordered
    <3> HIDE DEF A
    <3> QED
      BY <2>8, <2>9, <3>1, <3>2
  <2> HIDE DEF First, A
  <2> QED
    BY <2>4, <2>5, <2>7, <2>8, <2>9
<1>5. Nat \subseteq Q
  <2> HIDE DEF Q
  <2> QED
    BY <1>3, <1>4, Induction
<1>6. First(n) = Range(s)
  BY <1>2 DEF Range
<1>7. Good(sorted[n], n)
  <2>1. n <= n
    OBVIOUS
  <2>2. n \in Q
    <3> HIDE DEF Q
    <3> QED
      BY <1>5
  <2> HIDE DEF Good
  <2> QED
    BY <2>1, <2>2
<1> QED
  BY <1>1, <1>2, <1>6, <1>7

\* Products of positive numbers.
LEMMA Positive ==
  ASSUME NEW a \in Nat \ {0}, NEW b \in Nat \ {0}
  PROVE  a * b \in Nat \ {0}
OBVIOUS

\* The powers of Base.
LEMMA PowerIs ==
  /\ Power \in [Nat -> Nat \ {0}]
  /\ Power[0] = 1
  /\ \A k \in Nat : Power[k + 1] = Base * Power[k]
<1> DEFINE Pos == Nat \ {0}
           Ok(f, n) == /\ f \in [0..n -> Pos] /\ f[0] = 1
                       /\ \A k \in 1..n : f[k] = Base * f[k - 1]
           Q == {n \in Nat : \E f : Ok(f, n)}
           Is(f) == f = [k \in Nat |-> IF k = 0 THEN 1 ELSE Base * f[k - 1]]
<1>1. Base \in Pos /\ 1 \in Pos /\ \A p \in Pos : Base * p \in Pos
  BY ReportsAssumption, Positive
<1>2. 0 \in Q
  <2>1. Ok([k \in 0..0 |-> 1], 0)
    BY <1>1
  <2> QED
    BY <2>1
<1>3. ASSUME NEW n \in Nat, n \in Q PROVE n + 1 \in Q
  <2>1. PICK f : Ok(f, n)
    BY <1>3
  <2>2. PICK h : h = [k \in 0..(n + 1) |-> IF k <= n THEN f[k] ELSE Base * f[n]]
    OBVIOUS
  <2> HIDE DEF Pos
  <2>3. n \in 0..n /\ f[n] \in Pos /\ Base * f[n] \in Pos
    BY <1>1, <2>1
  <2>4. h \in [0..(n + 1) -> Pos]
    BY <2>1, <2>2, <2>3
  <2>5. h[0] = 1
    BY <2>1, <2>2
  <2>6. ASSUME NEW k \in 1..(n + 1) PROVE h[k] = Base * h[k - 1]
    <3>1. CASE k <= n
      <4>1. k \in 1..n /\ h[k] = f[k] /\ h[k - 1] = f[k - 1]
        BY <2>2, <3>1
      <4> QED
        BY <2>1, <4>1
    <3>2. CASE ~ (k <= n)
      <4>1. k = n + 1 /\ k - 1 = n
        BY <3>2
      <4> QED
        BY <2>2, <4>1
    <3> QED
      BY <3>1, <3>2
  <2>7. Ok(h, n + 1)
    BY <2>4, <2>5, <2>6
  <2> HIDE DEF Ok
  <2> QED
    BY <2>7
<1>4. \A n \in Nat : \E f : Ok(f, n)
  <2>1. Nat \subseteq Q
    <3> HIDE DEF Q
    <3> QED
      BY <1>2, <1>3, Induction
  <2> HIDE DEF Ok
  <2> QED
    BY <2>1
<1>5. ASSUME NEW f, NEW g, NEW n \in Nat, NEW m \in Nat, Ok(f, n), Ok(g, m), n <= m
      PROVE  f[n] = g[n]
  <2> DEFINE A == {k \in Nat : k <= n => f[k] = g[k]}
  <2>1. 0 \in A
    BY <1>5
  <2>2. ASSUME NEW k \in Nat, k \in A PROVE k + 1 \in A
    <3> SUFFICES ASSUME k + 1 <= n PROVE f[k + 1] = g[k + 1]
      OBVIOUS
    <3>1. k + 1 \in 1..n /\ k + 1 \in 1..m /\ (k + 1) - 1 = k /\ k <= n
      BY <1>5
    <3> QED
      BY <1>5, <2>2, <3>1
  <2>3. n \in A
    <3> HIDE DEF A
    <3> QED
      BY <2>1, <2>2, Induction
  <2> QED
    BY <2>3
<1>6. PICK h : h = [n \in Nat |-> CHOOSE f : Ok(f, n)]
  OBVIOUS
<1>7. \A n \in Nat : Ok(h[n], n)
  <2> HIDE DEF Ok
  <2> QED
    BY <1>4, <1>6
<1>8. PICK F : F = [n \in Nat |-> h[n][n]]
  OBVIOUS
<1>9. ASSUME NEW n \in Nat PROVE F[n] \in Pos
  BY <1>7, <1>8
<1>10. F[0] = 1
  BY <1>7, <1>8
<1>11. ASSUME NEW n \in Nat \ {0} PROVE F[n] = Base * F[n - 1]
  <2>1. n - 1 \in Nat /\ n - 1 <= n /\ n \in 1..n /\ n - 1 \in 0..n
    OBVIOUS
  <2>2. Ok(h[n], n) /\ Ok(h[n - 1], n - 1)
    BY <1>7, <2>1
  <2>3. h[n - 1][n - 1] = h[n][n - 1]
    <3> HIDE DEF Ok
    <3> QED
      BY <1>5, <2>1, <2>2
  <2>4. h[n][n] = Base * h[n][n - 1]
    BY <2>1, <2>2
  <2> QED
    BY <1>8, <2>1, <2>3, <2>4
<1>12. Is(F)
  BY <1>8, <1>10, <1>11
<1>13. Is(Power)
  <2>1. Power = CHOOSE f : Is(f)
    BY DEF Power
  <2> HIDE DEF Is
  <2> QED
    BY <1>12, <2>1
<1>14. Power[0] = 1 /\ \A k \in Nat : Power[k + 1] = Base * Power[k]
  <2>1. Power[0] = 1
    BY <1>13
  <2>2. ASSUME NEW k \in Nat PROVE Power[k + 1] = Base * Power[k]
    <3>1. k + 1 \in Nat /\ k + 1 # 0 /\ (k + 1) - 1 = k
      OBVIOUS
    <3> QED
      BY <1>13, <3>1
  <2> QED
    BY <2>1, <2>2
<1>15. \A k \in Nat : Power[k] \in Pos
  <2> DEFINE B == {k \in Nat : Power[k] \in Pos}
  <2>1. 0 \in B /\ \A k \in Nat : k \in B => k + 1 \in B
    BY <1>1, <1>14
  <2>2. Nat \subseteq B
    <3> HIDE DEF B
    <3> QED
      BY <2>1, Induction
  <2> QED
    BY <2>2
<1> QED
  BY <1>13, <1>14, <1>15

\* The number of digits of a numeral.
LEMMA DigitsIs ==
  ASSUME NEW n \in Nat \ {0}
  PROVE  Digits(n) \in Nat /\ Power[Digits(n)] \in Nat \ {0}
<1>1. \A k \in Nat : Power[k] \in Nat \ {0}
  BY PowerIs
<1>2. \A k \in Nat : k < Power[k]
  <2> DEFINE Q == {k \in Nat : k < Power[k]}
  <2>1. 0 \in Q
    BY PowerIs
  <2>2. ASSUME NEW k \in Nat, k \in Q PROVE k + 1 \in Q
    <3>1. PICK p \in Nat : p = Power[k] /\ Power[k + 1] = Base * p
      BY <1>1, PowerIs
    <3>2. Base * p >= 2 * p
      <4>1. PICK b \in Nat : Base = b + 2
        <5>1. Base - 2 \in Nat /\ Base = (Base - 2) + 2
          BY ReportsAssumption
        <5> QED
          BY <5>1
      <4>2. (b + 2) * p = b * p + 2 * p /\ b * p \in Nat
        OBVIOUS
      <4> QED
        BY <4>1, <4>2
    <3>3. k < p /\ Base * p \in Nat
      BY <2>2, <3>1, ReportsAssumption
    <3> QED
      BY <3>1, <3>2, <3>3
  <2>3. Nat \subseteq Q
    <3> HIDE DEF Q
    <3> QED
      BY <2>1, <2>2, Induction
  <2> QED
    BY <2>3
<1> DEFINE K == {k \in Nat : n < Power[k]}
<1>3. K # {} /\ K \subseteq Nat
  BY <1>2
<1>4. PICK k \in K : \A j \in K : k <= j
  <2> HIDE DEF K
  <2> QED
    BY <1>3, LeastNumber
<1>5. k # 0
  BY PowerIs
<1>6. k <= n
  BY <1>2, <1>4
<1>7. Power[k - 1] <= n
  <2>1. k - 1 \in Nat /\ ~ (k <= k - 1)
    BY <1>5
  <2>2. k - 1 \notin K
    BY <1>4, <2>1
  <2> QED
    BY <1>1, <2>1, <2>2
<1>8. k \in 1..n /\ Power[k - 1] <= n /\ n < Power[k]
  BY <1>5, <1>6, <1>7
<1>9. Digits(n) \in 1..n
  BY <1>8 DEF Digits
<1> QED
  BY <1>1, <1>9

\* Fractions with positive denominators are ordered.
LEMMA Fractions ==
  ASSUME NEW a \in Nat, NEW b \in Nat, NEW c \in Nat,
         NEW p \in Nat \ {0}, NEW q \in Nat \ {0}, NEW r \in Nat \ {0},
         a * q <= b * p, b * r <= c * q
  PROVE  a * r <= c * p /\ (a * q < b * p \/ b * r < c * q => a * r < c * p)
<1>1. \A x, y \in Nat, z \in Nat \ {0} : (x <= y => x * z <= y * z) /\ (x < y => x * z < y * z)
  <2> SUFFICES ASSUME NEW x \in Nat, NEW y \in Nat, NEW z \in Nat \ {0}
               PROVE  (x <= y => x * z <= y * z) /\ (x < y => x * z < y * z)
    OBVIOUS
  <2>1. CASE x <= y
    <3>1. PICK d \in Nat : y = x + d
      <4>1. y - x \in Nat /\ y = x + (y - x)
        BY <2>1
      <4> QED
        BY <4>1
    <3>2. (x + d) * z = x * z + d * z /\ d * z \in Nat /\ x * z \in Nat
      OBVIOUS
    <3>3. x < y => d # 0
      BY <3>1
    <3>4. d # 0 => d * z > 0
      BY Positive
    <3> QED
      BY <3>1, <3>2, <3>3, <3>4
  <2>2. CASE ~ (x <= y)
    BY <2>2
  <2> QED
    BY <2>1, <2>2
<1>2. a * q \in Nat /\ b * p \in Nat /\ b * r \in Nat /\ c * q \in Nat /\ a * r \in Nat /\ c * p \in Nat
  OBVIOUS
<1>3. (a * q) * r <= (b * p) * r /\ (a * q < b * p => (a * q) * r < (b * p) * r)
  BY <1>1, <1>2
<1>4. (b * r) * p <= (c * q) * p /\ (b * r < c * q => (b * r) * p < (c * q) * p)
  BY <1>1, <1>2
<1>5. (b * p) * r = (b * r) * p /\ (a * q) * r = (a * r) * q /\ (c * q) * p = (c * p) * q
  OBVIOUS
<1>6. PICK x \in Nat, y \in Nat : x = a * r /\ y = c * p
  BY <1>2
<1>7. x * q <= y * q /\ (a * q < b * p \/ b * r < c * q => x * q < y * q)
  <2>1. PICK u \in Nat, v \in Nat, w \in Nat :
          u = (a * q) * r /\ v = (b * p) * r /\ w = (c * q) * p
    OBVIOUS
  <2>2. u <= v /\ v <= w /\ (a * q < b * p => u < v) /\ (b * r < c * q => v < w)
    BY <1>3, <1>4, <1>5, <2>1
  <2>3. u = x * q /\ w = y * q
    BY <1>5, <1>6, <2>1
  <2>4. u <= w /\ (a * q < b * p \/ b * r < c * q => u < w)
    BY <2>2
  <2> QED
    BY <2>3, <2>4
<1>8. x <= y
  <2>1. y < x => y * q < x * q
    BY <1>1
  <2>2. x * q \in Nat /\ y * q \in Nat
    OBVIOUS
  <2> QED
    BY <1>7, <2>1, <2>2
<1>9. x = y => x * q = y * q
  OBVIOUS
<1>10. x * q < y * q => x < y
  <2>1. x * q \in Nat /\ y * q \in Nat
    OBVIOUS
  <2> QED
    BY <1>8, <1>9, <2>1
<1> QED
  BY <1>6, <1>7, <1>8, <1>10

\* Numerals are in a strict order.
LEMMA NumeralsOrdered ==
  ASSUME NEW n \in Nat \ {0}, NEW m \in Nat \ {0}, NEW k \in Nat \ {0}
  PROVE  /\ ~ NumeralBelow(n, n)
         /\ n # m => NumeralBelow(n, m) \/ NumeralBelow(m, n)
         /\ NumeralBelow(n, m) /\ NumeralBelow(m, k) => NumeralBelow(n, k)
<1>1. PICK p \in Nat \ {0}, q \in Nat \ {0}, r \in Nat \ {0} :
        p = Power[Digits(n)] /\ q = Power[Digits(m)] /\ r = Power[Digits(k)]
  BY DigitsIs
<1>2. NumeralBelow(n, m) <=> n * q < m * p \/ (n * q = m * p /\ n < m)
  BY <1>1 DEF NumeralBelow
<1>3. NumeralBelow(m, n) <=> m * p < n * q \/ (m * p = n * q /\ m < n)
  BY <1>1 DEF NumeralBelow
<1>4. NumeralBelow(m, k) <=> m * r < k * q \/ (m * r = k * q /\ m < k)
  BY <1>1 DEF NumeralBelow
<1>5. NumeralBelow(n, k) <=> n * r < k * p \/ (n * r = k * p /\ n < k)
  BY <1>1 DEF NumeralBelow
<1>6. ~ NumeralBelow(n, n)
  BY <1>1 DEF NumeralBelow
<1>7. n # m => NumeralBelow(n, m) \/ NumeralBelow(m, n)
  <2>1. PICK x \in Nat, y \in Nat : x = n * q /\ y = m * p
    OBVIOUS
  <2> QED
    BY <1>2, <1>3, <2>1
<1>8. ASSUME NumeralBelow(n, m), NumeralBelow(m, k) PROVE NumeralBelow(n, k)
  <2>1. PICK nq \in Nat, mp \in Nat, mr \in Nat, kq \in Nat, nr \in Nat, kp \in Nat :
          /\ nq = n * q /\ mp = m * p /\ mr = m * r /\ kq = k * q /\ nr = n * r /\ kp = k * p
    OBVIOUS
  <2>2. (nq < mp \/ (nq = mp /\ n < m)) /\ (mr < kq \/ (mr = kq /\ m < k))
    BY <1>2, <1>4, <1>8, <2>1
  <2>3. n * q <= m * p /\ m * r <= k * q
    BY <2>1, <2>2
  <2>4. n * r <= k * p /\ (n * q < m * p \/ m * r < k * q => n * r < k * p)
    BY <2>3, Fractions
  <2>5. nr <= kp /\ (nq < mp \/ mr < kq => nr < kp)
    BY <2>1, <2>4
  <2>6. nr < kp \/ (nr = kp /\ n < k)
    BY <2>2, <2>5
  <2> QED
    BY <1>5, <2>1, <2>6
<1> QED
  BY <1>6, <1>7, <1>8

\* Ids are in a strict order.
Id == Nat \X (Nat \ {0})

\* As strings, ids are in a strict order: no two are equal in it, and it is transitive.
LEMMA IdsOrdered ==
  ASSUME NEW x \in Id, NEW y \in Id, NEW z \in Id
  PROVE  /\ ~ IdBelow(x, x)
         /\ x # y => IdBelow(x, y) \/ IdBelow(y, x)
         /\ IdBelow(x, y) /\ IdBelow(y, z) => IdBelow(x, z)
<1>1. PICK a \in Nat, n \in Nat \ {0}, b \in Nat, m \in Nat \ {0}, c \in Nat, k \in Nat \ {0} :
        x = <<a, n>> /\ y = <<b, m>> /\ z = <<c, k>>
  BY DEF Id
<1>2. /\ ~ NumeralBelow(n, n)
      /\ n # m => NumeralBelow(n, m) \/ NumeralBelow(m, n)
      /\ NumeralBelow(n, m) /\ NumeralBelow(m, k) => NumeralBelow(n, k)
  BY NumeralsOrdered
<1>3. /\ IdBelow(x, x) <=> a < a \/ (a = a /\ NumeralBelow(n, n))
      /\ IdBelow(x, y) <=> a < b \/ (a = b /\ NumeralBelow(n, m))
      /\ IdBelow(y, x) <=> b < a \/ (b = a /\ NumeralBelow(m, n))
      /\ IdBelow(y, z) <=> b < c \/ (b = c /\ NumeralBelow(m, k))
      /\ IdBelow(x, z) <=> a < c \/ (a = c /\ NumeralBelow(n, k))
  BY <1>1 DEF IdBelow
<1>4. x # y => a # b \/ n # m
  BY <1>1
<1> QED
  BY <1>2, <1>3, <1>4

----------------------------------------------------------------------------
(* The inductive invariant.                                                *)

\* Records that were acknowledged and cannot be read.
Missing == acked \ Range(file)

\* The line behind a torn one will be lost as well.
Owed == IF torn = "left" THEN 1 ELSE 0

\* What is recorded, the summary of the start-up check included.
Summary == [event |-> "STARTUP_CHECK", to |-> "", amount |-> 0, sanctions |-> FALSE, fate |-> "",
            wide |-> FALSE]
Entries == (UNION {Entry[f] : f \in DOMAIN Entry}) \cup {Summary}
Line == [id : Id, ts : Nat, entry : Entries]
Torn == {"no", "own", "left"}

TypeInv ==
  /\ file \in Seq(Line) /\ backlog \in Seq(Line) /\ pending \subseteq Line
  /\ torn \in Torn /\ cut \in BOOLEAN /\ garbled \in BOOLEAN
  /\ process \in Nat /\ seq \in Nat /\ clock \in Nat /\ tears \in Nat
  /\ focus \in DOMAIN Entry /\ used \subseteq Process
  /\ IsFiniteSet(acked)

LossInv == Cardinality(Missing) + Owed <= tears

ReportsInv == TypeInv /\ LossInv

\* Lines with different ids.
Apart == {p \in Line \X Line : p[1].id # p[2].id}

\* No id is given twice: in the file, behind it in the buffer, and in the threads that wait.
Stamps(lines, buffer, waiting, n) ==
  /\ \A r \in Range(lines) \cup Range(buffer) \cup waiting :
       r.id[1] \in used /\ (r.id[1] = process => r.id[2] <= n)
  /\ Ordered(lines, Apart) /\ Ordered(buffer, Apart)
  /\ \A x \in Range(lines), y \in Range(buffer) : <<x, y>> \in Apart
  /\ \A x \in Range(lines) \cup Range(buffer), y \in waiting : <<x, y>> \in Apart
  /\ \A x, y \in waiting : x # y => <<x, y>> \in Apart
OrderInv ==
  /\ process # 0 => process \in used
  /\ check = "due" => process # 0
  /\ Stamps(file, backlog, pending, seq)

\* What a client has been given is above its cursor, and what it has still to be given, of
\* the records that were there when it began, is below.
Matches(r, event) == event = "" \/ r.entry.event = event
PageInv ==
  /\ page = [event |-> page.event, cursor |-> page.cursor, start |-> page.start,
             seen |-> page.seen, count |-> page.count, done |-> page.done,
             failed |-> page.failed]
  /\ page.seen \subseteq Range(file)
  /\ page.start \subseteq {r \in Range(file) : Matches(r, page.event)}
  /\ page.count = Cardinality(page.seen)
  /\ IF page.cursor = <<>> THEN page.seen = {}
     ELSE page.cursor \in Id /\ \A r \in page.seen : ~ IdBelow(r.id, page.cursor)
  /\ \A r \in page.start \ page.seen :
       /\ page.done => page.failed
       /\ page.cursor = <<>> \/ IdBelow(r.id, page.cursor)

----------------------------------------------------------------------------
(* The file only grows.                                                    *)

\* What is added is at most the lines that are written, and all of them when no torn
\* line stands before them.
LEMMA LegibleIs ==
  ASSUME TypeInv, NEW s \in Seq(Line)
  PROVE  /\ Legible(s) \in Seq(Line)
         /\ torn # "left" => Legible(s) = s
<1>1. CASE torn = "left" /\ s # <<>>
  BY <1>1, HeadTailProperties DEF Legible
<1>2. CASE ~ (torn = "left" /\ s # <<>>)
  BY <1>2 DEF Legible
<1> QED
  BY <1>1, <1>2

\* Written lines only add to the file.
LEMMA FileGrows ==
  ASSUME TypeInv, NEW s \in Seq(Line), file' = file \o Legible(s)
  PROVE  /\ file' \in Seq(Line) /\ Range(file) \subseteq Range(file')
         /\ torn # "left" => Range(s) \subseteq Range(file')
<1>1. Legible(s) \in Seq(Line) /\ (torn # "left" => Legible(s) = s)
  BY LegibleIs
<1>2. file \in Seq(Line)
  BY DEF TypeInv
<1>3. file' \in Seq(Line)
  BY <1>1, <1>2, ConcatProperties
<1>4. Range(file') = Range(file) \cup Range(Legible(s))
  BY <1>1, <1>2, RangeConcatenation
<1> QED
  BY <1>1, <1>3, <1>4

\* As the file grows no more is missing.
LEMMA NoMoreMissing ==
  ASSUME TypeInv, acked' = acked, Range(file) \subseteq Range(file')
  PROVE  Cardinality(Missing') <= Cardinality(Missing) /\ IsFiniteSet(acked')
<1>1. IsFiniteSet(acked)
  BY DEF TypeInv
<1>2. IsFiniteSet(Missing)
  BY <1>1, FS_Subset DEF Missing
<1>3. Missing' \subseteq Missing
  BY DEF Missing
<1> QED
  BY <1>1, <1>2, <1>3, FS_Subset

\* What is missing can be counted.
LEMMA MissingCount ==
  ASSUME TypeInv
  PROVE  IsFiniteSet(Missing) /\ Cardinality(Missing) \in Nat
<1>1. IsFiniteSet(Missing)
  BY FS_Subset DEF Missing, TypeInv
<1> QED
  BY <1>1, FS_CardinalityType

----------------------------------------------------------------------------
(* Every step keeps the invariant.                                         *)

\* A list cut in two.
LEMMA Parts ==
  ASSUME NEW s \in Seq(Line), NEW n \in 0..Len(s)
  PROVE  SubSeq(s, 1, n) \in Seq(Line) /\ SubSeq(s, n + 1, Len(s)) \in Seq(Line)
<1>1. Len(s) \in Nat /\ \A i \in 1..Len(s) : s[i] \in Line
  BY LenProperties, ElementOfSeq
<1>2. \A i \in 1..n : s[i] \in Line
  BY <1>1
<1>3. \A i \in n + 1..Len(s) : s[i] \in Line
  BY <1>1
<1> QED
  BY <1>1, <1>2, <1>3, SubSeqProperties

\* The file ends in another's part of a line only where it did before.
LEMMA EndsAre ==
  ASSUME TypeInv, NEW s, NEW n, NEW end \in Ends(s, n)
  PROVE  /\ end[1] \in Torn /\ end[2] \in BOOLEAN
         /\ end[1] = "left" => torn = "left"
         /\ n = Len(s) /\ n # 0 => end[1] = "no"
<1>1. CASE n = Len(s)
  <2>1. end = <<IF n = 0 THEN torn ELSE "no", FALSE>>
    BY <1>1 DEF Ends
  <2>2. end[1] = (IF n = 0 THEN torn ELSE "no") /\ end[2] = FALSE
    BY <2>1
  <2>3. end[2] \in BOOLEAN
    BY <2>2, Zenon
  <2>4. end[1] \in Torn
    BY <2>2 DEF TypeInv, Torn
  <2> QED
    BY <2>2, <2>3, <2>4
<1>2. CASE n # Len(s)
  <2>1. end \in (IF n = 0 /\ torn # "no" THEN {torn} ELSE {"no", "own"}) \X BOOLEAN
    BY <1>2 DEF Ends
  <2> QED
    BY <1>2, <2>1 DEF TypeInv, Torn
<1> QED
  BY <1>1, <1>2

\* Some lines of the buffer reach the file.
LEMMA FlushStep ==
  ASSUME TypeInv, NEW s \in Seq(Line), NEW n \in 0..Len(s), Flush(s, n)
  PROVE  /\ file' = file \o Legible(SubSeq(s, 1, n)) /\ backlog' = SubSeq(s, n + 1, Len(s))
         /\ file' \in Seq(Line) /\ Range(file) \subseteq Range(file')
         /\ backlog' \in Seq(Line)
         /\ torn' \in Torn /\ cut' \in BOOLEAN /\ garbled' \in BOOLEAN
         /\ torn' = "left" => torn = "left"
         /\ n = Len(s) /\ n # 0 => torn' = "no"
<1>1. /\ file' = file \o Legible(SubSeq(s, 1, n)) /\ backlog' = SubSeq(s, n + 1, Len(s))
      /\ garbled' = garbled
  BY DEF Flush, Opened
<1>2. PICK end \in Ends(s, n) : torn' = end[1] /\ cut' = end[2]
  BY DEF Flush
<1>3. /\ end[1] \in Torn /\ end[2] \in BOOLEAN /\ (end[1] = "left" => torn = "left")
      /\ n = Len(s) /\ n # 0 => end[1] = "no"
  BY EndsAre
<1>4. SubSeq(s, 1, n) \in Seq(Line) /\ SubSeq(s, n + 1, Len(s)) \in Seq(Line)
  BY Parts
<1>5. file' \in Seq(Line) /\ Range(file) \subseteq Range(file')
  BY <1>1, <1>4, FileGrows
<1>6. garbled \in BOOLEAN
  BY DEF TypeInv
<1> QED
  BY <1>1, <1>2, <1>3, <1>4, <1>5, <1>6

\* No record is acknowledged, no more is owed.
LEMMA QuietStep ==
  ASSUME ReportsInv, acked' = acked, tears' = tears, Range(file) \subseteq Range(file'),
         torn' = "left" => torn = "left"
  PROVE  IsFiniteSet(acked') /\ LossInv'
<1> USE DEF ReportsInv
<1>1. Cardinality(Missing') <= Cardinality(Missing) /\ IsFiniteSet(acked')
  BY NoMoreMissing
<1>2. Cardinality(Missing') \in Nat
  <2>1. IsFiniteSet(Missing')
    BY <1>1, FS_Subset DEF Missing
  <2> QED
    BY <2>1, FS_CardinalityType
<1>3. Owed' <= Owed /\ Owed \in Nat /\ Owed' \in Nat
  BY DEF Owed
<1> QED
  BY <1>1, <1>2, <1>3, MissingCount DEF LossInv, TypeInv

\* The buffer is written whole: the new line is lost only behind a torn one.
LEMMA AckedStep ==
  ASSUME ReportsInv, NEW r \in Line, NEW all, all = Append(backlog, r),
         Flush(all, Len(all)), acked' = acked \cup {r}, tears' = tears
  PROVE  IsFiniteSet(acked') /\ LossInv'
<1> USE DEF ReportsInv
<1>1. all \in Seq(Line) /\ Len(all) = Len(backlog) + 1 /\ Len(backlog) \in Nat
  BY AppendProperties, LenProperties DEF TypeInv
<1>2. r \in Range(all)
  <2>1. Range(all) = Range(backlog) \cup {r}
    BY RangeAppend DEF TypeInv
  <2> QED
    BY <2>1
<1>3. file' = file \o Legible(all) /\ torn' = "no"
  <2>1. Len(all) \in 0..Len(all) /\ Len(all) # 0
    BY <1>1
  <2>2. file' = file \o Legible(SubSeq(all, 1, Len(all))) /\ torn' = "no"
    BY <1>1, <2>1, FlushStep
  <2>3. SubSeq(all, 1, Len(all)) = all
    BY <1>1, SubSeqFull
  <2> QED
    BY <2>2, <2>3
<1>4. /\ file' \in Seq(Line) /\ Range(file) \subseteq Range(file')
      /\ torn # "left" => r \in Range(file')
  BY <1>1, <1>2, <1>3, FileGrows
<1>5. IsFiniteSet(acked') /\ IsFiniteSet(Missing)
  BY FS_AddElement, MissingCount DEF TypeInv
<1>6. Missing' \subseteq Missing \cup {r} /\ (torn # "left" => Missing' \subseteq Missing)
  BY <1>4 DEF Missing
<1>7. Cardinality(Missing') <= Cardinality(Missing) + Owed
  <2>1. IsFiniteSet(Missing \cup {r}) /\ Cardinality(Missing \cup {r}) <= Cardinality(Missing) + 1
    <3>1. /\ IsFiniteSet(Missing \cup {r})
          /\ Cardinality(Missing \cup {r}) =
               IF r \in Missing THEN Cardinality(Missing) ELSE Cardinality(Missing) + 1
      BY <1>5, FS_AddElement
    <3>2. PICK m \in Nat : m = Cardinality(Missing)
      BY MissingCount
    <3> QED
      BY <3>1, <3>2
  <2>2. CASE torn = "left"
    <3>1. Cardinality(Missing') <= Cardinality(Missing \cup {r})
      BY <1>6, <2>1, FS_Subset
    <3>2. Cardinality(Missing') \in Nat /\ Cardinality(Missing \cup {r}) \in Nat
      BY <1>6, <2>1, FS_Subset, FS_CardinalityType
    <3> QED
      BY <2>1, <2>2, <3>1, <3>2, MissingCount DEF Owed
  <2>3. CASE torn # "left"
    BY <1>5, <1>6, <2>3, FS_Subset, MissingCount DEF Owed
  <2> QED
    BY <2>2, <2>3
<1>8. LossInv'
  <2>1. Owed' = 0 /\ Owed \in Nat /\ tears \in Nat
    BY <1>3 DEF Owed, TypeInv
  <2>2. Cardinality(Missing') \in Nat
    BY <1>5, <1>6, FS_AddElement, FS_Subset, FS_CardinalityType
  <2> QED
    BY <1>7, <2>1, <2>2, MissingCount DEF LossInv
<1> QED
  BY <1>5, <1>8

\* Whichever way a write ends, the invariant holds after it.
LEMMA WriteStep ==
  ASSUME ReportsInv, NEW r, Write(r)
  PROVE  ReportsInv' /\ Range(file) \subseteq Range(file')
<1> USE DEF ReportsInv
<1>1. /\ r \in pending /\ pending' = pending \ {r}
      /\ UNCHANGED <<process, used, seq, clock, check, page, tears, focus>>
  BY DEF Write
<1>2. r \in Line
  BY <1>1 DEF TypeInv
<1>3. PICK all : all = Append(backlog, r)
  OBVIOUS
<1>4. all \in Seq(Line) /\ Len(all) \in Nat
  BY <1>2, <1>3, AppendProperties, LenProperties DEF TypeInv
<1>5. /\ file' \in Seq(Line) /\ backlog' \in Seq(Line) /\ Range(file) \subseteq Range(file')
      /\ torn' \in Torn /\ cut' \in BOOLEAN /\ garbled' \in BOOLEAN
      /\ IsFiniteSet(acked') /\ LossInv'
  <2>1. CASE Flush(all, Len(all)) /\ acked' = acked \cup {r}
    <3>1. Len(all) \in 0..Len(all)
      BY <1>4
    <3>2. /\ file' \in Seq(Line) /\ backlog' \in Seq(Line) /\ Range(file) \subseteq Range(file')
          /\ torn' \in Torn /\ cut' \in BOOLEAN /\ garbled' \in BOOLEAN
      BY <1>4, <2>1, <3>1, FlushStep
    <3>3. IsFiniteSet(acked') /\ LossInv'
      BY <1>1, <1>2, <1>3, <2>1, AckedStep
    <3> QED
      BY <3>2, <3>3
  <2>2. ASSUME NEW n \in 0..Len(all), Flush(all, n), acked' = acked
        PROVE  /\ file' \in Seq(Line) /\ backlog' \in Seq(Line) /\ Range(file) \subseteq Range(file')
               /\ torn' \in Torn /\ cut' \in BOOLEAN /\ garbled' \in BOOLEAN
               /\ IsFiniteSet(acked') /\ LossInv'
    <3>1. /\ file' \in Seq(Line) /\ backlog' \in Seq(Line) /\ Range(file) \subseteq Range(file')
          /\ torn' \in Torn /\ cut' \in BOOLEAN /\ garbled' \in BOOLEAN
          /\ torn' = "left" => torn = "left"
      BY <1>4, <2>2, FlushStep
    <3>2. IsFiniteSet(acked') /\ LossInv'
      BY <1>1, <2>2, <3>1, QuietStep
    <3> QED
      BY <3>1, <3>2
  <2>3. CASE UNCHANGED <<disk, backlog, acked>>
    <3>1. IsFiniteSet(acked') /\ LossInv'
      BY <1>1, <2>3, QuietStep DEF disk
    <3> QED
      BY <2>3, <3>1 DEF disk, TypeInv
  <2>4. \/ Flush(all, Len(all)) /\ acked' = acked \cup {r}
        \/ \E n \in 0..Len(all) : Flush(all, n) /\ acked' = acked
        \/ UNCHANGED <<disk, backlog, acked>>
    BY <1>3 DEF Write
  <2> QED
    BY <2>1, <2>2, <2>3, <2>4
<1>6. TypeInv'
  BY <1>1, <1>5 DEF TypeInv
<1> QED
  BY <1>5, <1>6

\* A handle that is lost: what it leaves in pieces is counted as a tear.
LEMMA LostStep ==
  ASSUME ReportsInv, acked' = acked, Range(file) \subseteq Range(file'),
         NEW t \in Torn, NEW c \in BOOLEAN, t = "left" => torn = "left", Lost(t, c)
  PROVE  /\ torn' \in Torn /\ cut' \in BOOLEAN /\ garbled' \in BOOLEAN /\ tears' \in Nat
         /\ backlog' \in Seq(Line) /\ IsFiniteSet(acked') /\ LossInv'
<1> USE DEF ReportsInv
<1>1. /\ backlog' = <<>> /\ torn' = (IF t = "no" THEN "no" ELSE "left")
      /\ tears' = (IF t = "own" THEN tears + 1 ELSE tears)
      /\ cut' = FALSE /\ garbled' = (garbled \/ c)
  BY DEF Lost
<1>2. PICK m \in Nat : m = Cardinality(Missing)
  BY MissingCount
<1>3. Cardinality(Missing') <= Cardinality(Missing) /\ IsFiniteSet(acked')
  BY NoMoreMissing
<1>4. PICK k \in Nat : k = Cardinality(Missing')
  <2>1. IsFiniteSet(Missing')
    BY <1>3, FS_Subset DEF Missing
  <2> QED
    BY <2>1, FS_CardinalityType
<1>5. tears \in Nat /\ tears' \in Nat
  BY <1>1 DEF TypeInv
<1>6. PICK o \in Nat, q \in Nat : o = Owed /\ q = Owed' /\ q <= o + (tears' - tears)
  BY <1>1, <1>5 DEF Owed, Torn
<1>7. k + q <= tears'
  <2>1. m + o <= tears /\ k <= m
    BY <1>2, <1>3, <1>4, <1>6 DEF LossInv
  <2>2. \A h, i, j, l, x, y \in Nat : i + j <= x /\ l <= j + (y - x) /\ h <= i => h + l <= y
    OBVIOUS
  <2> QED
    BY <1>5, <1>6, <2>1, <2>2
<1>8. LossInv'
  BY <1>4, <1>6, <1>7 DEF LossInv
<1>9. garbled' \in BOOLEAN /\ torn' \in Torn
  BY <1>1 DEF TypeInv, Torn
<1> QED
  BY <1>1, <1>3, <1>5, <1>8, <1>9, EmptySeq

\* The shutdown writes what it can of the buffer.
LEMMA CloseStep ==
  ASSUME ReportsInv, Close
  PROVE  ReportsInv' /\ Range(file) \subseteq Range(file')
<1> USE DEF ReportsInv
<1>1. acked' = acked /\ UNCHANGED <<process, used, seq, pending, clock, page, focus>>
  BY DEF Close
<1>2. CASE UNCHANGED <<disk, backlog, tears>>
  <2>1. IsFiniteSet(acked') /\ LossInv'
    BY <1>1, <1>2, QuietStep DEF disk
  <2> QED
    BY <1>1, <1>2, <2>1 DEF disk, TypeInv
<1>3. ASSUME NEW n \in 0..Len(backlog), file' = file \o Legible(SubSeq(backlog, 1, n)),
             NEW end \in Ends(backlog, n), Lost(end[1], end[2])
      PROVE  ReportsInv' /\ Range(file) \subseteq Range(file')
  <2>1. SubSeq(backlog, 1, n) \in Seq(Line)
    BY Parts DEF TypeInv
  <2>2. file' \in Seq(Line) /\ Range(file) \subseteq Range(file')
    BY <1>3, <2>1, FileGrows
  <2>3. end[1] \in Torn /\ end[2] \in BOOLEAN /\ (end[1] = "left" => torn = "left")
    BY EndsAre
  <2>4. /\ torn' \in Torn /\ cut' \in BOOLEAN /\ garbled' \in BOOLEAN /\ tears' \in Nat
        /\ backlog' \in Seq(Line) /\ IsFiniteSet(acked') /\ LossInv'
    BY <1>1, <1>3, <2>2, <2>3, LostStep
  <2> QED
    BY <1>1, <2>2, <2>4 DEF TypeInv
<1> QED
  BY <1>2, <1>3 DEF Close

\* What record() stamps is a line.
LEMMA StampedType ==
  ASSUME TypeInv, NEW e \in Entries
  PROVE  Stamped(e) \in Line
BY DEF Stamped, Line, Id, TypeInv

\* An empty file misses nothing.
LEMMA InitReports == Init => ReportsInv
<1> SUFFICES ASSUME Init PROVE ReportsInv
  OBVIOUS
<1>1. TypeInv
  BY EmptySeq, FS_EmptySet DEF Init, TypeInv, Torn
<1>2. Missing = {} /\ Owed = 0 /\ tears = 0
  BY DEF Missing, Owed, Init
<1> QED
  BY <1>1, <1>2, FS_EmptySet DEF ReportsInv, LossInv

\* Each action keeps types and the bound on losses.
LEMMA ReportsStep == ReportsInv /\ [Next]_vars => ReportsInv'
<1> SUFFICES ASSUME ReportsInv, [Next]_vars PROVE ReportsInv'
  OBVIOUS
<1> USE DEF ReportsInv
\* The disk and what was acknowledged stay as they are.
<1>1. ASSUME /\ UNCHANGED <<file, torn, cut, garbled, backlog, acked, tears, focus>>
             /\ pending' \subseteq Line
             /\ process' \in Nat /\ seq' \in Nat /\ clock' \in Nat /\ used' \subseteq Process
      PROVE  ReportsInv'
  <2>1. IsFiniteSet(acked') /\ LossInv'
    BY <1>1, QuietStep
  <2> QED
    BY <1>1, <2>1 DEF TypeInv
<1>2. ASSUME NEW e \in Entries, Stamp(e) PROVE ReportsInv'
  <2>1. seq + 1 \in Nat /\ pending \cup {Stamped(e)} \subseteq Line
    BY StampedType DEF TypeInv
  <2> QED
    BY <1>1, <1>2, <2>1 DEF Stamp, disk, history, TypeInv
<1>3. ASSUME NEW e \in Entry[focus], Record(e) PROVE ReportsInv'
  <2>1. e \in Entries
    BY <1>3 DEF Entries, TypeInv
  <2> QED
    BY <1>2, <1>3, <2>1 DEF Record
<1>4. ASSUME NEW down \in BOOLEAN, StartupCheck(down), Successes # {} PROVE ReportsInv'
  <2>1. Summary \in Entries
    BY Zenon DEF Entries
  <2>2. Stamp(Summary)
    BY <1>4 DEF StartupCheck, Summary
  <2> QED
    BY <1>2, <2>1, <2>2
<1>5. ASSUME NEW p \in Process, Start(p) PROVE ReportsInv'
  <2>1. p \in Nat
    BY ReportsAssumption
  <2> QED
    BY <1>1, <1>5, <2>1 DEF Start, disk, history, TypeInv
<1>6. CASE TimePasses
  <2>1. clock' \in Nat
    BY <1>6 DEF TimePasses, TypeInv
  <2> QED
    BY <1>1, <1>6, <2>1 DEF TimePasses, disk, history, TypeInv
<1>7. ASSUME NEW down \in BOOLEAN, StartupCheck(down), Successes = {} PROVE ReportsInv'
  BY <1>1, <1>7 DEF StartupCheck, disk, history, TypeInv
<1>8. ASSUME NEW event, FirstPage(event) PROVE ReportsInv'
  BY <1>1, <1>8 DEF FirstPage, disk, history, TypeInv
<1>9. ASSUME NEW raises, NextPage(raises) PROVE ReportsInv'
  BY <1>1, <1>9 DEF NextPage, disk, history, TypeInv
<1>10. CASE UNCHANGED vars
  BY <1>1, <1>10 DEF vars, disk, history, TypeInv
<1>11. CASE Die
  <2>1. /\ file' = file /\ acked' = acked /\ process' = 0 /\ pending' = {}
        /\ seq' = seq /\ clock' = clock /\ focus' = focus /\ used' = used /\ Lost(torn, cut)
    BY <1>11 DEF Die
  <2>2. torn \in Torn /\ cut \in BOOLEAN
    BY DEF TypeInv
  <2>3. /\ torn' \in Torn /\ cut' \in BOOLEAN /\ garbled' \in BOOLEAN /\ tears' \in Nat
        /\ backlog' \in Seq(Line) /\ IsFiniteSet(acked') /\ LossInv'
    BY <2>1, <2>2, LostStep
  <2> QED
    BY <2>1, <2>3 DEF TypeInv
<1>12. CASE Close
  BY <1>12, CloseStep
<1>13. ASSUME NEW r, Write(r) PROVE ReportsInv'
  BY <1>13, WriteStep
<1> QED
  BY <1>3, <1>4, <1>5, <1>6, <1>7, <1>8, <1>9, <1>10, <1>11, <1>12, <1>13 DEF Next

\* The invariant of the losses, at every moment.
LEMMA ReportsAlways == Spec => []ReportsInv
BY InitReports, ReportsStep, PTL DEF Spec

----------------------------------------------------------------------------
(* No id is given twice.                                                   *)

\* A list cut in two.
LEMMA PartsOrdered ==
  ASSUME NEW U, NEW s \in Seq(U), NEW R, Ordered(s, R), NEW n \in 0..Len(s)
  PROVE  /\ SubSeq(s, 1, n) \in Seq(U) /\ SubSeq(s, n + 1, Len(s)) \in Seq(U)
         /\ Len(SubSeq(s, 1, n)) = n
         /\ Ordered(SubSeq(s, 1, n), R) /\ Ordered(SubSeq(s, n + 1, Len(s)), R)
         /\ Range(s) = Range(SubSeq(s, 1, n)) \cup Range(SubSeq(s, n + 1, Len(s)))
         /\ \A x \in Range(SubSeq(s, 1, n)), y \in Range(SubSeq(s, n + 1, Len(s))) : <<x, y>> \in R
<1>1. PICK m \in Nat : m = Len(s) /\ DOMAIN s = 1..m /\ \A i \in 1..m : s[i] \in U
  BY LenProperties, ElementOfSeq
<1>2. PICK a, b : a = SubSeq(s, 1, n) /\ b = SubSeq(s, n + 1, Len(s))
  OBVIOUS
<1>3. n \in Nat /\ n <= m
  BY <1>1
<1>4. /\ a \in Seq(U) /\ Len(a) = n /\ DOMAIN a = 1..n
      /\ \A i \in 1..n : a[i] = s[i]
  <2>1. \A i \in 1..n : s[i] \in U
    BY <1>1
  <2>2. a \in Seq(U) /\ Len(a) = n /\ \A i \in 1..n : a[i] = s[i]
    BY <1>2, <1>3, <2>1, SubSeqProperties
  <2> QED
    BY <2>2, LenProperties
<1>5. /\ b \in Seq(U) /\ DOMAIN b = 1..(m - n)
      /\ \A i \in 1..(m - n) : b[i] = s[i + n]
  <2>1. \A i \in (n + 1)..m : s[i] \in U
    BY <1>1
  <2>2. /\ b \in Seq(U) /\ Len(b) = m - n
        /\ \A i \in 1..(m - n) : b[i] = s[i + n]
    BY <1>1, <1>2, <1>3, <2>1
  <2> QED
    BY <2>2, LenProperties
<1>6. \A i \in 1..(m - n) : i + n \in 1..m /\ i + n > n
  BY <1>3
<1>7. Ordered(a, R)
  BY <1>1, <1>3, <1>4 DEF Ordered
<1>8. Ordered(b, R)
  <2> SUFFICES ASSUME NEW i \in 1..(m - n), NEW j \in 1..(m - n), i < j PROVE <<b[i], b[j]>> \in R
    BY <1>5 DEF Ordered
  <2>1. i + n \in DOMAIN s /\ j + n \in DOMAIN s /\ i + n < j + n
    BY <1>1, <1>3
  <2> QED
    BY <1>5, <2>1 DEF Ordered
<1>9. Range(s) = Range(a) \cup Range(b)
  <2>1. ASSUME NEW i \in 1..m PROVE s[i] \in Range(a) \cup Range(b)
    <3>1. CASE i <= n
      BY <1>4, <3>1 DEF Range
    <3>2. CASE ~ (i <= n)
      <4>1. i - n \in 1..(m - n) /\ (i - n) + n = i
        BY <1>3, <3>2
      <4>2. s[i] = b[i - n]
        BY <1>5, <4>1
      <4> QED
        BY <1>5, <4>1, <4>2 DEF Range
    <3> QED
      BY <3>1, <3>2
  <2>2. \A i \in 1..n : i \in 1..m
    BY <1>3
  <2>3. Range(s) \subseteq Range(a) \cup Range(b)
    <3>1. Range(s) = {s[i] : i \in 1..m}
      BY <1>1 DEF Range
    <3> QED
      BY <2>1, <3>1
  <2>4. Range(a) \subseteq Range(s)
    BY <1>1, <1>4, <2>2 DEF Range
  <2>5. Range(b) \subseteq Range(s)
    BY <1>1, <1>5, <1>6 DEF Range
  <2> QED
    BY <2>3, <2>4, <2>5
<1>10. ASSUME NEW x \in Range(a), NEW y \in Range(b) PROVE <<x, y>> \in R
  <2>1. PICK i \in 1..n : x = s[i]
    BY <1>4 DEF Range
  <2>2. PICK j \in 1..(m - n) : y = s[j + n]
    BY <1>5 DEF Range
  <2>3. i \in DOMAIN s /\ j + n \in DOMAIN s /\ i < j + n
    BY <1>1, <1>3, <1>6
  <2> QED
    BY <2>1, <2>2, <2>3 DEF Ordered
<1> QED
  BY <1>2, <1>4, <1>5, <1>7, <1>8, <1>9, <1>10

\* A list without its first item.
LEMMA TailOrdered ==
  ASSUME NEW U, NEW s \in Seq(U), s # <<>>, NEW R, Ordered(s, R)
  PROVE  Tail(s) \in Seq(U) /\ Ordered(Tail(s), R) /\ Range(Tail(s)) \subseteq Range(s)
<1>1. PICK m \in Nat : m = Len(s) /\ DOMAIN s = 1..m
  BY LenProperties
<1>2. PICK t : t = Tail(s)
  OBVIOUS
<1>3. t \in Seq(U) /\ Len(t) = m - 1 /\ \A i \in 1..(m - 1) : t[i] = s[i + 1]
  BY <1>1, <1>2, HeadTailProperties
<1>4. DOMAIN t = 1..(m - 1)
  BY <1>3, LenProperties
<1>5. \A i \in 1..(m - 1) : i + 1 \in 1..m
  BY <1>1
<1>6. Ordered(t, R)
  <2> SUFFICES ASSUME NEW i \in 1..(m - 1), NEW j \in 1..(m - 1), i < j PROVE <<t[i], t[j]>> \in R
    BY <1>4 DEF Ordered
  <2>1. i + 1 \in DOMAIN s /\ j + 1 \in DOMAIN s /\ i + 1 < j + 1
    BY <1>1, <1>5
  <2> QED
    BY <1>3, <2>1 DEF Ordered
<1>7. Range(t) \subseteq Range(s)
  BY <1>1, <1>3, <1>4, <1>5 DEF Range
<1> QED
  BY <1>2, <1>3, <1>6, <1>7

\* What readers see of a run of lines is in its order.
LEMMA LegibleOrdered ==
  ASSUME NEW s \in Seq(Line), Ordered(s, Apart)
  PROVE  Legible(s) \in Seq(Line) /\ Ordered(Legible(s), Apart) /\ Range(Legible(s)) \subseteq Range(s)
<1>1. CASE torn = "left" /\ s # <<>>
  BY <1>1, TailOrdered DEF Legible
<1>2. CASE ~ (torn = "left" /\ s # <<>>)
  BY <1>2 DEF Legible
<1> QED
  BY <1>1, <1>2

\* The lines of a buffer move to the file or stay; some may be lost.
LEMMA Moved ==
  ASSUME NEW s \in Seq(Line), NEW t \in Seq(Line), NEW w, NEW n, Stamps(s, t, w, n),
         NEW a \in Seq(Line), NEW b \in Seq(Line), Ordered(a, Apart), Ordered(b, Apart),
         Range(a) \subseteq Range(t), Range(b) \subseteq Range(t),
         \A x \in Range(a), y \in Range(b) : <<x, y>> \in Apart
  PROVE  Stamps(s \o Legible(a), b, w, n)
<1>1. PICK c : c = Legible(a)
  OBVIOUS
<1>2. c \in Seq(Line) /\ Ordered(c, Apart) /\ Range(c) \subseteq Range(a)
  BY <1>1, LegibleOrdered
<1>3. \A x \in Range(s), y \in Range(c) : <<x, y>> \in Apart
  BY <1>2 DEF Stamps
<1>4. Ordered(s \o c, Apart)
  BY <1>2, <1>3, OrderedConcat DEF Stamps
<1>5. Range(s \o c) = Range(s) \cup Range(c)
  BY <1>2, RangeConcatenation
<1> QED
  BY <1>1, <1>2, <1>3, <1>4, <1>5 DEF Stamps

\* A flush moves the first lines, and keeps the others.
LEMMA FlushMoves ==
  ASSUME NEW s \in Seq(Line), NEW t \in Seq(Line), NEW w, NEW n, Stamps(s, t, w, n),
         NEW k \in 0..Len(t)
  PROVE  Stamps(s \o Legible(SubSeq(t, 1, k)), SubSeq(t, k + 1, Len(t)), w, n)
<1>1. PICK a, b : a = SubSeq(t, 1, k) /\ b = SubSeq(t, k + 1, Len(t))
  OBVIOUS
<1>2. Ordered(t, Apart)
  BY DEF Stamps
<1>3. /\ a \in Seq(Line) /\ b \in Seq(Line) /\ Ordered(a, Apart) /\ Ordered(b, Apart)
      /\ Range(t) = Range(a) \cup Range(b)
      /\ \A x \in Range(a), y \in Range(b) : <<x, y>> \in Apart
  BY <1>1, <1>2, PartsOrdered
<1>4. Range(a) \subseteq Range(t) /\ Range(b) \subseteq Range(t)
  BY <1>3
<1>5. Stamps(s \o Legible(a), b, w, n)
  BY <1>3, <1>4, Moved
<1> QED
  BY <1>1, <1>5

\* The lines that have ids.
LEMMA Known ==
  ASSUME TypeInv, NEW x \in Range(file) \cup Range(backlog) \cup pending
  PROVE  x \in Line /\ \E c \in Nat, n \in Nat : x.id = <<c, n>>
<1>1. x \in Line
  BY RangeOfSeq DEF TypeInv
<1> QED
  BY <1>1 DEF Line, Id

\* A new id is none of those given before.
LEMMA StampOrdered ==
  ASSUME TypeInv, OrderInv, process # 0, NEW e \in Entries, Stamp(e)
  PROVE  OrderInv'
<1>0. seq \in Nat /\ process \in used
  BY DEF TypeInv, OrderInv
<1>1. PICK r \in Line : r = Stamped(e)
  BY StampedType
<1>2. r.id = <<process, seq + 1>> /\ r.id[1] = process /\ r.id[2] = seq + 1
  BY <1>1 DEF Stamped
<1>3. /\ seq' = seq + 1 /\ pending' = pending \cup {r}
      /\ UNCHANGED <<file, backlog, process, used>>
  BY <1>1 DEF Stamp, disk
<1>4. PICK w : w = pending \cup {r}
  OBVIOUS
<1>5. ASSUME NEW x \in Range(file) \cup Range(backlog) \cup pending
      PROVE  /\ <<x, r>> \in Apart /\ <<r, x>> \in Apart
             /\ x.id[1] = process => x.id[2] <= seq + 1
  <2>1. x \in Line
    BY Known
  <2>2. PICK c \in Nat, n \in Nat : x.id = <<c, n>>
    BY Known
  <2>3. x.id[1] = process => x.id[2] <= seq
    BY DEF OrderInv, Stamps
  <2>4. x.id # r.id /\ (x.id[1] = process => x.id[2] <= seq + 1)
    BY <1>0, <1>2, <2>2, <2>3
  <2> QED
    BY <2>1, <2>4 DEF Apart
<1>6. ASSUME NEW x \in Range(file) \cup Range(backlog) \cup w
      PROVE  x.id[1] \in used /\ (x.id[1] = process => x.id[2] <= seq + 1)
  <2>1. CASE x = r
    <3>1. seq + 1 <= seq + 1
      BY <1>0
    <3> QED
      BY <1>0, <1>2, <2>1, <3>1
  <2>2. CASE x # r
    <3>1. x \in Range(file) \cup Range(backlog) \cup pending
      BY <1>4, <2>2
    <3> QED
      BY <1>5, <3>1 DEF OrderInv, Stamps
  <2> QED
    BY <2>1, <2>2
<1>7. /\ \A x \in Range(file) \cup Range(backlog), y \in w : <<x, y>> \in Apart
      /\ \A x, y \in w : x # y => <<x, y>> \in Apart
  BY <1>4, <1>5 DEF OrderInv, Stamps
<1>8. Stamps(file, backlog, w, seq + 1)
  BY <1>6, <1>7 DEF OrderInv, Stamps
<1> QED
  BY <1>0, <1>3, <1>4, <1>8 DEF OrderInv, Stamps

\* A thread that waits goes on to the buffer, or gives up.
LEMMA Written ==
  ASSUME TypeInv, OrderInv, NEW r \in pending
  PROVE  /\ Append(backlog, r) \in Seq(Line)
         /\ Stamps(file, Append(backlog, r), pending \ {r}, seq)
         /\ Stamps(file, backlog, pending \ {r}, seq)
<1>0. r \in Line /\ backlog \in Seq(Line)
  BY DEF TypeInv
<1>1. PICK all, w : all = Append(backlog, r) /\ w = pending \ {r}
  OBVIOUS
<1>2. all \in Seq(Line) /\ Range(all) = Range(backlog) \cup {r}
  BY <1>0, <1>1, AppendProperties, RangeAppend
<1>3. \A x \in Range(backlog) : <<x, r>> \in Apart
  BY DEF OrderInv, Stamps
<1>4. Ordered(all, Apart)
  BY <1>0, <1>1, <1>3, OrderedAppend DEF OrderInv, Stamps
<1>5. /\ \A x \in Range(file), y \in Range(all) : <<x, y>> \in Apart
      /\ \A x \in Range(file) \cup Range(all), y \in w : <<x, y>> \in Apart
      /\ \A x, y \in w : x # y => <<x, y>> \in Apart
      /\ Range(file) \cup Range(all) \cup w \subseteq Range(file) \cup Range(backlog) \cup pending
  BY <1>1, <1>2 DEF OrderInv, Stamps
<1>6. Stamps(file, all, w, seq)
  BY <1>4, <1>5 DEF OrderInv, Stamps
<1>7. Stamps(file, backlog, w, seq)
  BY <1>1 DEF OrderInv, Stamps
<1> QED
  BY <1>1, <1>2, <1>6, <1>7

\* Whichever way a write ends, no id is there twice.
LEMMA WriteOrdered ==
  ASSUME TypeInv, OrderInv, NEW r, Write(r)
  PROVE  OrderInv'
<1>1. r \in pending /\ pending' = pending \ {r} /\ UNCHANGED <<process, used, seq, check>>
  BY DEF Write
<1>2. PICK all, f, b, w : all = Append(backlog, r) /\ f = file' /\ b = backlog' /\ w = pending \ {r}
  OBVIOUS
<1>3. all \in Seq(Line) /\ Stamps(file, all, w, seq) /\ Stamps(file, backlog, w, seq)
  BY <1>1, <1>2, Written
<1>4. file \in Seq(Line) /\ Len(all) \in Nat
  BY <1>3, LenProperties DEF TypeInv
<1>5. ASSUME NEW n \in 0..Len(all), Flush(all, n) PROVE Stamps(f, b, w, seq)
  <2>1. f = file \o Legible(SubSeq(all, 1, n)) /\ b = SubSeq(all, n + 1, Len(all))
    BY <1>2, <1>5 DEF Flush, Opened
  <2> QED
    BY <1>3, <1>4, <2>1, FlushMoves
<1>6. Stamps(f, b, w, seq)
  <2>1. CASE UNCHANGED <<disk, backlog>>
    BY <1>2, <1>3, <2>1 DEF disk
  <2>2. Len(all) \in 0..Len(all)
    BY <1>4
  <2>3. (\E n \in 0..Len(all) : Flush(all, n)) \/ UNCHANGED <<disk, backlog>>
    BY <1>2, <2>2 DEF Write
  <2> QED
    BY <1>5, <2>1, <2>3
<1> QED
  BY <1>1, <1>2, <1>6 DEF OrderInv, Stamps

\* An empty file has no ids.
LEMMA InitOrdered == Init => OrderInv
<1>1. Range(<<>>) = {} /\ Ordered(<<>>, Apart)
  BY DEF Range, Ordered
<1> QED
  BY <1>1 DEF Init, OrderInv, Stamps

\* Each action keeps ids apart: a new process has a fresh prefix, its buffer dies with it.
LEMMA OrderStep == ReportsInv /\ OrderInv /\ [Next]_vars => OrderInv'
<1> SUFFICES ASSUME TypeInv, OrderInv, [Next]_vars PROVE OrderInv'
  BY DEF ReportsInv
<1>0. /\ file \in Seq(Line) /\ backlog \in Seq(Line) /\ seq \in Nat
      /\ used \subseteq Nat \ {0}
  BY ReportsAssumption DEF TypeInv
<1>1. Range(<<>>) = {} /\ Ordered(<<>>, Apart) /\ <<>> \in Seq(Line)
  BY EmptySeq DEF Range, Ordered
<1>2. ASSUME NEW e \in Entry[focus], Record(e) PROVE OrderInv'
  <2>1. e \in Entries
    BY <1>2 DEF Entries, TypeInv
  <2> QED
    BY <1>2, <2>1, StampOrdered DEF Record
<1>3. ASSUME NEW down \in BOOLEAN, StartupCheck(down), Successes # {} PROVE OrderInv'
  <2>1. Summary \in Entries
    BY Zenon DEF Entries
  <2>2. Stamp(Summary) /\ process # 0
    BY <1>3 DEF StartupCheck, Summary, OrderInv
  <2> QED
    BY <2>1, <2>2, StampOrdered
<1>4. ASSUME NEW p \in Process, Start(p) PROVE OrderInv'
  <2>1. /\ process' = p /\ used' = used \cup {p} /\ p \notin used /\ p # 0
        /\ UNCHANGED <<file, backlog, pending>>
    BY <1>4, ReportsAssumption DEF Start, disk
  <2> QED
    BY <2>1 DEF OrderInv, Stamps
<1>5. ASSUME UNCHANGED <<file, backlog, pending, process, used, seq>>, check' = "due" => check = "due"
      PROVE  OrderInv'
  BY <1>5 DEF OrderInv, Stamps
<1>6. CASE TimePasses
  BY <1>5, <1>6 DEF TimePasses, disk
<1>7. ASSUME NEW down \in BOOLEAN, StartupCheck(down), Successes = {} PROVE OrderInv'
  BY <1>5, <1>7 DEF StartupCheck, disk
<1>8. ASSUME NEW event, FirstPage(event) PROVE OrderInv'
  BY <1>5, <1>8 DEF FirstPage, disk
<1>9. ASSUME NEW raises, NextPage(raises) PROVE OrderInv'
  BY <1>5, <1>9 DEF NextPage, disk
<1>10. CASE UNCHANGED vars
  BY <1>5, <1>10 DEF vars, disk
<1>11. CASE Die
  <2>1. /\ file' = file /\ backlog' = <<>> /\ pending' = {} /\ process' = 0 /\ check' = "none"
        /\ UNCHANGED <<used, seq>>
    BY <1>11 DEF Die, Lost
  <2>2. \A x \in Range(file) : x.id[1] \in used /\ x.id[1] # 0
    BY <1>0 DEF OrderInv, Stamps
  <2>3. Ordered(file, Apart)
    BY DEF OrderInv, Stamps
  <2> QED
    BY <1>1, <2>1, <2>2, <2>3 DEF OrderInv, Stamps
<1>12. CASE Close
  <2>1. check' = "closed" /\ UNCHANGED <<process, used, seq, pending>>
    BY <1>12 DEF Close
  <2>2. CASE UNCHANGED <<disk, backlog>>
    BY <1>5, <2>1, <2>2 DEF disk
  <2>3. ASSUME NEW n \in 0..Len(backlog), file' = file \o Legible(SubSeq(backlog, 1, n)),
               backlog' = <<>>
        PROVE  OrderInv'
    <3>1. PICK a, f : a = SubSeq(backlog, 1, n) /\ f = file'
      OBVIOUS
    <3>2. Stamps(file, backlog, pending, seq) /\ Ordered(backlog, Apart)
      BY DEF OrderInv, Stamps
    <3>3. a \in Seq(Line) /\ Ordered(a, Apart) /\ Range(a) \subseteq Range(backlog)
      BY <1>0, <3>1, <3>2, PartsOrdered
    <3>4. Stamps(f, <<>>, pending, seq)
      <4>1. f = file \o Legible(a)
        BY <2>3, <3>1
      <4>2. Range(<<>>) \subseteq Range(backlog) /\ \A x \in Range(a), y \in Range(<<>>) : <<x, y>> \in Apart
        BY <1>1
      <4> QED
        BY <1>0, <1>1, <3>2, <3>3, <4>1, <4>2, Moved
    <3> QED
      BY <2>1, <2>3, <3>1, <3>4 DEF OrderInv, Stamps
  <2> QED
    BY <1>12, <2>2, <2>3 DEF Close, Lost
<1>13. ASSUME NEW r, Write(r) PROVE OrderInv'
  BY <1>13, WriteOrdered
<1> QED
  BY <1>2, <1>3, <1>4, <1>6, <1>7, <1>8, <1>9, <1>10, <1>11, <1>12, <1>13 DEF Next

\* Ids stay apart, at every moment.
LEMMA OrderAlways == Spec => []OrderInv
BY InitOrdered, OrderStep, ReportsAlways, PTL DEF Spec

----------------------------------------------------------------------------
(* Paging.                                                                 *)

\* The items of a list are finitely many, and as many as its length when no two are the same.
LEMMA ItemsCounted ==
  ASSUME NEW U, NEW s \in Seq(U)
  PROVE  /\ IsFiniteSet(Range(s))
         /\ \A R : Ordered(s, R) /\ (\A x \in U : <<x, x>> \notin R)
                     => Cardinality(Range(s)) = Len(s)
<1>1. PICK n \in Nat : n = Len(s) /\ DOMAIN s = 1..n /\ \A i \in 1..n : s[i] \in U
  BY LenProperties, ElementOfSeq
<1>2. IsFiniteSet(1..n) /\ Cardinality(1..n) = n
  BY FS_Interval
<1>3. PICK f : f = [i \in 1..n |-> s[i]]
  OBVIOUS
<1>4. Range(s) = {s[i] : i \in 1..n}
  BY <1>1 DEF Range
<1>5. f \in Surjection(1..n, Range(s))
  BY <1>3, <1>4 DEF Surjection
<1>6. /\ IsFiniteSet(Range(s))
      /\ Cardinality(Range(s)) = Cardinality(1..n) <=> f \in Injection(1..n, Range(s))
  BY <1>2, <1>5, FS_Surjection
<1>7. ASSUME NEW R, Ordered(s, R), \A x \in U : <<x, x>> \notin R
      PROVE  Cardinality(Range(s)) = Len(s)
  <2>1. ASSUME NEW i \in 1..n, NEW j \in 1..n, s[i] = s[j] PROVE i = j
    <3>1. ~ (i < j)
      BY <1>1, <1>7, <2>1 DEF Ordered
    <3>2. ~ (j < i)
      BY <1>1, <1>7, <2>1 DEF Ordered
    <3> QED
      BY <3>1, <3>2
  <2>2. f \in Injection(1..n, Range(s))
    BY <1>3, <1>4, <2>1 DEF Injection, IsInjective
  <2> QED
    BY <1>1, <1>2, <1>6, <2>2
<1> QED
  BY <1>6, <1>7

\* The head of a list stands before its rest, and is all of it when it is short.
LEMMA TakeIs ==
  ASSUME NEW U, NEW s \in Seq(U), NEW R, Ordered(s, R), NEW n \in Nat
  PROVE  /\ Take(s, n) \in Seq(U)
         /\ Ordered(Take(s, n), R)
         /\ Range(Take(s, n)) \subseteq Range(s)
         /\ Len(Take(s, n)) < n => Range(Take(s, n)) = Range(s)
         /\ \A x \in Range(Take(s, n)), y \in Range(s) \ Range(Take(s, n)) : <<x, y>> \in R
<1>1. PICK m \in Nat : m = Len(s)
  BY LenProperties
<1>2. PICK k \in 0..m : k = IF Len(s) < n THEN Len(s) ELSE n
  BY <1>1
<1>3. PICK a, b : a = SubSeq(s, 1, k) /\ b = SubSeq(s, k + 1, Len(s))
  OBVIOUS
<1>4. Take(s, n) = a
  BY <1>2, <1>3 DEF Take
<1>5. /\ a \in Seq(U) /\ Len(a) = k /\ Ordered(a, R)
      /\ Range(s) = Range(a) \cup Range(b)
      /\ \A x \in Range(a), y \in Range(b) : <<x, y>> \in R
  BY <1>1, <1>2, <1>3, PartsOrdered
<1>6. ASSUME Len(a) < n PROVE Range(a) = Range(s)
  <2>1. k = m
    BY <1>1, <1>2, <1>5, <1>6
  <2>2. b = <<>>
    <3>1. Len(b) = 0 /\ b \in Seq(U)
      <4>1. Len(s) - (k + 1) + 1 = 0
        BY <1>1, <2>1
      <4>2. \A i \in (k + 1)..Len(s) : s[i] \in U
        BY ElementOfSeq
      <4> QED
        BY <1>1, <1>2, <1>3, <2>1, <4>2, SubSeqProperties
    <3> QED
      BY <3>1, EmptySeq
  <2>3. Range(b) = {}
    BY <2>2 DEF Range
  <2> QED
    BY <1>5, <2>3
<1> QED
  BY <1>4, <1>5, <1>6

\* Ids fall.
Falling == {p \in Line \X Line : IdBelow(p[2].id, p[1].id)}

\* What a page may show.
Reach(event, cursor) ==
  {r \in Range(file) : Matches(r, event) /\ (cursor = <<>> \/ IdBelow(r.id, cursor))}

\* A page is the head of a list of all that it may show, in which ids fall.
LEMMA PageIs ==
  ASSUME TypeInv, OrderInv, NEW event, NEW cursor
  PROVE  \E s \in Seq(Line) : /\ Range(s) = Reach(event, cursor) /\ Ordered(s, Falling)
                              /\ Page(event, cursor) = Take(s, Limit)
<1>1. file \in Seq(Line) /\ Ordered(file, Apart)
  BY DEF TypeInv, OrderInv, Stamps
<1>2. PICK m, sel : m = Matching(event) /\ sel = {r \in Range(file) : event = "" \/ r.entry.event = event}
  OBVIOUS
<1>3. m \in Seq(Line) /\ Range(m) = Range(file) \cap sel /\ Ordered(m, Apart)
  BY <1>1, <1>2, WhereIs DEF Matching
<1>4. PICK R, w : /\ R = {p \in Range(m) \X Range(m) : ~ IdBelow(p[1].id, p[2].id)}
                  /\ w = Sorted(m, R)
  OBVIOUS
<1>5. Newest(m) = w
  BY <1>4 DEF Newest
<1>6. Range(m) \subseteq Line
  BY <1>3, RangeOfSeq
<1>7. \A x \in Range(m) : x.id \in Id
  BY <1>6 DEF Line
<1>8. Orders(R, Range(m))
  <2>1. ASSUME NEW x \in Range(m), NEW y \in Range(m)
        PROVE  <<x, y>> \in R <=> ~ IdBelow(x.id, y.id)
    BY <1>4
  <2>2. ASSUME NEW x \in Range(m), NEW y \in Range(m) PROVE <<x, y>> \in R \/ <<y, x>> \in R
    <3>1. ~ (IdBelow(x.id, y.id) /\ IdBelow(y.id, x.id))
      BY <1>7, IdsOrdered
    <3> QED
      BY <2>1, <3>1
  <2>3. ASSUME NEW x \in Range(m), NEW y \in Range(m), NEW z \in Range(m),
               <<x, y>> \in R, <<y, z>> \in R
        PROVE  <<x, z>> \in R
    <3>1. ~ IdBelow(x.id, y.id) /\ ~ IdBelow(y.id, z.id) /\ x.id \in Id /\ y.id \in Id /\ z.id \in Id
      BY <1>7, <2>1, <2>3
    <3>2. x.id = y.id \/ IdBelow(y.id, x.id)
      BY <3>1, IdsOrdered
    <3>3. IdBelow(x.id, z.id) /\ IdBelow(y.id, x.id) => IdBelow(y.id, z.id)
      BY <3>1, IdsOrdered
    <3>4. ~ IdBelow(x.id, z.id)
      BY <3>1, <3>2, <3>3
    <3> QED
      BY <2>1, <3>4
  <2> QED
    BY <2>2, <2>3 DEF Orders
<1>9. PICK D : D = Apart
  OBVIOUS
<1>10. Symmetric(D, Range(m))
  BY <1>9 DEF Symmetric, Apart
<1>11. Ordered(m, D)
  BY <1>3, <1>9
<1>12. w \in Seq(Line) /\ Range(w) = Range(m) /\ Ordered(w, R) /\ Ordered(w, D)
  <2>1. m \in Seq(Line) /\ w = Sorted(m, R)
    BY <1>3, <1>4
  <2>2. /\ w \in Seq(Line) /\ Range(w) = Range(m) /\ Ordered(w, R)
        /\ \A E : Symmetric(E, Range(m)) /\ Ordered(m, E) => Ordered(w, E)
    BY <1>8, <2>1, SortedIs
  <2> QED
    BY <1>10, <1>11, <2>2
<1>13. Ordered(w, Falling)
  <2> SUFFICES ASSUME NEW i \in DOMAIN w, NEW j \in DOMAIN w, i < j
               PROVE  <<w[i], w[j]>> \in Falling
    BY DEF Ordered
  <2>1. PICK x, y : x = w[i] /\ y = w[j]
    OBVIOUS
  <2>2. <<x, y>> \in R /\ <<x, y>> \in D
    BY <1>12, <2>1 DEF Ordered
  <2>3. ~ IdBelow(x.id, y.id) /\ x.id # y.id /\ x \in Line /\ y \in Line
    BY <1>4, <1>9, <2>2 DEF Apart
  <2>4. x.id \in Id /\ y.id \in Id
    BY <2>3 DEF Line
  <2>5. IdBelow(y.id, x.id)
    BY <2>3, <2>4, IdsOrdered
  <2> QED
    BY <2>1, <2>3, <2>5 DEF Falling
<1>14. PICK below, s : /\ below = {r \in Range(w) : cursor = <<>> \/ IdBelow(r.id, cursor)}
                       /\ s = Where(w, below)
  OBVIOUS
<1>15. s \in Seq(Line) /\ Range(s) = Range(w) \cap below /\ Ordered(s, Falling)
  BY <1>12, <1>13, <1>14, WhereIs
<1>16. Page(event, cursor) = Take(s, Limit)
  BY <1>2, <1>5, <1>14 DEF Page, Before
<1>17. Range(s) = Reach(event, cursor)
  BY <1>2, <1>3, <1>12, <1>14, <1>15 DEF Reach, Matches
<1> QED
  BY <1>15, <1>16, <1>17

\* No step takes a line out of the file.
LEMMA LinesStay ==
  ASSUME ReportsInv, [Next]_vars
  PROVE  Range(file) \subseteq Range(file')
<1>1. CASE file' = file
  BY <1>1
<1>2. CASE Close
  BY <1>2, CloseStep
<1>3. ASSUME NEW r, Write(r) PROVE Range(file) \subseteq Range(file')
  BY <1>3, WriteStep
<1>4. ASSUME NEW e, Record(e) PROVE file' = file
  BY <1>4 DEF Record, Stamp, disk
<1>5. ASSUME NEW p \in Process, Start(p) PROVE file' = file
  BY <1>5 DEF Start, disk
<1>6. Die \/ TimePasses \/ (UNCHANGED vars) => file' = file
  BY DEF Die, TimePasses, vars, disk
<1>7. ASSUME NEW event, FirstPage(event) PROVE file' = file
  BY <1>7 DEF FirstPage, disk
<1>8. ASSUME NEW raises, NextPage(raises) PROVE file' = file
  BY <1>8 DEF NextPage, disk
<1>9. ASSUME NEW down \in BOOLEAN, StartupCheck(down) PROVE file' = file
  <2>1. CASE Successes = {}
    BY <1>9, <2>1 DEF StartupCheck, disk
  <2>2. CASE Successes # {}
    BY <1>9, <2>2 DEF StartupCheck, Stamp, disk
  <2> QED
    BY <2>1, <2>2
<1> QED
  BY <1>1, <1>2, <1>3, <1>4, <1>5, <1>6, <1>7, <1>8, <1>9 DEF Next

\* Only a client's own requests move it on.
LEMMA PageStays ==
  ASSUME PageInv, page' = page, Range(file) \subseteq Range(file')
  PROVE  PageInv'
BY DEF PageInv

\* No client has begun.
LEMMA InitPage == Init => PageInv
<1> SUFFICES ASSUME Init PROVE PageInv
  OBVIOUS
<1>1. Cardinality({}) = 0
  BY FS_EmptySet
<1>2. page = [event |-> "", cursor |-> <<>>, start |-> {}, seen |-> {}, count |-> 0, done |-> TRUE,
              failed |-> FALSE]
  BY DEF Init, NoPage
<1>3. page.start = {} /\ page.seen = {} /\ page.count = 0 /\ page.cursor = <<>>
  BY <1>2
<1>4. page.count = Cardinality(page.seen)
  BY <1>1, <1>3, Zenon
<1> QED
  BY <1>2, <1>3, <1>4 DEF PageInv

\* At the beginning all is still to be given.
LEMMA FirstPageStep ==
  ASSUME TypeInv, NEW event, FirstPage(event)
  PROVE  PageInv'
<1>1. /\ file' = file
      /\ page' = [event |-> event, cursor |-> <<>>, start |-> Range(Matching(event)),
                  seen |-> {}, count |-> 0, done |-> FALSE, failed |-> FALSE]
  BY DEF FirstPage, disk
<1>2. Range(Matching(event)) = {r \in Range(file) : Matches(r, event)}
  <2>1. PICK sel : sel = {r \in Range(file) : event = "" \/ r.entry.event = event}
    OBVIOUS
  <2>2. Range(Matching(event)) = Range(file) \cap sel
    BY <2>1, WhereIs DEF Matching, TypeInv
  <2> QED
    BY <2>1, <2>2 DEF Matches
<1>3. PICK start : start = Range(Matching(event))
  OBVIOUS
<1>4. Cardinality({}) = 0
  BY FS_EmptySet
<1> QED
  BY <1>1, <1>2, <1>3, <1>4 DEF PageInv

\* A page goes on where the last one ended.
LEMMA NextPageStep ==
  ASSUME TypeInv, OrderInv, PageInv, NEW raises, NextPage(raises), ~ (raises \/ ~ Decodes)
  PROVE  PageInv'
<1>1. PICK ev, cur, st, sn, ct, dn, fl :
        page = [event |-> ev, cursor |-> cur, start |-> st, seen |-> sn, count |-> ct, done |-> dn,
                failed |-> fl]
  BY DEF PageInv
<1>2. /\ sn \subseteq Range(file)
      /\ st \subseteq {r \in Range(file) : Matches(r, ev)}
      /\ ct = Cardinality(sn)
      /\ cur = <<>> => sn = {}
      /\ cur # <<>> => cur \in Id /\ \A r \in sn : ~ IdBelow(r.id, cur)
      /\ \A r \in st \ sn : cur = <<>> \/ IdBelow(r.id, cur)
  BY <1>1 DEF PageInv
<1>3. PICK records : records = Page(ev, cur)
  OBVIOUS
<1>4. PICK cur2, sn2, ct2, dn2 :
        /\ page' = [event |-> ev, cursor |-> cur2, start |-> st, seen |-> sn2, count |-> ct2, done |-> dn2,
                    failed |-> fl]
        /\ cur2 = IF records = <<>> THEN cur ELSE Last(records).id
        /\ sn2 = sn \cup Range(records) /\ ct2 = ct + Len(records) /\ dn2 = (Len(records) < Limit)
  BY <1>1, <1>3 DEF NextPage
<1>5. file' = file
  BY DEF NextPage, disk
<1>6. PICK s \in Seq(Line) : /\ Range(s) = Reach(ev, cur) /\ Ordered(s, Falling)
                             /\ records = Take(s, Limit)
  BY <1>3, PageIs
<1>7. /\ records \in Seq(Line) /\ Ordered(records, Falling)
      /\ Range(records) \subseteq Reach(ev, cur)
      /\ Len(records) < Limit => Range(records) = Reach(ev, cur)
      /\ \A x \in Range(records), y \in Reach(ev, cur) \ Range(records) : <<x, y>> \in Falling
  <2>1. Limit \in Nat
    BY ReportsAssumption
  <2> QED
    BY <1>6, <2>1, TakeIs
<1>8. Len(records) \in Nat /\ DOMAIN records = 1..Len(records) /\ Range(records) \subseteq Line
  BY <1>7, LenProperties, RangeOfSeq
<1>9. \A x \in Line : x.id \in Id /\ <<x, x>> \notin Falling
  <2>1. \A x \in Line : x.id \in Id
    BY DEF Line
  <2>2. \A x \in Line : ~ IdBelow(x.id, x.id)
    BY <2>1, IdsOrdered
  <2> QED
    BY <2>1, <2>2 DEF Falling
<1>10. sn2 \subseteq Range(file)
  BY <1>2, <1>4, <1>7 DEF Reach
<1>11. ct2 = Cardinality(sn2)
  <2>1. IsFiniteSet(Range(records)) /\ Cardinality(Range(records)) = Len(records)
    BY <1>7, <1>9, ItemsCounted
  <2>2. IsFiniteSet(sn)
    <3>1. IsFiniteSet(Range(file))
      BY ItemsCounted DEF TypeInv
    <3> QED
      BY <1>2, <3>1, FS_Subset
  <2>3. sn \cap Range(records) = {}
    BY <1>2, <1>7 DEF Reach
  <2>4. Cardinality(sn \cap Range(records)) = 0
    BY <2>3, FS_EmptySet, Zenon
  <2>5. Cardinality(sn \cup Range(records))
          = Cardinality(sn) + Cardinality(Range(records)) - Cardinality(sn \cap Range(records))
    BY <2>1, <2>2, FS_Union
  <2>6. Cardinality(sn) \in Nat
    BY <2>2, FS_CardinalityType
  <2> QED
    BY <1>2, <1>4, <1>8, <2>1, <2>4, <2>5, <2>6
<1>12. CASE records = <<>>
  <2>1. Range(records) = {} /\ Len(records) < Limit
    BY <1>12, ReportsAssumption DEF Range
  <2>2. sn2 = sn /\ cur2 = cur
    BY <1>4, <1>12, <2>1
  <2>3. st \subseteq sn
    BY <1>2, <1>7, <2>1 DEF Reach
  <2> QED
    BY <1>2, <1>4, <1>5, <1>10, <1>11, <2>2, <2>3 DEF PageInv
<1>13. CASE records # <<>>
  <2>1. PICK l \in Range(records) : l = Last(records)
    <3>1. Len(records) # 0
      BY <1>7, <1>13, EmptySeq
    <3>2. Len(records) \in DOMAIN records
      BY <1>8, <3>1
    <3> QED
      BY <3>2 DEF Last, Range
  <2>2. cur2 = l.id /\ l \in Line /\ l.id \in Id /\ l \in Reach(ev, cur)
    BY <1>4, <1>7, <1>8, <1>9, <1>13, <2>1
  <2>3. cur2 # <<>>
    <3>1. PICK a \in Nat, n \in Nat : l.id = <<a, n>>
      BY <2>2 DEF Id
    <3>2. Len(<<a, n>>) = 2 /\ Len(<<>>) = 0
      OBVIOUS
    <3> QED
      BY <2>2, <3>1, <3>2
  <2>4. ASSUME NEW r \in Range(records) PROVE ~ IdBelow(r.id, l.id)
    <3>1. r \in Line /\ r.id \in Id
      BY <1>8, <1>9
    <3>2. PICK i \in DOMAIN records : r = records[i]
      BY DEF Range
    <3>3. CASE i = Len(records)
      BY <2>1, <2>2, <3>2, <3>3, IdsOrdered DEF Last
    <3>4. CASE i # Len(records)
      <4>1. i < Len(records) /\ Len(records) \in DOMAIN records
        BY <1>8, <3>4
      <4>2. <<r, l>> \in Falling
        BY <1>7, <2>1, <3>2, <4>1 DEF Ordered, Last
      <4>3. IdBelow(l.id, r.id)
        BY <4>2 DEF Falling
      <4>4. ~ IdBelow(l.id, l.id)
        BY <2>2, IdsOrdered
      <4>5. IdBelow(l.id, r.id) /\ IdBelow(r.id, l.id) => IdBelow(l.id, l.id)
        BY <2>2, <3>1, IdsOrdered
      <4> QED
        BY <4>3, <4>4, <4>5
    <3> QED
      BY <3>3, <3>4
  <2>5. ASSUME NEW r \in sn PROVE ~ IdBelow(r.id, l.id)
    <3>1. cur \in Id /\ ~ IdBelow(r.id, cur)
      BY <1>2
    <3>2. IdBelow(l.id, cur)
      BY <1>2, <2>2 DEF Reach
    <3>3. r.id \in Id
      <4>1. r \in Line
        BY <1>2, RangeOfSeq DEF TypeInv
      <4> QED
        BY <1>9, <4>1
    <3> QED
      BY <2>2, <3>1, <3>2, <3>3, IdsOrdered
  <2>6. \A r \in sn2 : ~ IdBelow(r.id, cur2)
    BY <1>4, <2>2, <2>4, <2>5
  <2>7. ASSUME NEW r \in st \ sn2 PROVE ~ dn2 /\ IdBelow(r.id, cur2)
    <3>1. r \in Reach(ev, cur) \ Range(records)
      BY <1>2, <1>4 DEF Reach
    <3>2. ~ dn2
      BY <1>4, <1>7, <3>1
    <3>3. <<l, r>> \in Falling
      BY <1>7, <3>1
    <3> QED
      BY <2>2, <3>2, <3>3 DEF Falling
  <2> QED
    BY <1>2, <1>4, <1>5, <1>10, <1>11, <2>2, <2>3, <2>6, <2>7 DEF PageInv
<1> QED
  BY <1>12, <1>13

\* A client that gets an error gives up.
LEMMA PageFails ==
  ASSUME PageInv, NEW raises, NextPage(raises), raises \/ ~ Decodes
  PROVE  PageInv'
<1>1. PICK ev, cur, st, sn, ct, dn, fl :
        page = [event |-> ev, cursor |-> cur, start |-> st, seen |-> sn, count |-> ct, done |-> dn,
                failed |-> fl]
  BY DEF PageInv
<1>2. page' = [event |-> ev, cursor |-> cur, start |-> st, seen |-> sn, count |-> ct, done |-> TRUE,
               failed |-> TRUE]
  BY <1>1 DEF NextPage
<1>3. file' = file
  BY DEF NextPage, disk
<1> QED
  BY <1>1, <1>2, <1>3 DEF PageInv

\* Each action keeps the invariant of the client.
LEMMA PageStep == ReportsInv /\ OrderInv /\ PageInv /\ [Next]_vars => PageInv'
<1> SUFFICES ASSUME ReportsInv, OrderInv, PageInv, [Next]_vars PROVE PageInv'
  OBVIOUS
<1>1. Range(file) \subseteq Range(file') /\ TypeInv
  BY LinesStay DEF ReportsInv
<1>2. CASE page' = page
  BY <1>1, <1>2, PageStays
<1>3. ASSUME NEW event, FirstPage(event) PROVE PageInv'
  BY <1>1, <1>3, FirstPageStep
<1>4. ASSUME NEW raises, NextPage(raises) PROVE PageInv'
  <2>1. CASE raises \/ ~ Decodes
    BY <1>4, <2>1, PageFails
  <2>2. CASE ~ (raises \/ ~ Decodes)
    BY <1>1, <1>4, <2>2, NextPageStep
  <2> QED
    BY <2>1, <2>2
<1>5. ASSUME NEW e, Record(e) PROVE page' = page
  BY <1>5 DEF Record, Stamp
<1>6. ASSUME NEW down \in BOOLEAN, StartupCheck(down) PROVE page' = page
  BY <1>6 DEF StartupCheck, Stamp
<1>7. ASSUME NEW p \in Process, Start(p) PROVE page' = page
  BY <1>7 DEF Start
<1>8. ASSUME NEW r, Write(r) PROVE page' = page
  BY <1>8 DEF Write
<1>9. Die \/ Close \/ TimePasses \/ (UNCHANGED vars) => page' = page
  BY DEF Die, Close, TimePasses, vars
<1> QED
  BY <1>2, <1>3, <1>4, <1>5, <1>6, <1>7, <1>8, <1>9 DEF Next

\* The invariant of the client, at every moment.
LEMMA PageAlways == Spec => []PageInv
BY InitPage, PageStep, ReportsAlways, OrderAlways, PTL DEF Spec

----------------------------------------------------------------------------
(* The start-up check and `audit --today'.                                 *)

\* The first moment of a day, and what comes after it.
LEMMA DayBegins ==
  ASSUME NEW a \in Nat, NEW b \in Nat, NEW d \in Nat \ {0}
  PROVE  (b \div d) * d <= a <=> b \div d <= a \div d
<1>1. PICK p \in Nat, q \in Nat : p = a \div d /\ q = b \div d
  OBVIOUS
<1>2. p * d <= a /\ a < (p + 1) * d
  BY <1>1
<1>3. ASSUME q <= p PROVE q * d <= a
  <2>1. q * d <= p * d
    BY <1>3
  <2>2. p * d \in Nat /\ q * d \in Nat
    OBVIOUS
  <2> QED
    BY <1>2, <2>1, <2>2
<1>4. ASSUME ~ (q <= p) PROVE ~ (q * d <= a)
  <2>1. (p + 1) * d <= q * d
    <3>1. p + 1 <= q
      BY <1>4
    <3> QED
      BY <3>1
  <2>2. (p + 1) * d \in Nat /\ q * d \in Nat
    OBVIOUS
  <2> QED
    BY <1>2, <2>1, <2>2
<1> QED
  BY <1>1, <1>3, <1>4

\* The window begins with the MSK day.
LEMMA InWindow ==
  ASSUME TypeInv, NEW t \in Nat
  PROVE  t >= WindowStart <=> MskDay(t) >= MskDay(clock)
<1>1. Msk \in Nat /\ DayLen \in Nat \ {0} /\ clock \in Nat
  BY ReportsAssumption DEF TypeInv
<1>2. PICK a \in Nat, b \in Nat : a = t + Msk /\ b = clock + Msk
  BY <1>1
<1>3. PICK p \in Nat, q \in Nat : p = a \div DayLen /\ q = b \div DayLen
  BY <1>1
<1>4. MskDay(t) = p /\ MskDay(clock) = q
  BY <1>2, <1>3 DEF MskDay
<1>5. PICK m \in Nat : m = q * DayLen
  BY <1>1
<1>6. WindowStart = m - Msk
  BY <1>4, <1>5 DEF WindowStart
<1>7. m <= a <=> q <= p
  BY <1>1, <1>3, <1>5, DayBegins
<1> QED
  BY <1>1, <1>2, <1>4, <1>6, <1>7

\* The payouts of the window.
Payouts == {r \in Range(file) : r.entry.event = "SEND_SUCCESS" /\ r.ts >= WindowStart}

\* They are what the lines of the day hold.
LEMMA WindowIsToday ==
  ASSUME TypeInv
  PROVE  Payouts = {file[i] : i \in Today}
<1>1. \A i \in DOMAIN file : file[i].ts \in Nat
  <2>1. \A i \in DOMAIN file : file[i] \in Line
    BY LenProperties, ElementOfSeq DEF TypeInv
  <2> QED
    BY <2>1 DEF Line
<1>2. \A i \in DOMAIN file : file[i].ts >= WindowStart <=> MskDay(file[i].ts) >= MskDay(clock)
  BY <1>1, InWindow
<1>3. Range(file) = {file[i] : i \in DOMAIN file}
  BY DEF Range
<1> QED
  BY <1>2, <1>3 DEF Payouts, Today

\* No recipient twice.
LEMMA NoDuplicates ==
  ASSUME TypeInv, Duplicates = {}, NEW r \in Successes, NEW s \in Successes,
         r.entry.to = s.entry.to
  PROVE  r = s
<1> DEFINE same == {x \in Successes : x.entry.to = r.entry.to}
<1>1. IsFiniteSet(same)
  <2>1. IsFiniteSet(Range(file))
    BY ItemsCounted DEF TypeInv
  <2>2. same \subseteq Range(file)
    BY DEF Successes
  <2> QED
    BY <2>1, <2>2, FS_Subset
<1>2. ~ (Cardinality(same) > 1)
  BY DEF Duplicates
<1>3. ASSUME r # s PROVE FALSE
  <2>1. {r, s} \subseteq same
    OBVIOUS
  <2>2. Cardinality({r}) = 1 /\ IsFiniteSet({r})
    BY FS_Singleton
  <2>3. {r} \cup {s} = {r, s} /\ s \notin {r}
    BY <1>3
  <2>4. Cardinality({r} \cup {s}) = Cardinality({r}) + 1
    BY <2>2, <2>3, FS_AddElement
  <2>5. Cardinality({r, s}) = 2
    BY <2>2, <2>3, <2>4
  <2> HIDE DEF same
  <2>6. Cardinality({r, s}) <= Cardinality(same) /\ Cardinality(same) \in Nat
    BY <1>1, <2>1, FS_Subset, FS_CardinalityType
  <2> QED
    BY <1>2, <2>5, <2>6
<1> QED
  BY <1>3

\* Read from its end, a list has its items in the opposite order.
LEMMA ReverseIs ==
  ASSUME NEW U, NEW s \in Seq(U), NEW R, Ordered(s, R), NEW B,
         \A x, y \in U : <<x, y>> \in R => <<y, x>> \in B
  PROVE  Reverse(s) \in Seq(U) /\ Range(Reverse(s)) = Range(s) /\ Ordered(Reverse(s), B)
<1>1. PICK n \in Nat : n = Len(s) /\ DOMAIN s = 1..n /\ \A i \in 1..n : s[i] \in U
  BY LenProperties, ElementOfSeq
<1>2. PICK t : t = [i \in 1..n |-> s[(n - i) + 1]]
  OBVIOUS
<1>3. Reverse(s) = t
  BY <1>1, <1>2 DEF Reverse
<1>4. \A i \in 1..n : (n - i) + 1 \in 1..n
  OBVIOUS
<1>5. DOMAIN t = 1..n /\ \A i \in 1..n : t[i] = s[(n - i) + 1] /\ t[i] \in U
  BY <1>1, <1>2, <1>4
<1>6. t \in Seq(U)
  <2>1. t \in [1..n -> U]
    BY <1>1, <1>2, <1>4
  <2> QED
    BY <2>1, IsASeq
<1>7. Range(t) \subseteq Range(s)
  BY <1>1, <1>4, <1>5 DEF Range
<1>8. Range(s) \subseteq Range(t)
  <2> SUFFICES ASSUME NEW j \in 1..n PROVE s[j] \in Range(t)
    BY <1>1 DEF Range
  <2>1. (n - j) + 1 \in 1..n /\ (n - ((n - j) + 1)) + 1 = j
    OBVIOUS
  <2> QED
    BY <1>5, <2>1 DEF Range
<1>9. Ordered(t, B)
  <2> SUFFICES ASSUME NEW i \in 1..n, NEW j \in 1..n, i < j PROVE <<t[i], t[j]>> \in B
    BY <1>5 DEF Ordered
  <2>1. (n - i) + 1 \in DOMAIN s /\ (n - j) + 1 \in DOMAIN s /\ (n - j) + 1 < (n - i) + 1
    BY <1>1
  <2>2. <<t[j], t[i]>> \in R
    BY <1>5, <2>1 DEF Ordered
  <2> QED
    BY <1>5, <2>2
<1> QED
  BY <1>3, <1>6, <1>7, <1>8, <1>9

\* A line of the file and one below it, and the other way round.
Above == {p \in Line \X Line : \E i, j \in DOMAIN file : i < j /\ p[1] = file[i] /\ p[2] = file[j]}
Below == {p \in Line \X Line : <<p[2], p[1]>> \in Above}

\* A record is one line.
LEMMA OneLine ==
  ASSUME TypeInv, OrderInv, NEW i \in DOMAIN file, NEW j \in DOMAIN file, file[i] = file[j]
  PROVE  i = j
<1>1. i \in Nat /\ j \in Nat
  BY LenProperties DEF TypeInv
<1>2. ~ (i < j) /\ ~ (j < i)
  BY DEF OrderInv, Stamps, Ordered, Apart
<1> QED
  BY <1>1, <1>2

\* `audit --today' shows the last of the day's payouts, from the last line back.
LEMMA ShownToday ==
  ASSUME TypeInv, OrderInv, NEW n \in Nat
  PROVE  ShowsLast(AuditToday("SEND_SUCCESS", n), n)
<1>1. file \in Seq(Line) /\ \A i \in DOMAIN file : file[i] \in Line /\ i \in Nat
  BY LenProperties, ElementOfSeq DEF TypeInv
<1>2. Ordered(file, Above)
  BY <1>1 DEF Ordered, Above
<1>3. PICK m, sel : /\ m = Matching("SEND_SUCCESS")
                    /\ sel = {r \in Range(file) : "SEND_SUCCESS" = "" \/ r.entry.event = "SEND_SUCCESS"}
  OBVIOUS
<1>4. m \in Seq(Line) /\ Range(m) = Range(file) \cap sel /\ Ordered(m, Above)
  BY <1>1, <1>2, <1>3, WhereIs DEF Matching
<1>5. PICK w, late : w = Where(m, late) /\ late = {r \in Range(file) : r.ts >= WindowStart}
  OBVIOUS
<1>6. w \in Seq(Line) /\ Range(w) = Range(m) \cap late /\ Ordered(w, Above)
  <2>1. w = Where(m, late)
    BY <1>5
  <2> QED
    BY <1>4, <2>1, WhereIs
<1>7. PICK day : day = {file[i] : i \in Today}
  OBVIOUS
<1>8. Range(w) = day
  <2>1. Range(w) = Payouts
    BY <1>3, <1>4, <1>5, <1>6 DEF Payouts
  <2> QED
    BY <1>7, <2>1, WindowIsToday
<1>9. \A x, y \in Line : <<x, y>> \in Above => <<y, x>> \in Below
  BY DEF Below
<1>10. PICK v : v = Reverse(w)
  OBVIOUS
<1>11. v \in Seq(Line) /\ Range(v) = day /\ Ordered(v, Below)
  BY <1>6, <1>8, <1>9, <1>10, ReverseIs
<1>12. PICK shown : shown = AuditToday("SEND_SUCCESS", n)
  OBVIOUS
<1>13. shown = Take(v, n)
  BY <1>3, <1>5, <1>10, <1>12 DEF AuditToday
<1>14. /\ shown \in Seq(Line) /\ Ordered(shown, Below)
       /\ Range(shown) \subseteq day /\ (Len(shown) < n => Range(shown) = day)
       /\ \A x \in Range(shown), y \in day \ Range(shown) : <<x, y>> \in Below
  BY <1>11, <1>13, TakeIs
<1>15. ASSUME NEW i \in Today, NEW j \in Today, NEW k \in DOMAIN shown, i < j, shown[k] = file[i]
       PROVE  \E l \in 1..(k - 1) : shown[l] = file[j]
  <2>1. i \in DOMAIN file /\ j \in DOMAIN file /\ i \in Nat /\ j \in Nat
    BY <1>1 DEF Today
  <2>2. <<file[i], file[j]>> \notin Below
    <3> SUFFICES ASSUME <<file[i], file[j]>> \in Below PROVE FALSE
      OBVIOUS
    <3>1. PICK a \in DOMAIN file, b \in DOMAIN file : a < b /\ file[j] = file[a] /\ file[i] = file[b]
      BY DEF Below, Above
    <3>2. j = a /\ i = b
      BY <2>1, <3>1, OneLine
    <3> QED
      BY <1>15, <2>1, <3>1, <3>2
  <2>3. file[j] \in Range(shown)
    <3>1. file[j] \in day /\ file[i] \in Range(shown)
      BY <1>7, <1>15 DEF Range
    <3> QED
      BY <1>14, <2>2, <3>1
  <2>4. PICK l \in DOMAIN shown : shown[l] = file[j]
    BY <2>3 DEF Range
  <2>5. l # k
    <3>1. file[i] # file[j]
      BY <1>15, <2>1, OneLine
    <3> QED
      BY <1>15, <2>4, <3>1
  <2>6. ~ (k < l)
    BY <1>14, <1>15, <2>2, <2>4 DEF Ordered
  <2>7. DOMAIN shown = 1..Len(shown) /\ Len(shown) \in Nat
    BY <1>14, LenProperties
  <2>8. l \in 1..(k - 1)
    BY <2>5, <2>6, <2>7
  <2> QED
    BY <2>4, <2>8
<1>16. ShowsLast(shown, n)
  BY <1>7, <1>14, <1>15 DEF ShowsLast
<1> QED
  BY <1>12, <1>16

----------------------------------------------------------------------------
(* Reports.                                                                *)

\* A sum after one of its terms has changed.
OneTermMoves(f, h, S, y, n) ==
  (\A x \in S : f[x] \in Int) /\ h[y] = f[y] + n /\ \A x \in S \ {y} : h[x] = f[x]
LEMMA SumPoint ==
  ASSUME NEW S, IsFiniteSet(S), NEW f, NEW h, NEW y \in S, NEW n \in Int,
         OneTermMoves(f, h, S, y, n)
  PROVE  SumFunctionOnSet(h, S) = SumFunctionOnSet(f, S) + n
<1> USE DEF OneTermMoves
<1>1. PICK T : T = S \ {y} /\ IsFiniteSet(T)
  BY FS_Subset
<1>2. \A x \in S : h[x] \in Int
  OBVIOUS
<1>3. SumFunctionOnSet(h, S) = h[y] + SumFunctionOnSet(h, T)
  BY <1>1, <1>2, SumRemove
<1>4. SumFunctionOnSet(f, S) = f[y] + SumFunctionOnSet(f, T)
  BY <1>1, SumRemove
<1>5. SumFunctionOnSet(f, T) = SumFunctionOnSet(h, T) /\ SumFunctionOnSet(f, T) \in Int
  <2>1. \A x \in T : f[x] \in Int /\ f[x] = h[x]
    BY <1>1
  <2> QED
    BY <1>1, <2>1, SumSame, SumRecurs
<1> QED
  BY <1>3, <1>4, <1>5

\* A sum of nothing but zeros.
LEMMA SumOfZeros ==
  ASSUME NEW S, IsFiniteSet(S), NEW f, \A x \in S : f[x] = 0
  PROVE  SumFunctionOnSet(f, S) = 0
<1> DEFINE Q == {n \in Nat : \A T \in SUBSET S : Cardinality(T) = n => SumFunctionOnSet(f, T) = 0}
<1>1. \A T \in SUBSET S : IsFiniteSet(T) /\ Cardinality(T) \in Nat
  BY FS_Subset, FS_CardinalityType
<1>2. 0 \in Q
  <2> SUFFICES ASSUME NEW T \in SUBSET S, Cardinality(T) = 0 PROVE SumFunctionOnSet(f, T) = 0
    OBVIOUS
  <2>1. T = {}
    BY <1>1, FS_EmptySet
  <2> QED
    BY <2>1, SumOfNothing, Zenon
<1>3. ASSUME NEW n \in Nat, n \in Q PROVE n + 1 \in Q
  <2> SUFFICES ASSUME NEW T \in SUBSET S, Cardinality(T) = n + 1 PROVE SumFunctionOnSet(f, T) = 0
    OBVIOUS
  <2>1. T # {}
    BY FS_EmptySet
  <2>2. PICK x \in T : TRUE
    BY <2>1
  <2>3. PICK V \in SUBSET S : V = T \ {x}
    OBVIOUS
  <2>4. Cardinality(V) = n
    BY <1>1, <2>2, <2>3, FS_RemoveElement
  <2>5. SumFunctionOnSet(f, V) = 0
    BY <1>3, <2>4
  <2>6. SumFunctionOnSet(f, T) = f[x] + SumFunctionOnSet(f, V)
    BY <1>1, <2>2, <2>3, SumRemove
  <2> QED
    BY <2>5, <2>6
<1>4. Nat \subseteq Q
  <2> HIDE DEF Q
  <2> QED
    BY <1>2, <1>3, Induction
<1>5. Cardinality(S) \in Q
  <2>1. Cardinality(S) \in Nat
    BY FS_CardinalityType
  <2> HIDE DEF Q
  <2> QED
    BY <1>4, <2>1
<1> QED
  BY <1>5

\* The rows of a report, and what the lines of its days come to.
RowSet == [count : [Column -> Nat], volume : Nat, recipients : SUBSET {e.to : e \in Entries}]
Counts(rows, c) == [d \in DOMAIN rows |-> rows[d].count[c]]
Volumes(rows) == [d \in DOMAIN rows |-> rows[d].volume]
Recipients(rows) == UNION {rows[d].recipients : d \in DOMAIN rows}
InColumn(W, c) == {r \in W : ColumnOf(r.entry) = c}
Paid(W) == {r \in W : r.entry.event = "SEND_SUCCESS"}
Amounts(P) == [r \in P |-> r.entry.amount]
PaidTo(W) == {r.entry.to : r \in Paid(W)}
CountsAddUp(rows, W) ==
  \A c \in Column : SumFunctionOnSet(Counts(rows, c), DOMAIN rows) = Cardinality(InColumn(W, c))
VolumesAddUp(rows, W) ==
  SumFunctionOnSet(Volumes(rows), DOMAIN rows) = SumFunctionOnSet(Amounts(Paid(W)), Paid(W))
AddsUp(rows, W) ==
  CountsAddUp(rows, W) /\ VolumesAddUp(rows, W) /\ Recipients(rows) = PaidTo(W)

\* The row of a day, one line later.
LEMMA CountedIs ==
  ASSUME NEW row \in RowSet, NEW x \in Line
  PROVE  /\ Counted(row, x.entry) \in RowSet
         /\ \A c \in Column : Counted(row, x.entry).count[c]
                                = row.count[c] + (IF ColumnOf(x.entry) = c THEN 1 ELSE 0)
         /\ Counted(row, x.entry).volume
              = row.volume + (IF x.entry.event = "SEND_SUCCESS" THEN x.entry.amount ELSE 0)
         /\ Counted(row, x.entry).recipients
              = row.recipients \cup (IF x.entry.event = "SEND_SUCCESS" THEN {x.entry.to} ELSE {})
         /\ x.entry.amount \in Nat
<1>1. PICK e \in Entries : e = x.entry
  BY DEF Line
<1>2. e.amount \in Nat
  <2>1. CASE e = Summary
    BY <2>1 DEF Summary
  <2>2. CASE e # Summary
    BY <2>2, ReportsAssumption DEF Entries
  <2> QED
    BY <2>1, <2>2
<1>3. PICK cnt \in [Column -> Nat], vol \in Nat, rec \in SUBSET {a.to : a \in Entries} :
        row = [count |-> cnt, volume |-> vol, recipients |-> rec]
  BY DEF RowSet
<1>4. CASE ColumnOf(e) \notin Column
  <2>1. Counted(row, e) = row
    BY <1>4 DEF Counted
  <2>2. e.event # "SEND_SUCCESS"
    BY <1>4 DEF ColumnOf, Column
  <2>3. \A c \in Column : ColumnOf(e) # c
    BY <1>4
  <2> QED
    BY <1>1, <1>2, <1>3, <2>1, <2>2, <2>3
<1>5. CASE ColumnOf(e) \in Column
  <2>1. PICK col \in Column : col = ColumnOf(e)
    BY <1>5
  <2>2. PICK amount \in Nat, tos \in SUBSET {a.to : a \in Entries} :
          /\ amount = IF e.event = "SEND_SUCCESS" THEN e.amount ELSE 0
          /\ tos = IF e.event = "SEND_SUCCESS" THEN {e.to} ELSE {}
    BY <1>1, <1>2
  <2>3. PICK cnt2 : cnt2 = [cnt EXCEPT ![col] = @ + 1]
    OBVIOUS
  <2>4. cnt2 \in [Column -> Nat] /\ \A c \in Column : cnt2[c] = cnt[c] + (IF col = c THEN 1 ELSE 0)
    BY <2>3
  <2>5. Counted(row, e) = [count |-> cnt2, volume |-> vol + amount, recipients |-> rec \cup tos]
    BY <1>3, <1>5, <2>1, <2>2, <2>3 DEF Counted
  <2>6. vol + amount \in Nat /\ rec \cup tos \in SUBSET {a.to : a \in Entries}
    OBVIOUS
  <2>7. Counted(row, e) \in RowSet
    BY <2>4, <2>5, <2>6 DEF RowSet
  <2> QED
    BY <1>1, <1>2, <1>3, <2>1, <2>2, <2>4, <2>5, <2>7
<1> QED
  BY <1>4, <1>5

\* Empty rows are the report of no line.
LEMMA AddNothing ==
  ASSUME NEW D, IsFiniteSet(D), NEW rows, rows = [d \in D |-> Row]
  PROVE  rows \in [D -> RowSet] /\ AddsUp(rows, {})
<1>1. Row \in RowSet /\ Row.volume = 0 /\ Row.recipients = {} /\ \A c \in Column : Row.count[c] = 0
  BY DEF Row, RowSet
<1>2. DOMAIN rows = D /\ \A d \in D : rows[d] = Row
  OBVIOUS
<1>3. ASSUME NEW c \in Column
      PROVE  SumFunctionOnSet(Counts(rows, c), DOMAIN rows) = Cardinality(InColumn({}, c))
  <2>1. PICK f : f = Counts(rows, c)
    OBVIOUS
  <2>2. \A d \in D : f[d] = 0
    BY <1>1, <1>2, <2>1 DEF Counts
  <2>3. SumFunctionOnSet(f, D) = 0
    BY <2>2, SumOfZeros
  <2>4. InColumn({}, c) = {}
    BY DEF InColumn
  <2>5. Cardinality(InColumn({}, c)) = 0
    BY <2>4, FS_EmptySet, Zenon
  <2> QED
    BY <1>2, <2>1, <2>3, <2>5
<1>4. VolumesAddUp(rows, {})
  <2>1. PICK f : f = Volumes(rows)
    OBVIOUS
  <2>2. \A d \in D : f[d] = 0
    BY <1>1, <1>2, <2>1 DEF Volumes
  <2>3. SumFunctionOnSet(f, D) = 0
    BY <2>2, SumOfZeros
  <2>4. PICK P, g : P = Paid({}) /\ g = Amounts(P) /\ P = {}
    BY DEF Paid
  <2>5. SumFunctionOnSet(g, P) = 0
    BY <2>4, SumOfNothing, Zenon
  <2> QED
    BY <1>2, <2>1, <2>3, <2>4, <2>5 DEF VolumesAddUp
<1>5. Recipients(rows) = PaidTo({})
  BY <1>1, <1>2 DEF Recipients, PaidTo, Paid
<1> QED
  BY <1>1, <1>3, <1>4, <1>5 DEF AddsUp, CountsAddUp

\* A line more, in the row of its day.
Posted(rows, x) == [rows EXCEPT ![Day(x)] = Counted(@, x.entry)]

\* With the line counted in the row of its day, the rows still add up.
LEMMA AddLine ==
  ASSUME NEW D, IsFiniteSet(D), NEW rows \in [D -> RowSet], NEW W \in SUBSET Line, IsFiniteSet(W),
         AddsUp(rows, W), NEW x \in Line, x \notin W, Day(x) \in D,
         NEW next, next = Posted(rows, x)
  PROVE  next \in [D -> RowSet] /\ AddsUp(next, W \cup {x})
<1>1. PICK y \in D : y = Day(x)
  OBVIOUS
<1>2. PICK old, new : old = rows[y] /\ old \in RowSet /\ new = Counted(old, x.entry)
  BY <1>1
<1>3. /\ new \in RowSet
      /\ \A c \in Column : new.count[c] = old.count[c] + (IF ColumnOf(x.entry) = c THEN 1 ELSE 0)
      /\ new.volume = old.volume + (IF x.entry.event = "SEND_SUCCESS" THEN x.entry.amount ELSE 0)
      /\ new.recipients = old.recipients \cup (IF x.entry.event = "SEND_SUCCESS" THEN {x.entry.to} ELSE {})
      /\ x.entry.amount \in Nat
  BY <1>2, CountedIs
<1>4. next = [rows EXCEPT ![y] = new]
  BY <1>1, <1>2 DEF Posted
<1>5. /\ next \in [D -> RowSet] /\ DOMAIN rows = D /\ DOMAIN next = D
      /\ next[y] = new /\ \A d \in D \ {y} : next[d] = rows[d]
  BY <1>3, <1>4
<1>6. \A d \in D : rows[d].volume \in Nat /\ \A c \in Column : rows[d].count[c] \in Nat
  BY DEF RowSet
<1>7. ASSUME NEW c \in Column
      PROVE  SumFunctionOnSet(Counts(next, c), DOMAIN next) = Cardinality(InColumn(W \cup {x}, c))
  <2>1. PICK f, h : f = Counts(rows, c) /\ h = Counts(next, c)
    OBVIOUS
  <2>2. PICK n \in Int : n = IF ColumnOf(x.entry) = c THEN 1 ELSE 0
    OBVIOUS
  <2>3. \A d \in D : f[d] = rows[d].count[c] /\ h[d] = next[d].count[c]
    BY <1>5, <2>1 DEF Counts
  <2>4. (\A d \in D : f[d] \in Int) /\ h[y] = f[y] + n /\ \A d \in D \ {y} : h[d] = f[d]
    BY <1>2, <1>3, <1>5, <1>6, <2>2, <2>3
  <2>5. SumFunctionOnSet(h, D) = SumFunctionOnSet(f, D) + n
    <3>1. OneTermMoves(f, h, D, y, n)
      BY <2>4 DEF OneTermMoves
    <3> QED
      BY <3>1, SumPoint
  <2>6. SumFunctionOnSet(f, D) = Cardinality(InColumn(W, c))
    BY <1>5, <2>1 DEF AddsUp, CountsAddUp
  <2>7. Cardinality(InColumn(W \cup {x}, c)) = Cardinality(InColumn(W, c)) + n
    <3>0. PICK A : A = InColumn(W, c)
      OBVIOUS
    <3>1. A = InColumn(W, c) /\ IsFiniteSet(A) /\ x \notin A
      <4>1. A \subseteq W
        BY <3>0 DEF InColumn
      <4> QED
        BY <3>0, <4>1, FS_Subset
    <3>2. Cardinality(A) \in Nat
      BY <3>1, FS_CardinalityType
    <3>3. CASE ColumnOf(x.entry) = c
      <4>1. InColumn(W \cup {x}, c) = A \cup {x}
        BY <3>1, <3>3 DEF InColumn
      <4>2. Cardinality(A \cup {x}) = Cardinality(A) + 1
        BY <3>1, FS_AddElement
      <4> QED
        BY <2>2, <3>1, <3>3, <4>1, <4>2
    <3>4. CASE ColumnOf(x.entry) # c
      <4>1. InColumn(W \cup {x}, c) = A
        BY <3>1, <3>4 DEF InColumn
      <4> QED
        BY <2>2, <3>1, <3>2, <3>4, <4>1
    <3> QED
      BY <3>3, <3>4
  <2> QED
    BY <1>5, <2>1, <2>5, <2>6, <2>7
<1>8. VolumesAddUp(next, W \cup {x})
  <2>1. PICK f, h : f = Volumes(rows) /\ h = Volumes(next)
    OBVIOUS
  <2>2. PICK n \in Int : n = IF x.entry.event = "SEND_SUCCESS" THEN x.entry.amount ELSE 0
    BY <1>3
  <2>3. \A d \in D : f[d] = rows[d].volume /\ h[d] = next[d].volume
    BY <1>5, <2>1 DEF Volumes
  <2>4. (\A d \in D : f[d] \in Int) /\ h[y] = f[y] + n /\ \A d \in D \ {y} : h[d] = f[d]
    BY <1>2, <1>3, <1>5, <1>6, <2>2, <2>3
  <2>5. SumFunctionOnSet(h, D) = SumFunctionOnSet(f, D) + n
    <3>1. OneTermMoves(f, h, D, y, n)
      BY <2>4 DEF OneTermMoves
    <3> QED
      BY <3>1, SumPoint
  <2>6. PICK P, V : P = Paid(W) /\ V = Paid(W \cup {x})
    OBVIOUS
  <2>7. SumFunctionOnSet(f, D) = SumFunctionOnSet(Amounts(P), P)
    BY <1>5, <2>1, <2>6 DEF AddsUp, VolumesAddUp
  <2>8. P \subseteq Line /\ IsFiniteSet(P) /\ x \notin P
    BY <2>6, FS_Subset DEF Paid
  <2>9. \A r \in Line : r.entry.amount \in Nat
    BY CountedIs, <1>2
  <2>10. SumFunctionOnSet(Amounts(V), V) = SumFunctionOnSet(Amounts(P), P) + n
    <3>1. CASE x.entry.event = "SEND_SUCCESS"
      <4>1. V = P \cup {x} /\ V \ {x} = P /\ x \in V /\ V \subseteq Line
        BY <2>6, <2>8, <3>1 DEF Paid
      <4>2. IsFiniteSet(V)
        BY <2>8, <4>1, FS_AddElement
      <4>3. PICK a, b : a = Amounts(V) /\ b = Amounts(P)
        OBVIOUS
      <4>4. /\ \A r \in V : a[r] = r.entry.amount /\ a[r] \in Int
            /\ \A r \in P : b[r] = r.entry.amount /\ b[r] \in Int
        BY <2>8, <2>9, <4>1, <4>3 DEF Amounts
      <4>5. SumFunctionOnSet(a, V) = a[x] + SumFunctionOnSet(a, P)
        BY <4>1, <4>2, <4>4, SumRemove
      <4>6. SumFunctionOnSet(a, P) = SumFunctionOnSet(b, P) /\ SumFunctionOnSet(a, P) \in Int
        <5>1. \A r \in P : a[r] \in Int /\ a[r] = b[r]
          BY <4>1, <4>4
        <5> QED
          BY <2>8, <5>1, SumSame, SumRecurs
      <4>7. a[x] = n
        BY <2>2, <3>1, <4>1, <4>4
      <4> QED
        BY <4>3, <4>5, <4>6, <4>7
    <3>2. CASE x.entry.event # "SEND_SUCCESS"
      <4>1. V = P /\ n = 0
        BY <2>2, <2>6, <3>2 DEF Paid
      <4>2. SumFunctionOnSet(f, D) \in Int
        BY <2>4, SumRecurs
      <4> QED
        BY <2>7, <4>1, <4>2
    <3> QED
      BY <3>1, <3>2
  <2> QED
    BY <1>5, <2>1, <2>5, <2>6, <2>7, <2>10 DEF VolumesAddUp
<1>9. Recipients(next) = PaidTo(W \cup {x})
  <2>1. PICK tos : tos = IF x.entry.event = "SEND_SUCCESS" THEN {x.entry.to} ELSE {}
    OBVIOUS
  <2>2. Recipients(next) = Recipients(rows) \cup tos
    <3>1. ASSUME NEW d \in D PROVE next[d].recipients \subseteq Recipients(rows) \cup tos
      <4>1. rows[d].recipients \subseteq Recipients(rows)
        BY <1>5 DEF Recipients
      <4>2. CASE d = y
        BY <1>2, <1>3, <1>5, <2>1, <4>1, <4>2
      <4>3. CASE d # y
        BY <1>5, <4>1, <4>3
      <4> QED
        BY <4>2, <4>3
    <3>2. ASSUME NEW d \in D PROVE rows[d].recipients \subseteq next[d].recipients
      <4>1. CASE d = y
        BY <1>2, <1>3, <1>5, <4>1
      <4>2. CASE d # y
        BY <1>5, <4>2
      <4> QED
        BY <4>1, <4>2
    <3>3. tos \subseteq next[y].recipients
      BY <1>3, <1>5, <2>1
    <3>4. Recipients(next) \subseteq Recipients(rows) \cup tos
      BY <1>5, <3>1 DEF Recipients
    <3>5. Recipients(rows) \cup tos \subseteq Recipients(next)
      BY <1>5, <3>2, <3>3 DEF Recipients
    <3> QED
      BY <3>4, <3>5
  <2>3. PaidTo(W \cup {x}) = PaidTo(W) \cup tos
    <3>1. CASE x.entry.event = "SEND_SUCCESS"
      <4>1. Paid(W \cup {x}) = Paid(W) \cup {x} /\ tos = {x.entry.to}
        BY <2>1, <3>1 DEF Paid
      <4> QED
        BY <4>1 DEF PaidTo
    <3>2. CASE x.entry.event # "SEND_SUCCESS"
      <4>1. Paid(W \cup {x}) = Paid(W) /\ tos = {}
        BY <2>1, <3>2 DEF Paid
      <4> QED
        BY <4>1 DEF PaidTo
    <3> QED
      BY <3>1, <3>2
  <2> QED
    BY <2>2, <2>3 DEF AddsUp
<1> QED
  BY <1>5, <1>7, <1>8, <1>9 DEF AddsUp, CountsAddUp

\* Rows after a line of the file.
Entered(rows, r, from, to) ==
  IF Day(r) \in from..to THEN Posted(rows, r) ELSE rows

\* Buckets() goes through the lines once.
LEMMA BucketsPass ==
  ASSUME NEW lines \in Seq(Line), NEW from \in Nat, NEW to \in Nat
  PROVE  \E rows :
           /\ rows[0] = [d \in from..to |-> Row] /\ Buckets(from, to, lines) = rows[Len(lines)]
           /\ \A k \in 1..Len(lines) : rows[k] = Entered(rows[k - 1], lines[k], from, to)
<1>1. PICK n \in Nat : n = Len(lines) /\ DOMAIN lines = 1..n /\ \A i \in 1..n : lines[i] \in Line
  BY LenProperties, ElementOfSeq
<1> DEFINE D == SUBSET (1..n)
           T == [from..to -> RowSet]
           none == [d \in from..to |-> Row]
           Is(i) == i = [t \in D |-> IF t = {} THEN none
                                     ELSE Entered(i[t \ {Max(t)}], lines[Max(t)], from, to)]
<1>2. PICK c, g : /\ c = [t \in D |-> Max(t)]
                  /\ g = [p \in (1..n) \X T |-> Entered(p[2], lines[p[1]], from, to)]
  OBVIOUS
<1>3. Picks(c, 1..n) /\ \A t \in D : c[t] = Max(t)
  BY <1>2, MaxPicks
<1>4. /\ \A k \in 1..n, q \in T : g[<<k, q>>] = Entered(q, lines[k], from, to)
      /\ g \in [(1..n) \X T -> T]
  <2>1. ASSUME NEW k \in 1..n, NEW q \in T PROVE Entered(q, lines[k], from, to) \in T
    <3>1. PICK x \in Line : x = lines[k]
      BY <1>1
    <3>2. CASE Day(x) \in from..to
      <4>1. PICK y \in from..to : y = Day(x)
        BY <3>2
      <4>2. Counted(q[y], x.entry) \in RowSet
        BY CountedIs
      <4>3. Entered(q, x, from, to) = [q EXCEPT ![y] = Counted(q[y], x.entry)]
        BY <3>2, <4>1 DEF Entered, Posted
      <4> QED
        BY <3>1, <4>2, <4>3
    <3>3. CASE Day(x) \notin from..to
      BY <3>1, <3>3 DEF Entered
    <3> QED
      BY <3>2, <3>3
  <2> HIDE DEF T
  <2> QED
    BY <1>2, <2>1
<1>5. PICK iter \in [D -> T] : Folds(iter, 1..n, c, g, none)
  <2>1. none \in T
    BY DEF Row, RowSet
  <2>2. IsFiniteSet(1..n)
    BY FS_Interval
  <2> HIDE DEF T, none
  <2> QED
    BY <1>3, <1>4, <2>1, <2>2, FoldExists, Zenon
<1>6. Is(iter)
  <2> SUFFICES ASSUME NEW t \in D, t # {}
               PROVE  iter[t] = Entered(iter[t \ {Max(t)}], lines[Max(t)], from, to)
    BY <1>5 DEF Folds
  <2> HIDE DEF T
  <2>1. Max(t) \in 1..n /\ c[t] = Max(t)
    BY <1>3 DEF Picks
  <2>2. iter[t \ {Max(t)}] \in T
    BY <1>5
  <2>3. iter[t] = g[<<c[t], iter[t \ {c[t]}]>>]
    BY <1>5 DEF Folds
  <2> QED
    BY <1>4, <2>1, <2>2, <2>3
<1>7. PICK it : it = CHOOSE i : Is(i)
  OBVIOUS
<1>8. Is(it)
  <2> HIDE DEF Is
  <2> QED
    BY <1>6, <1>7
<1>9. Buckets(from, to, lines) = it[1..n]
  BY <1>1, <1>7 DEF Buckets, Entered, Posted, FoldLeft, MapThenFoldSet
<1> DEFINE rows == [k \in 0..n |-> it[1..k]]
<1>10. rows[0] = none
  <2>1. 1..0 = {} /\ {} \in D
    OBVIOUS
  <2> HIDE DEF none
  <2> QED
    BY <1>8, <2>1
<1>11. ASSUME NEW k \in 1..n PROVE rows[k] = Entered(rows[k - 1], lines[k], from, to)
  <2>1. Max(1..k) = k /\ (1..k) \ {k} = 1..(k - 1) /\ 1..k # {} /\ 1..k \in D
    BY MaxInterval
  <2>2. rows[k] = it[1..k] /\ rows[k - 1] = it[1..(k - 1)]
    OBVIOUS
  <2>3. it[1..k] = Entered(it[(1..k) \ {Max(1..k)}], lines[Max(1..k)], from, to)
    BY <1>8, <2>1
  <2> QED
    BY <2>1, <2>2, <2>3
<1>12. Buckets(from, to, lines) = rows[n]
  BY <1>9
<1> HIDE DEF rows
<1> QED
  BY <1>1, <1>10, <1>11, <1>12

\* The lines of a range of days.
Within(from, to, lines) == {r \in Range(lines) : Day(r) \in from..to}

\* The rows of the days come to what the lines of these days come to.
LEMMA BucketsAddUp ==
  ASSUME NEW lines \in Seq(Line), Ordered(lines, Apart), NEW from \in Nat, NEW to \in Nat
  PROVE  /\ Buckets(from, to, lines) \in [from..to -> RowSet]
         /\ AddsUp(Buckets(from, to, lines), Within(from, to, lines))
<1>1. PICK n \in Nat : n = Len(lines) /\ DOMAIN lines = 1..n /\ \A i \in 1..n : lines[i] \in Line
  BY LenProperties, ElementOfSeq
<1>2. PICK rows : /\ rows[0] = [d \in from..to |-> Row] /\ Buckets(from, to, lines) = rows[Len(lines)]
                  /\ \A k \in 1..Len(lines) : rows[k] = Entered(rows[k - 1], lines[k], from, to)
  BY BucketsPass
<1>3. PICK D : D = from..to /\ IsFiniteSet(D)
  BY FS_Interval
<1> DEFINE First(k) == {lines[i] : i \in 1..k}
           W(k) == {r \in First(k) : Day(r) \in D}
           Good(k) == rows[k] \in [D -> RowSet] /\ AddsUp(rows[k], W(k))
           Q == {k \in Nat : k <= n => Good(k)}
<1>4. 0 \in Q
  <2>1. W(0) = {}
    OBVIOUS
  <2>2. PICK q : q = rows[0] /\ q = [d \in D |-> Row]
    BY <1>2, <1>3
  <2>3. q \in [D -> RowSet] /\ AddsUp(q, {})
    BY <1>3, <2>2, AddNothing
  <2>4. Good(0)
    <3> HIDE DEF W
    <3> QED
      BY <2>1, <2>2, <2>3
  <2> HIDE DEF Good
  <2> QED
    BY <2>4
<1>5. ASSUME NEW k \in Nat, k \in Q PROVE k + 1 \in Q
  <2> SUFFICES ASSUME k + 1 <= n PROVE Good(k + 1)
    OBVIOUS
  <2>1. k <= n /\ k + 1 \in 1..n /\ (k + 1) - 1 = k
    BY <1>1
  <2>2. Good(k)
    BY <1>5, <2>1
  <2>3. PICK x \in Line : x = lines[k + 1]
    BY <1>1, <2>1
  <2>4. First(k + 1) = First(k) \cup {x}
    <3>1. \A i \in 1..(k + 1) : i \in 1..k \/ i = k + 1
      OBVIOUS
    <3>2. (\A i \in 1..k : i \in 1..(k + 1)) /\ k + 1 \in 1..(k + 1)
      OBVIOUS
    <3> QED
      BY <2>3, <3>1, <3>2
  <2>5. First(k) \subseteq Line /\ IsFiniteSet(First(k))
    <3>1. \A i \in 1..k : lines[i] \in Line
      BY <1>1, <2>1
    <3>2. First(k) \subseteq Range(lines)
      BY <1>1, <2>1 DEF Range
    <3>3. IsFiniteSet(Range(lines))
      BY ItemsCounted
    <3> QED
      BY <3>1, <3>2, <3>3, FS_Subset
  <2>6. x \notin First(k)
    <3> SUFFICES ASSUME NEW i \in 1..k PROVE lines[i] # x
      OBVIOUS
    <3>1. i \in DOMAIN lines /\ k + 1 \in DOMAIN lines /\ i < k + 1
      BY <1>1, <2>1
    <3>2. <<lines[i], lines[k + 1]>> \in Apart
      BY <3>1 DEF Ordered
    <3> QED
      BY <2>3, <3>2 DEF Apart
  <2>7. PICK q, p, V : q = rows[k] /\ p = rows[k + 1] /\ V = W(k)
    OBVIOUS
  <2>8. q \in [D -> RowSet] /\ AddsUp(q, V)
    BY <2>2, <2>7
  <2>9. p = IF Day(x) \in D THEN Posted(q, x) ELSE q
    <3>1. p = Entered(q, x, from, to)
      BY <1>1, <1>2, <2>1, <2>3, <2>7
    <3> QED
      BY <1>3, <3>1 DEF Entered
  <2> HIDE DEF First
  <2>10. V \in SUBSET Line /\ IsFiniteSet(V) /\ x \notin V
    BY <2>5, <2>6, <2>7, FS_Subset
  <2>11. CASE Day(x) \in D
    <3>1. W(k + 1) = V \cup {x}
      BY <2>4, <2>7, <2>11
    <3>2. p = Posted(q, x)
      BY <2>9, <2>11
    <3>3. p \in [D -> RowSet] /\ AddsUp(p, V \cup {x})
      BY <1>3, <2>8, <2>10, <2>11, <3>2, AddLine
    <3> HIDE DEF W
    <3> QED
      BY <2>7, <3>1, <3>3
  <2>12. CASE Day(x) \notin D
    <3>1. W(k + 1) = V
      BY <2>4, <2>7, <2>12
    <3>2. p = q
      BY <2>9, <2>12
    <3> HIDE DEF W
    <3> QED
      BY <2>7, <2>8, <3>1, <3>2
  <2> QED
    BY <2>11, <2>12
<1>6. Nat \subseteq Q
  <2> HIDE DEF Q
  <2> QED
    BY <1>4, <1>5, Induction
<1>7. Good(n)
  <2>1. n <= n
    OBVIOUS
  <2>2. n \in Q
    <3> HIDE DEF Q
    <3> QED
      BY <1>6
  <2> HIDE DEF Good
  <2> QED
    BY <2>1, <2>2
<1>8. W(n) = Within(from, to, lines)
  <2>1. First(n) = Range(lines)
    BY <1>1 DEF Range
  <2> HIDE DEF First
  <2> QED
    BY <1>3, <2>1 DEF Within
<1> HIDE DEF W
<1> QED
  BY <1>1, <1>2, <1>3, <1>7, <1>8

\* The sanctions report is the hits of its days, by time.
LEMMA HitsAre ==
  ASSUME NEW lines \in Seq(Line), NEW from, NEW to, NEW hits, hits = SanctionsHits(from, to, lines)
  PROVE  /\ Range(hits) = {r \in Within(from, to, lines) : r.entry.event = "SEND_REJECTED" /\ r.entry.sanctions}
         /\ \A i \in 1..(Len(hits) - 1) : hits[i].ts <= hits[i + 1].ts
<1>1. PICK S, R : /\ S = {r \in Range(lines) : r.entry.event = "SEND_REJECTED" /\ r.entry.sanctions
                                              /\ Day(r) \in from..to}
                  /\ R = {p \in Range(lines) \X Range(lines) : p[1].ts <= p[2].ts}
  OBVIOUS
<1>2. PICK w : w = Where(lines, S)
  OBVIOUS
<1>3. hits = Sorted(w, R)
  BY <1>1, <1>2 DEF SanctionsHits
<1>4. lines \in Seq(Line)
  OBVIOUS
<1>5. w \in Seq(Line) /\ Range(w) = Range(lines) \cap S
  BY <1>2, <1>4, WhereIs
<1>6. Orders(R, Range(w))
  <2>1. \A x \in Range(w) : x \in Range(lines) /\ x.ts \in Nat
    <3>1. Range(lines) \subseteq Line
      BY <1>4, RangeOfSeq
    <3> QED
      BY <1>5, <3>1 DEF Line
  <2>2. \A x, y \in Range(w) : <<x, y>> \in R <=> x.ts <= y.ts
    BY <1>1, <2>1
  <2>3. ASSUME NEW x \in Range(w), NEW y \in Range(w) PROVE <<x, y>> \in R \/ <<y, x>> \in R
    <3>1. x.ts <= y.ts \/ y.ts <= x.ts
      BY <2>1
    <3> QED
      BY <2>2, <3>1
  <2>4. ASSUME NEW x \in Range(w), NEW y \in Range(w), NEW z \in Range(w),
               <<x, y>> \in R, <<y, z>> \in R
        PROVE  <<x, z>> \in R
    <3>1. x.ts <= y.ts /\ y.ts <= z.ts
      BY <2>2, <2>4
    <3>2. x.ts <= z.ts
      BY <2>1, <3>1
    <3> QED
      BY <2>2, <3>2
  <2> QED
    BY <2>3, <2>4 DEF Orders
<1>7. hits \in Seq(Line) /\ Range(hits) = Range(w) /\ Ordered(hits, R)
  <2>1. w \in Seq(Line)
    BY <1>5
  <2>2. /\ Sorted(w, R) \in Seq(Line) /\ Range(Sorted(w, R)) = Range(w) /\ Ordered(Sorted(w, R), R)
    BY <1>6, <2>1, SortedIs
  <2> QED
    BY <1>3, <2>2
<1>8. Range(hits) = {r \in Within(from, to, lines) : r.entry.event = "SEND_REJECTED" /\ r.entry.sanctions}
  BY <1>1, <1>5, <1>7 DEF Within
<1>9. ASSUME NEW i \in 1..(Len(hits) - 1) PROVE hits[i].ts <= hits[i + 1].ts
  <2>1. i \in DOMAIN hits /\ i + 1 \in DOMAIN hits /\ i < i + 1
    BY <1>7, LenProperties
  <2>2. <<hits[i], hits[i + 1]>> \in R
    BY <1>7, <2>1 DEF Ordered
  <2> QED
    BY <1>1, <2>2
<1> QED
  BY <1>8, <1>9

----------------------------------------------------------------------------
(* Theorems.                                                               *)

\* However writes, flushes and processes fail, readers miss at most one acknowledged record
\* per line that a lost handle left in pieces, as long as the file decodes (_write_durable,
\* close_audit_file of audit.py).
THEOREM TearsBoundLoss == Spec => []TearLosesOneRecord
<1>1. ReportsInv => TearLosesOneRecord
  <2> SUFFICES ASSUME ReportsInv PROVE TearLosesOneRecord
    OBVIOUS
  <2>1. Owed \in Nat /\ tears \in Nat
    BY DEF Owed, ReportsInv, TypeInv
  <2> QED
    BY <2>1, MissingCount DEF ReportsInv, LossInv, Missing, Readable, TearLosesOneRecord
<1> QED
  BY <1>1, ReportsAlways, PTL

\* A client that pages GET /audit to its end without an error is given every record that was
\* there when it began, and none twice, whatever the order of process ids and record numbers
\* as strings and whatever is recorded meanwhile (audit_endpoint of routes.py).
THEOREM PagesAreComplete == Spec => []PagingIsComplete
<1>1. PageInv => PagingIsComplete
  BY DEF PageInv, PagingIsComplete
<1> QED
  BY <1>1, PageAlways, PTL

\* When the start-up check reports ok, every readable payout of this MSK day is on chain with
\* SUCCESS, no recipient was paid twice (run_startup_check of startup_check.py), and the audit
\* command shows the last of these payouts, latest line first (commands/audit.py).
THEOREM OkSaysTheTruth == Spec => StartupOkIsTrue
<1>1. ASSUME ReportsInv, OrderInv, [Next]_vars
      PROVE  [check = "due" /\ check' = "ok" =>
                OkIsTrue /\ \A n \in 1..Limit : ShowsLast(AuditToday("SEND_SUCCESS", n), n)]_vars
  <2> SUFFICES ASSUME check = "due", check' = "ok", Next
               PROVE  OkIsTrue /\ \A n \in 1..Limit : ShowsLast(AuditToday("SEND_SUCCESS", n), n)
    BY <1>1 DEF vars
  <2>1. PICK down \in BOOLEAN : StartupCheck(down)
    <3>1. check' # check
      OBVIOUS
    <3> QED
      BY <3>1 DEF Next, Record, Write, Start, Die, Close, TimePasses, FirstPage, NextPage
  <2>2. Successes # {} /\ Duplicates = {} /\ \A r \in Successes : Verify(r, down) = "SUCCESS"
    BY <2>1 DEF StartupCheck
  <2>3. Successes = {file[i] : i \in Today}
    <3>1. Successes = Payouts
      BY <2>2 DEF Successes, Payouts
    <3> QED
      BY <1>1, <3>1, WindowIsToday DEF ReportsInv
  <2>4. \A i \in Today : file[i].entry.fate = "SUCCESS"
    BY <2>2, <2>3 DEF Verify
  <2>5. ASSUME NEW i \in Today, NEW j \in Today, file[i].entry.to = file[j].entry.to PROVE i = j
    <3>1. file[i] \in Successes /\ file[j] \in Successes /\ i \in DOMAIN file /\ j \in DOMAIN file
      BY <2>3 DEF Today
    <3>2. file[i] = file[j]
      BY <1>1, <2>2, <2>5, <3>1, NoDuplicates DEF ReportsInv
    <3> QED
      BY <1>1, <3>1, <3>2, OneLine DEF ReportsInv
  <2>6. ASSUME NEW n \in 1..Limit PROVE ShowsLast(AuditToday("SEND_SUCCESS", n), n)
    <3>1. n \in Nat
      BY ReportsAssumption
    <3> QED
      BY <1>1, <3>1, ShownToday DEF ReportsInv
  <2> QED
    BY <2>4, <2>5, <2>6 DEF OkIsTrue
<1> QED
  BY <1>1, ReportsAlways, OrderAlways, PTL DEF Spec, StartupOkIsTrue

\* For every range that a report may cover, the TOTAL row says what a count over the records of
\* those days says, recipients once each, and the sanctions report lists each hit in order of
\* time: of the whole file, or of the lines before the read raised.  Other ranges are refused,
\* and no report is made of a file that does not decode (aggregate_period, list_sanctions_hits
\* of reporting.py).
THEOREM TotalsAreTrue == Spec => []ReportsAddUp
<1>1. ASSUME TypeInv, OrderInv PROVE ReportsAddUp
  <2> SUFFICES ASSUME NEW from \in 0..(MaxTime \div DayLen),
                      NEW to \in 0..((MaxTime \div DayLen) + 1), NEW n \in 0..Len(file)
               PROVE  LET report == PeriodReport(from, to, n)
                          sanctions == SanctionsReport(from, to, n)
                      IN IF ~ ValidRange(from, to) \/ ~ Decodes
                         THEN report = sanctions /\ "error" \in DOMAIN report
                         ELSE LET within == {r \in Range(Read(n)) : Day(r) \in from..to}
                                  paid == {r \in within : r.entry.event = "SEND_SUCCESS"}
                                  hits == sanctions.hits
                              IN /\ \A c \in Column :
                                      report.total.count[c]
                                        = Cardinality({r \in within : ColumnOf(r.entry) = c})
                                 /\ report.total.volume = SumFunction([r \in paid |-> r.entry.amount])
                                 /\ report.total.recipients = Cardinality({r.entry.to : r \in paid})
                                 /\ Range(hits) = {r \in within : r.entry.event = "SEND_REJECTED"
                                                                  /\ r.entry.sanctions}
                                 /\ \A i \in 1..(Len(hits) - 1) : hits[i].ts <= hits[i + 1].ts
    BY DEF ReportsAddUp
  <2>0. PICK report, sanctions :
          report = PeriodReport(from, to, n) /\ sanctions = SanctionsReport(from, to, n)
    OBVIOUS
  <2>1. CASE ~ ValidRange(from, to)
    BY <2>0, <2>1 DEF PeriodReport, SanctionsReport, BadRange
  <2>2. CASE ValidRange(from, to) /\ ~ Decodes
    BY <2>0, <2>2 DEF PeriodReport, SanctionsReport, Unreadable
  <2>3. CASE ValidRange(from, to) /\ Decodes
    <3>1. from \in Nat /\ to \in Nat
      BY ReportsAssumption
    <3>2. PICK lines : lines = Read(n)
      OBVIOUS
    <3>3. lines \in Seq(Line) /\ Ordered(lines, Apart)
      <4>1. file \in Seq(Line) /\ Ordered(file, Apart)
        BY <1>1 DEF TypeInv, OrderInv, Stamps
      <4> QED
        BY <3>2, <4>1, PartsOrdered DEF Read
    <3>4. PICK rows, W : rows = Buckets(from, to, lines) /\ W = Within(from, to, lines)
      OBVIOUS
    <3>5. rows \in [from..to -> RowSet] /\ AddsUp(rows, W) /\ DOMAIN rows = from..to
      BY <3>1, <3>3, <3>4, BucketsAddUp
    <3>6. PICK total, hits : total = report.total /\ hits = sanctions.hits
      OBVIOUS
    <3>7. total = Total(rows)
      <4>1. report = [days |-> rows, total |-> Total(rows)]
        BY <2>0, <2>3, <3>2, <3>4 DEF PeriodReport
      <4> QED
        BY <3>6, <4>1
    <3>8. hits = SanctionsHits(from, to, lines)
      <4>1. sanctions = [hits |-> SanctionsHits(from, to, lines)]
        BY <2>0, <2>3, <3>2 DEF SanctionsReport
      <4> QED
        BY <3>6, <4>1
    <3>9. W = {r \in Range(Read(n)) : Day(r) \in from..to}
      BY <3>2, <3>4 DEF Within
    <3>10. \A c \in Column : total.count[c] = Cardinality({r \in W : ColumnOf(r.entry) = c})
      <4> SUFFICES ASSUME NEW c \in Column
                   PROVE  total.count[c] = Cardinality(InColumn(W, c))
        BY DEF InColumn
      <4>1. total.count[c] = SumFunction(Counts(rows, c))
        BY <3>7 DEF Total, Counts
      <4>2. DOMAIN Counts(rows, c) = DOMAIN rows
        BY DEF Counts
      <4> QED
        BY <3>5, <4>1, <4>2 DEF SumFunction, AddsUp, CountsAddUp
    <3>11. total.volume = SumFunction([r \in {x \in W : x.entry.event = "SEND_SUCCESS"} |-> r.entry.amount])
      <4>1. DOMAIN Volumes(rows) = DOMAIN rows /\ DOMAIN Amounts(Paid(W)) = Paid(W)
        BY DEF Volumes, Amounts
      <4>2. total.volume = SumFunction(Volumes(rows))
        BY <3>7 DEF Total, Volumes
      <4>3. total.volume = SumFunction(Amounts(Paid(W)))
        BY <3>5, <4>1, <4>2 DEF SumFunction, AddsUp, VolumesAddUp
      <4> QED
        BY <4>3 DEF Amounts, Paid
    <3>12. total.recipients = Cardinality({r.entry.to : r \in {x \in W : x.entry.event = "SEND_SUCCESS"}})
      <4>1. total.recipients = Cardinality(Recipients(rows))
        BY <3>7 DEF Total, Recipients
      <4>2. total.recipients = Cardinality(PaidTo(W))
        BY <3>5, <4>1 DEF AddsUp
      <4> QED
        BY <4>2 DEF PaidTo, Paid
    <3>13. /\ Range(hits) = {r \in W : r.entry.event = "SEND_REJECTED" /\ r.entry.sanctions}
           /\ \A i \in 1..(Len(hits) - 1) : hits[i].ts <= hits[i + 1].ts
      BY <3>3, <3>4, <3>8, HitsAre
    <3> QED
      BY <2>0, <2>3, <3>6, <3>9, <3>10, <3>11, <3>12, <3>13
  <2> QED
    BY <2>1, <2>2, <2>3
<1> QED
  BY <1>1, ReportsAlways, OrderAlways, PTL DEF ReportsInv

\* A record's id is its own, in the file, in the buffer and in the threads that have not
\* written yet.
IdsAreUnique ==
  LET given == Range(file) \cup Range(backlog) \cup pending
  IN /\ \A x, y \in given : x.id = y.id => x = y
     /\ \A i, j \in DOMAIN file : file[i].id = file[j].id => i = j

\* No two lines of the audit file share an id, nor do records that wait in the buffer of a
\* failed write or in a thread that has its id and not the lock yet, although processes end
\* and start between them (_next_record_id, record and _write_durable of audit.py).
THEOREM IdsStayUnique == Spec => []IdsAreUnique
<1>1. ASSUME TypeInv, OrderInv PROVE IdsAreUnique
  <2>1. ASSUME NEW x \in Range(backlog), NEW y \in Range(backlog), x.id = y.id PROVE x = y
    <3>1. PICK i \in DOMAIN backlog, j \in DOMAIN backlog : x = backlog[i] /\ y = backlog[j]
      BY DEF Range
    <3>2. i \in Nat /\ j \in Nat
      BY <1>1, LenProperties DEF TypeInv
    <3>3. ~ (i < j) /\ ~ (j < i)
      BY <1>1, <2>1, <3>1 DEF OrderInv, Stamps, Ordered, Apart
    <3> QED
      BY <3>1, <3>2, <3>3
  <2>2. ASSUME NEW i \in DOMAIN file, NEW j \in DOMAIN file, file[i].id = file[j].id PROVE i = j
    <3>1. i \in Nat /\ j \in Nat
      BY <1>1, LenProperties DEF TypeInv
    <3>2. ~ (i < j) /\ ~ (j < i)
      BY <1>1, <2>2 DEF OrderInv, Stamps, Ordered, Apart
    <3> QED
      BY <3>1, <3>2
  <2>3. ASSUME NEW x \in Range(file), NEW y \in Range(file), x.id = y.id PROVE x = y
    BY <2>2, <2>3 DEF Range
  <2>4. /\ \A x \in Range(file), y \in Range(backlog) : x.id # y.id
        /\ \A x \in Range(file) \cup Range(backlog), y \in pending : x.id # y.id
        /\ \A x, y \in pending : x # y => x.id # y.id
    BY <1>1 DEF OrderInv, Stamps, Apart
  <2> QED
    BY <2>1, <2>2, <2>3, <2>4 DEF IdsAreUnique
<1> QED
  BY <1>1, ReportsAlways, OrderAlways, PTL DEF ReportsInv

\* No step takes a line that parses out of the audit file: neither a reopening after a failure,
\* nor a short write, nor the end of a process (_get_audit_file, close_audit_file of audit.py).
THEOREM ReadableStays == Spec => [][Range(file) \subseteq Range(file')]_vars
<1>1. ASSUME ReportsInv, [Next]_vars PROVE [Range(file) \subseteq Range(file')]_vars
  BY <1>1, LinesStay
<1> QED
  BY <1>1, ReportsAlways, PTL DEF Spec
=============================================================================
