------------------------------ MODULE FoldLemmas ------------------------------
(***************************************************************************)
(* Induction over the natural numbers, in a form that asks for a set where *)
(* the library's theorems ask for a predicate; that a fold over a finite   *)
(* set is what its equation says; what follows for sums and for folds over *)
(* sequences; and what a sequence holds.                                   *)
(***************************************************************************)
EXTENDS Integers, Sequences, FiniteSets, Functions, FiniteSetTheorems,
        SequenceTheorems, WellFoundedInduction, TLAPS

LEMMA LeastNumber ==
  ASSUME NEW S \in SUBSET Nat, S # {}
  PROVE  \E n \in S : \A m \in S : n <= m
<1> DEFINE R == OpToRel(<, Nat)
<1>1. IsWellFoundedOn(R, Nat)
  BY NatLessThanWellFounded
<1>2. \A m, n \in Nat : m < n => <<m, n>> \in R
  BY DEF OpToRel
<1> HIDE DEF R
<1>3. PICK n \in S : \A m \in S : <<m, n>> \notin R
  BY <1>1, WFMin
<1>4. \A m \in S : ~(m < n)
  BY <1>2, <1>3
<1> QED  BY <1>4

LEMMA Induction ==
  ASSUME NEW T, 0 \in T, \A n \in Nat : n \in T => n + 1 \in T
  PROVE  Nat \subseteq T
<1> SUFFICES ASSUME Nat \ T # {} PROVE FALSE
  OBVIOUS
<1>1. PICK n \in Nat \ T : \A m \in Nat \ T : n <= m
  BY LeastNumber
<1>2. n - 1 \in Nat /\ n - 1 \notin Nat \ T
  BY <1>1
<1>3. (n - 1) + 1 \in T
  BY <1>2
<1> QED  BY <1>1, <1>3

-----------------------------------------------------------------------------
(* Folds over the subsets of a finite set S: ch says which element a fold    *)
(* takes off next and G what it makes of it.                                 *)

Picks(ch, S) == \A s \in SUBSET S : s # {} => ch[s] \in s
FoldStep(r, s, base, G, ch) == IF s = {} THEN base ELSE G[<<ch[s], r[s \ {ch[s]}]>>]
IsFold(r, S, D, base, G, ch) ==
  r \in [SUBSET S -> D] /\ \A s \in SUBSET S : r[s] = FoldStep(r, s, base, G, ch)
Closed(T, ch, S) == \A s \in SUBSET S : s = {} \/ s \ {ch[s]} \in T => s \in T

LEMMA SmallerSubset ==
  ASSUME NEW S, IsFiniteSet(S), NEW s \in SUBSET S, NEW x \in s, NEW n \in Nat,
         Cardinality(s) <= n + 1
  PROVE  s \ {x} \in SUBSET S /\ Cardinality(s \ {x}) <= n
<1>1. IsFiniteSet(s)
  BY FS_Subset
<1>2. Cardinality(s \ {x}) = Cardinality(s) - 1 /\ Cardinality(s) \in Nat
  BY <1>1, FS_RemoveElement, FS_CardinalityType
<1> QED  BY <1>2

LEMMA FoldExists ==
  ASSUME NEW S, IsFiniteSet(S), NEW D, NEW base \in D, NEW G \in [S \X D -> D],
         NEW ch, Picks(ch, S)
  PROVE  \E r : IsFold(r, S, D, base, G, ch)
<1> DEFINE Good(r, n) == \A s \in SUBSET S : Cardinality(s) <= n => r[s] = FoldStep(r, s, base, G, ch)
           T == {n \in Nat : \E r \in [SUBSET S -> D] : Good(r, n)}
<1>1. 0 \in T
  <2> DEFINE r == [s \in SUBSET S |-> base]
  <2>1. ASSUME NEW s \in SUBSET S, Cardinality(s) <= 0 PROVE s = {}
    <3>1. IsFiniteSet(s)
      BY FS_Subset
    <3> QED  BY <3>1, <2>1, FS_EmptySet, FS_CardinalityType
  <2>2. Good(r, 0)
    BY <2>1 DEF FoldStep
  <2> QED  BY <2>2
<1>2. ASSUME NEW n \in Nat, n \in T PROVE n + 1 \in T
  <2>1. PICK r \in [SUBSET S -> D] : Good(r, n)
    BY <1>2
  <2> DEFINE q == [s \in SUBSET S |-> FoldStep(r, s, base, G, ch)]
  <2>2. \A s \in SUBSET S : FoldStep(r, s, base, G, ch) \in D
    <3>1. ASSUME NEW s \in SUBSET S, s # {} PROVE G[<<ch[s], r[s \ {ch[s]}]>>] \in D
      <4>1. ch[s] \in S /\ s \ {ch[s]} \in SUBSET S
        BY <3>1 DEF Picks
      <4> QED  BY <4>1
    <3> QED  BY <3>1 DEF FoldStep
  <2>3. q \in [SUBSET S -> D]
    BY <2>2
  <2>4. ASSUME NEW s \in SUBSET S, Cardinality(s) <= n + 1
        PROVE  q[s] = FoldStep(q, s, base, G, ch)
    <3>1. CASE s = {}
      BY <3>1 DEF FoldStep
    <3>2. CASE s # {}
      <4>1. s \ {ch[s]} \in SUBSET S /\ Cardinality(s \ {ch[s]}) <= n
        BY <3>2, <2>4, SmallerSubset DEF Picks
      <4>2. q[s \ {ch[s]}] = r[s \ {ch[s]}]
        BY <4>1, <2>1
      <4> QED  BY <4>2, <3>2 DEF FoldStep
    <3> QED  BY <3>1, <3>2
  <2> HIDE DEF q
  <2> QED  BY <2>3, <2>4
<1> HIDE DEF T
<1>3. Nat \subseteq T
  BY <1>1, <1>2, Induction
<1> USE DEF T
<1>4. Cardinality(S) \in Nat
  BY FS_CardinalityType
<1>5. PICK r \in [SUBSET S -> D] : Good(r, Cardinality(S))
  BY <1>3, <1>4
<1>6. \A s \in SUBSET S : Cardinality(s) <= Cardinality(S)
  BY FS_Subset
<1> QED  BY <1>5, <1>6 DEF IsFold

\* What holds of the empty set, and of a set when it holds of what is left
\* after ch, holds of every subset.
LEMMA SubsetInduction ==
  ASSUME NEW S, IsFiniteSet(S), NEW ch, NEW T, Picks(ch, S), Closed(T, ch, S)
  PROVE  SUBSET S \subseteq T
<1> DEFINE N == {n \in Nat : \A s \in SUBSET S : Cardinality(s) <= n => s \in T}
<1>1. 0 \in N
  <2>1. ASSUME NEW s \in SUBSET S, Cardinality(s) <= 0 PROVE s = {}
    <3>1. IsFiniteSet(s)
      BY FS_Subset
    <3> QED  BY <3>1, <2>1, FS_EmptySet, FS_CardinalityType
  <2> QED  BY <2>1 DEF Closed
<1>2. ASSUME NEW n \in Nat, n \in N PROVE n + 1 \in N
  <2>1. ASSUME NEW s \in SUBSET S, Cardinality(s) <= n + 1, s # {} PROVE s \ {ch[s]} \in T
    <3>1. s \ {ch[s]} \in SUBSET S /\ Cardinality(s \ {ch[s]}) <= n
      BY <2>1, SmallerSubset DEF Picks
    <3> QED  BY <3>1, <1>2
  <2>2. \A s \in SUBSET S : Cardinality(s) <= n + 1 => s \in T
    BY <2>1 DEF Closed
  <2> QED  BY <2>2
<1> HIDE DEF N
<1>3. Nat \subseteq N
  BY <1>1, <1>2, Induction
<1> USE DEF N
<1>4. ASSUME NEW s \in SUBSET S PROVE s \in T
  <2>1. Cardinality(s) \in Nat
    BY FS_Subset, FS_CardinalityType
  <2> QED  BY <2>1, <1>3
<1> QED  BY <1>4

-----------------------------------------------------------------------------
(* Sums of a function over a finite set *)

Chosen(s) == CHOOSE x \in s : TRUE

LEMMA SumEquation ==
  ASSUME NEW S, IsFiniteSet(S), NEW f, \A x \in S : f[x] \in Int
  PROVE  /\ SumFunctionOnSet(f, S) \in Int
         /\ S = {} => SumFunctionOnSet(f, S) = 0
         /\ S # {} => SumFunctionOnSet(f, S) = f[Chosen(S)] + SumFunctionOnSet(f, S \ {Chosen(S)})
<1> DEFINE G == [x \in S \X Int |-> f[x[1]] + x[2]]
           ch == [s \in SUBSET S |-> Chosen(s)]
<1>1. G \in [S \X Int -> Int]
  OBVIOUS
<1>2. \A s \in SUBSET S : ch[s] = Chosen(s) /\ (s # {} => ch[s] \in s)
  BY DEF Chosen
<1>3. PICK r : IsFold(r, S, Int, 0, G, ch)
  <2> HIDE DEF G, ch
  <2>1. Picks(ch, S) /\ 0 \in Int
    BY <1>2 DEF Picks
  <2> QED  BY <1>1, <2>1, FoldExists
<1>4. ASSUME NEW s \in SUBSET S
      PROVE  r[s] = IF s = {} THEN 0 ELSE f[Chosen(s)] + r[s \ {Chosen(s)}]
  <2>1. r[s] = FoldStep(r, s, 0, G, ch)
    BY <1>3 DEF IsFold
  <2>2. s # {} => ch[s] = Chosen(s) /\ <<Chosen(s), r[s \ {Chosen(s)}]>> \in S \X Int
    BY <1>2, <1>3 DEF IsFold
  <2> QED  BY <2>1, <2>2 DEF FoldStep
<1> HIDE DEF G, ch
<1>5. ASSUME NEW U \in SUBSET S
      PROVE  SumFunctionOnSet(f, U) = r[U]
  <2> DEFINE E(q) == q = [s \in SUBSET U |-> IF s = {} THEN 0 ELSE f[Chosen(s)] + q[s \ {Chosen(s)}]]
             q == CHOOSE q : E(q)
             T == {s \in SUBSET U : q[s] = r[s]}
  <2>1. SumFunctionOnSet(f, U) = q[U]
    BY DEF SumFunctionOnSet, FoldFunctionOnSet, MapThenFoldSet, Chosen
  <2>2. \A s \in SUBSET U : s \in SUBSET S /\ (s # {} => s \ {Chosen(s)} \in SUBSET U)
    OBVIOUS
  <2>3. E([s \in SUBSET U |-> r[s]])
    BY <1>4, <2>2
  <2>4. E(q)
    BY <2>3
  <2> HIDE DEF q
  <2>5. \A s \in SUBSET U : q[s] = IF s = {} THEN 0 ELSE f[Chosen(s)] + q[s \ {Chosen(s)}]
    BY <2>4
  <2>6. Closed(T, ch, U)
    <3>1. ASSUME NEW s \in SUBSET U, s = {} \/ s \ {ch[s]} \in T PROVE q[s] = r[s]
      <4>1. s \in SUBSET S /\ ch[s] = Chosen(s)
        BY <1>2, <2>2
      <4>2. s = {} \/ q[s \ {Chosen(s)}] = r[s \ {Chosen(s)}]
        BY <3>1, <4>1
      <4> QED  BY <4>1, <4>2, <2>5, <1>4
    <3> QED  BY <3>1 DEF Closed
  <2>7. Picks(ch, U)
    BY <1>2 DEF Picks
  <2>8. IsFiniteSet(U)
    BY FS_Subset
  <2> HIDE DEF T
  <2>9. SUBSET U \subseteq T
    BY <2>6, <2>7, <2>8, SubsetInduction
  <2> USE DEF T
  <2> QED  BY <2>1, <2>9
<1>6. SumFunctionOnSet(f, S) = r[S] /\ SumFunctionOnSet(f, S \ {Chosen(S)}) = r[S \ {Chosen(S)}]
  BY <1>5
<1> QED  BY <1>3, <1>4, <1>6 DEF IsFold

LEMMA SumType ==
  ASSUME NEW S, IsFiniteSet(S), NEW f, \A x \in S : f[x] \in Int
  PROVE  SumFunctionOnSet(f, S) \in Int
  BY SumEquation

LEMMA SumEmpty ==
  ASSUME NEW f
  PROVE  SumFunctionOnSet(f, {}) = 0
  BY SumEquation, FS_EmptySet

\* Whichever element is taken off.
LEMMA SumElement ==
  ASSUME NEW S, IsFiniteSet(S), NEW f, \A x \in S : f[x] \in Int, NEW a \in S
  PROVE  SumFunctionOnSet(f, S) = f[a] + SumFunctionOnSet(f, S \ {a})
<1> DEFINE Sum(s) == SumFunctionOnSet(f, s)
           T == {n \in Nat : \A s \in SUBSET S : Cardinality(s) <= n =>
                               \A x \in s : Sum(s) = f[x] + Sum(s \ {x})}
<1>1. \A s \in SUBSET S : Sum(s) \in Int /\ (s # {} => Sum(s) = f[Chosen(s)] + Sum(s \ {Chosen(s)}))
  <2>1. ASSUME NEW s \in SUBSET S PROVE IsFiniteSet(s) /\ \A x \in s : f[x] \in Int
    BY FS_Subset
  <2> QED  BY <2>1, SumEquation
<1>2. 0 \in T
  <2>1. ASSUME NEW s \in SUBSET S, Cardinality(s) <= 0 PROVE s = {}
    <3>1. IsFiniteSet(s)
      BY FS_Subset
    <3> QED  BY <3>1, <2>1, FS_EmptySet, FS_CardinalityType
  <2> QED  BY <2>1
<1>3. ASSUME NEW n \in Nat, n \in T PROVE n + 1 \in T
  <2>1. ASSUME NEW s \in SUBSET S, Cardinality(s) <= n + 1, NEW x \in s
        PROVE  Sum(s) = f[x] + Sum(s \ {x})
    <3> DEFINE c == Chosen(s)
    <3>1. c \in s /\ Sum(s) = f[c] + Sum(s \ {c})
      BY <1>1 DEF Chosen
    <3>2. CASE x # c
      <4>1. /\ s \ {c} \in SUBSET S /\ Cardinality(s \ {c}) <= n
            /\ s \ {x} \in SUBSET S /\ Cardinality(s \ {x}) <= n
        BY <3>1, <2>1, SmallerSubset
      <4>2. Sum(s \ {c}) = f[x] + Sum((s \ {c}) \ {x})
        BY <4>1, <3>2, <1>3
      <4>3. Sum(s \ {x}) = f[c] + Sum((s \ {x}) \ {c})
        BY <4>1, <3>1, <3>2, <1>3
      <4>4. (s \ {x}) \ {c} = (s \ {c}) \ {x}
        OBVIOUS
      <4>5. f[c] \in Int /\ f[x] \in Int /\ Sum((s \ {c}) \ {x}) \in Int
        BY <1>1, <3>1
      <4> DEFINE left == Sum((s \ {c}) \ {x})
      <4>6. Sum(s \ {x}) = f[c] + left /\ Sum(s) = f[c] + (f[x] + left)
        BY <3>1, <4>2, <4>3, <4>4, Zenon
      <4> HIDE DEF c, left
      <4> QED  BY <4>5, <4>6 DEF left
    <3> QED  BY <3>1, <3>2
  <2>2. \A s \in SUBSET S : Cardinality(s) <= n + 1 =>
          \A x \in s : Sum(s) = f[x] + Sum(s \ {x})
    BY <2>1
  <2> QED  BY <2>2
<1> HIDE DEF T
<1>4. Nat \subseteq T
  BY <1>2, <1>3, Induction
<1> USE DEF T
<1>5. Cardinality(S) \in T
  BY <1>4, FS_CardinalityType
<1>6. S \in SUBSET S /\ Cardinality(S) <= Cardinality(S)
  BY FS_CardinalityType
<1> QED  BY <1>5, <1>6

LEMMA SumSame ==
  ASSUME NEW S, IsFiniteSet(S), NEW f, NEW g, \A x \in S : f[x] \in Int /\ g[x] = f[x]
  PROVE  SumFunctionOnSet(g, S) = SumFunctionOnSet(f, S)
<1> DEFINE ch == [s \in SUBSET S |-> Chosen(s)]
           T == {s \in SUBSET S : SumFunctionOnSet(g, s) = SumFunctionOnSet(f, s)}
<1>1. \A s \in SUBSET S : ch[s] = Chosen(s) /\ (s # {} => ch[s] \in s)
  BY DEF Chosen
<1> HIDE DEF ch
<1>2. ASSUME NEW s \in SUBSET S, s = {} \/ s \ {ch[s]} \in T
      PROVE  SumFunctionOnSet(g, s) = SumFunctionOnSet(f, s)
  <2>1. CASE s = {}
    BY <2>1, SumEmpty
  <2>2. CASE s # {}
    <3>1. IsFiniteSet(s) /\ \A x \in s : f[x] \in Int /\ g[x] \in Int
      BY FS_Subset
    <3>2. ch[s] \in s /\ f[ch[s]] = g[ch[s]]
      BY <1>1, <2>2
    <3>3. SumFunctionOnSet(f, s) = f[ch[s]] + SumFunctionOnSet(f, s \ {ch[s]})
      BY <3>1, <3>2, SumElement
    <3>4. SumFunctionOnSet(g, s) = g[ch[s]] + SumFunctionOnSet(g, s \ {ch[s]})
      BY <3>1, <3>2, SumElement
    <3> QED  BY <1>2, <2>2, <3>2, <3>3, <3>4
  <2> QED  BY <2>1, <2>2
<1>3. Picks(ch, S) /\ Closed(T, ch, S)
  BY <1>1, <1>2 DEF Picks, Closed
<1> HIDE DEF T
<1>4. SUBSET S \subseteq T
  BY <1>3, SubsetInduction
<1> USE DEF T
<1> QED  BY <1>4

\* What one element adds.
LEMMA SumOne ==
  ASSUME NEW S, IsFiniteSet(S), NEW f, NEW g, NEW a \in S,
         \A x \in S : f[x] \in Int /\ g[x] \in Int /\ (x # a => g[x] = f[x])
  PROVE  SumFunctionOnSet(g, S) = SumFunctionOnSet(f, S) + g[a] - f[a]
<1>1. IsFiniteSet(S \ {a})
  BY FS_Subset
<1>2. SumFunctionOnSet(g, S \ {a}) = SumFunctionOnSet(f, S \ {a})
  BY <1>1, SumSame
<1>3. SumFunctionOnSet(f, S) = f[a] + SumFunctionOnSet(f, S \ {a})
  BY SumElement
<1>4. SumFunctionOnSet(g, S) = g[a] + SumFunctionOnSet(g, S \ {a})
  BY SumElement
<1>5. SumFunctionOnSet(f, S \ {a}) \in Int
  BY <1>1, SumType
<1> QED  BY <1>2, <1>3, <1>4, <1>5

\* What two elements add.
TwoDiffer(S, f, g, a, b) ==
  /\ a \in S /\ b \in S /\ a # b
  /\ \A x \in S : f[x] \in Int /\ g[x] \in Int /\ (x \notin {a, b} => g[x] = f[x])

LEMMA SumTwo ==
  ASSUME NEW S, IsFiniteSet(S), NEW f, NEW g, NEW a, NEW b, TwoDiffer(S, f, g, a, b)
  PROVE  SumFunctionOnSet(g, S) = SumFunctionOnSet(f, S) + (g[a] - f[a]) + (g[b] - f[b])
<1>0. /\ a \in S /\ b \in S /\ a # b
      /\ \A x \in S : f[x] \in Int /\ g[x] \in Int /\ (x \notin {a, b} => g[x] = f[x])
  BY DEF TwoDiffer
<1> DEFINE h == [x \in S |-> IF x = a THEN g[x] ELSE f[x]]
<1>1. \A x \in S : h[x] \in Int /\ (x # a => h[x] = f[x]) /\ (x # b => g[x] = h[x])
  BY <1>0
<1>2. h[a] = g[a] /\ h[b] = f[b]
  BY <1>0
<1> HIDE DEF h
<1>3. SumFunctionOnSet(h, S) = SumFunctionOnSet(f, S) + h[a] - f[a]
  BY <1>0, <1>1, SumOne
<1>4. SumFunctionOnSet(g, S) = SumFunctionOnSet(h, S) + g[b] - h[b]
  BY <1>0, <1>1, SumOne
<1>5. SumFunctionOnSet(f, S) \in Int /\ f[a] \in Int /\ f[b] \in Int /\ g[a] \in Int /\ g[b] \in Int
  BY <1>0, SumType
<1> QED  BY <1>2, <1>3, <1>4, <1>5
\* What does not count may be left out.
LEMMA SumWithin ==
  ASSUME NEW S, IsFiniteSet(S), NEW f, \A x \in S : f[x] \in Int,
         NEW U \in SUBSET S, \A x \in S \ U : f[x] = 0
  PROVE  SumFunctionOnSet(f, S) = SumFunctionOnSet(f, U)
<1> DEFINE ch == [s \in SUBSET S |-> Chosen(s)]
           T == {s \in SUBSET S : SumFunctionOnSet(f, s) = SumFunctionOnSet(f, s \cap U)}
<1>1. \A s \in SUBSET S : ch[s] = Chosen(s) /\ (s # {} => ch[s] \in s)
  BY DEF Chosen
<1> HIDE DEF ch
<1>2. ASSUME NEW s \in SUBSET S, s = {} \/ s \ {ch[s]} \in T
      PROVE  SumFunctionOnSet(f, s) = SumFunctionOnSet(f, s \cap U)
  <2>1. CASE s = {}
    <3>1. s \cap U = s
      BY <2>1
    <3> QED  BY <3>1
  <2>2. CASE s # {}
    <3> DEFINE x == ch[s]
    <3>1. x \in s
      BY <1>1, <2>2
    <3>2. IsFiniteSet(s) /\ IsFiniteSet(s \cap U) /\ \A y \in s : f[y] \in Int
      BY FS_Subset
    <3>3. SumFunctionOnSet(f, s) = f[x] + SumFunctionOnSet(f, s \ {x})
      BY <3>1, <3>2, SumElement
    <3>4. SumFunctionOnSet(f, s \ {x}) = SumFunctionOnSet(f, (s \ {x}) \cap U)
      BY <1>2, <2>2
    <3>5. SumFunctionOnSet(f, s \cap U) \in Int
      BY <3>2, SumType
    <3> HIDE DEF x
    <3>6. CASE x \in U
      <4>1. x \in s \cap U /\ \A y \in s \cap U : f[y] \in Int
        BY <3>1, <3>2, <3>6
      <4>2. SumFunctionOnSet(f, s \cap U) = f[x] + SumFunctionOnSet(f, (s \cap U) \ {x})
        BY <3>2, <4>1, SumElement
      <4>3. (s \ {x}) \cap U = (s \cap U) \ {x}
        OBVIOUS
      <4> QED  BY <3>3, <3>4, <4>2, <4>3
    <3>7. CASE x \notin U
      <4>1. (s \ {x}) \cap U = s \cap U
        BY <3>7
      <4>2. f[x] = 0
        BY <3>1, <3>7
      <4>3. SumFunctionOnSet(f, s) = 0 + SumFunctionOnSet(f, s \cap U)
        BY <3>3, <3>4, <4>1, <4>2, Zenon
      <4> QED  BY <3>5, <4>3
    <3> QED  BY <3>6, <3>7
  <2> QED  BY <2>1, <2>2
<1>3. Picks(ch, S) /\ Closed(T, ch, S)
  BY <1>1, <1>2 DEF Picks, Closed
<1> HIDE DEF T
<1>4. SUBSET S \subseteq T
  BY <1>3, SubsetInduction
<1>5. S \in T
  BY <1>4
<1>6. S \cap U = U
  OBVIOUS
<1> USE DEF T
<1> QED  BY <1>5, <1>6

\* Whatever adds up one element after the other is the sum.
LEMMA SumIs ==
  ASSUME NEW S, IsFiniteSet(S), NEW f, \A x \in S : f[x] \in Int,
         NEW it, it[{}] = 0, \A s \in SUBSET S : s # {} => it[s] = f[Chosen(s)] + it[s \ {Chosen(s)}]
  PROVE  it[S] = SumFunctionOnSet(f, S)
<1> DEFINE ch == [s \in SUBSET S |-> Chosen(s)]
           T == {s \in SUBSET S : it[s] = SumFunctionOnSet(f, s)}
<1>1. \A s \in SUBSET S : ch[s] = Chosen(s) /\ (s # {} => ch[s] \in s)
  BY DEF Chosen
<1> HIDE DEF ch
<1>2. ASSUME NEW s \in SUBSET S, s = {} \/ s \ {ch[s]} \in T
      PROVE  it[s] = SumFunctionOnSet(f, s)
  <2>1. CASE s = {}
    BY <2>1, SumEmpty
  <2>2. CASE s # {}
    <3>1. IsFiniteSet(s) /\ \A x \in s : f[x] \in Int
      BY FS_Subset
    <3>2. ch[s] \in s /\ ch[s] = Chosen(s)
      BY <1>1, <2>2
    <3>3. SumFunctionOnSet(f, s) = f[ch[s]] + SumFunctionOnSet(f, s \ {ch[s]})
      BY <3>1, <3>2, SumElement
    <3>4. it[s] = f[ch[s]] + it[s \ {ch[s]}]
      BY <2>2, <3>2
    <3> QED  BY <1>2, <2>2, <3>3, <3>4
  <2> QED  BY <2>1, <2>2
<1>3. Picks(ch, S) /\ Closed(T, ch, S)
  BY <1>1, <1>2 DEF Picks, Closed
<1> HIDE DEF T
<1>4. SUBSET S \subseteq T
  BY <1>3, SubsetInduction
<1>5. S \in T
  BY <1>4
<1> USE DEF T
<1> QED  BY <1>5

-----------------------------------------------------------------------------
(* Folds over a sequence q from the left: h[i] is what G has made of f and   *)
(* the first i elements.                                                     *)

Folds(G, D, E) == G \in [D \X E -> D]
IsRun(h, f, q, G) == h[0] = f /\ \A i \in 1 .. Len(q) : h[i] = G[<<h[i - 1], q[i]>>]
Outcome(G, f, q) == (CHOOSE h : IsRun(h, f, q, G))[Len(q)]

LEMMA RunExists ==
  ASSUME NEW D, NEW E, NEW G, Folds(G, D, E), NEW f \in D, NEW q \in Seq(E)
  PROVE  \E h \in [0 .. Len(q) -> D] : IsRun(h, f, q, G)
<1> USE DEF Folds
<1> DEFINE Good(h, n) == h[0] = f /\ \A i \in 1 .. n : h[i] = G[<<h[i - 1], q[i]>>]
           T == {n \in Nat : n <= Len(q) => \E h \in [0 .. n -> D] : Good(h, n)}
<1>1. 0 \in T
  <2>1. Good([i \in 0 .. 0 |-> f], 0) /\ [i \in 0 .. 0 |-> f] \in [0 .. 0 -> D]
    OBVIOUS
  <2> QED  BY <2>1
<1>2. ASSUME NEW n \in Nat, n \in T PROVE n + 1 \in T
  <2> SUFFICES ASSUME n + 1 <= Len(q) PROVE \E h \in [0 .. (n + 1) -> D] : Good(h, n + 1)
    OBVIOUS
  <2>1. PICK h \in [0 .. n -> D] : Good(h, n)
    BY <1>2
  <2> DEFINE k == [i \in 0 .. (n + 1) |-> IF i = n + 1 THEN G[<<h[n], q[n + 1]>>] ELSE h[i]]
  <2>2. q[n + 1] \in E /\ h[n] \in D
    BY ElementOfSeq
  <2>3. G[<<h[n], q[n + 1]>>] \in D
    BY <2>2
  <2>4. k \in [0 .. (n + 1) -> D]
    BY <2>3
  <2>5. \A i \in 0 .. n : k[i] = h[i]
    OBVIOUS
  <2>6. k[n + 1] = G[<<h[n], q[n + 1]>>]
    OBVIOUS
  <2> HIDE DEF k
  <2>7. Good(k, n + 1)
    <3>1. k[0] = f
      BY <2>1, <2>5
    <3>2. ASSUME NEW i \in 1 .. (n + 1) PROVE k[i] = G[<<k[i - 1], q[i]>>]
      <4>1. CASE i = n + 1
        <5>1. i - 1 = n /\ n \in 0 .. n
          BY <4>1
        <5>2. k[n] = h[n]
          BY <5>1, <2>5
        <5> QED  BY <4>1, <5>1, <5>2, <2>6
      <4>2. CASE i # n + 1
        BY <4>2, <2>1, <2>5
      <4> QED  BY <4>1, <4>2
    <3> QED  BY <3>1, <3>2
  <2> QED  BY <2>4, <2>7
<1> HIDE DEF T
<1>3. Nat \subseteq T
  BY <1>1, <1>2, Induction
<1> USE DEF T
<1>4. Len(q) \in T
  BY <1>3, LenProperties
<1>5. PICK h \in [0 .. Len(q) -> D] : Good(h, Len(q))
  BY <1>4, LenProperties
<1> QED  BY <1>5 DEF IsRun

LEMMA RunUnique ==
  ASSUME NEW G, NEW f, NEW q, Len(q) \in Nat,
         NEW h, IsRun(h, f, q, G), NEW k, IsRun(k, f, q, G)
  PROVE  \A i \in 0 .. Len(q) : h[i] = k[i]
<1> DEFINE T == {n \in Nat : n <= Len(q) => h[n] = k[n]}
<1>1. 0 \in T
  BY DEF IsRun
<1>2. ASSUME NEW n \in Nat, n \in T PROVE n + 1 \in T
  <2> SUFFICES ASSUME n + 1 <= Len(q) PROVE h[n + 1] = k[n + 1]
    OBVIOUS
  <2>1. h[n] = k[n] /\ n + 1 \in 1 .. Len(q) /\ (n + 1) - 1 = n
    BY <1>2
  <2> QED  BY <2>1 DEF IsRun
<1> HIDE DEF T
<1>3. Nat \subseteq T
  BY <1>1, <1>2, Induction
<1> USE DEF T
<1> QED  BY <1>3

LEMMA OutcomeIs ==
  ASSUME NEW G, NEW f, NEW q, Len(q) \in Nat, NEW h, IsRun(h, f, q, G)
  PROVE  Outcome(G, f, q) = h[Len(q)]
<1> DEFINE k == CHOOSE k : IsRun(k, f, q, G)
<1>1. IsRun(k, f, q, G)
  OBVIOUS
<1> HIDE DEF k
<1>2. k[Len(q)] = h[Len(q)]
  BY <1>1, RunUnique
<1> QED  BY <1>2 DEF Outcome, k

\* What holds of f, and after each element when it held before, holds at the end.
LEMMA OutcomeIn ==
  ASSUME NEW D, NEW E, NEW G, Folds(G, D, E), NEW f \in D, NEW q \in Seq(E),
         NEW T, f \in T[0],
         \A i \in 1 .. Len(q) : \A d \in D : d \in T[i - 1] => G[<<d, q[i]>>] \in T[i]
  PROVE  Outcome(G, f, q) \in D /\ Outcome(G, f, q) \in T[Len(q)]
<1> USE DEF Folds
<1>1. PICK h \in [0 .. Len(q) -> D] : IsRun(h, f, q, G)
  BY RunExists
<1> DEFINE N == {n \in Nat : n <= Len(q) => h[n] \in T[n]}
<1>2. 0 \in N
  BY <1>1 DEF IsRun
<1>3. ASSUME NEW n \in Nat, n \in N PROVE n + 1 \in N
  <2> SUFFICES ASSUME n + 1 <= Len(q) PROVE h[n + 1] \in T[n + 1]
    OBVIOUS
  <2>1. h[n] \in T[n] /\ n + 1 \in 1 .. Len(q) /\ (n + 1) - 1 = n /\ h[n] \in D
    BY <1>3
  <2> QED  BY <2>1, <1>1 DEF IsRun
<1> HIDE DEF N
<1>4. Nat \subseteq N
  BY <1>2, <1>3, Induction
<1> USE DEF N
<1>5. Len(q) \in Nat
  BY LenProperties
<1>6. Outcome(G, f, q) = h[Len(q)]
  BY <1>1, <1>5, OutcomeIs
<1> QED  BY <1>4, <1>5, <1>6

LEMMA OutcomeType ==
  ASSUME NEW D, NEW E, NEW G, Folds(G, D, E), NEW f \in D, NEW q \in Seq(E)
  PROVE  Outcome(G, f, q) \in D
<1> USE DEF Folds
<1>1. PICK h \in [0 .. Len(q) -> D] : IsRun(h, f, q, G)
  BY RunExists
<1> QED  BY <1>1, OutcomeIs, LenProperties

LEMMA OutcomeEmpty ==
  ASSUME NEW G, NEW f
  PROVE  Outcome(G, f, <<>>) = f
<1>1. IsRun([i \in {0} |-> f], f, <<>>, G)
  BY DEF IsRun
<1> QED  BY <1>1, OutcomeIs

LEMMA OutcomeAppend ==
  ASSUME NEW D, NEW E, NEW G, Folds(G, D, E), NEW f \in D, NEW q \in Seq(E), NEW e \in E
  PROVE  Outcome(G, f, Append(q, e)) = G[<<Outcome(G, f, q), e>>]
<1> USE DEF Folds
<1> DEFINE r == Append(q, e)
           n == Len(q)
<1>1. r \in Seq(E) /\ Len(r) = n + 1 /\ n \in Nat /\ r[n + 1] = e /\ \A i \in 1 .. n : r[i] = q[i]
  BY AppendProperties
<1> HIDE DEF r
<1>2. PICK h \in [0 .. Len(r) -> D] : IsRun(h, f, r, G)
  BY <1>1, RunExists
<1>3. IsRun(h, f, q, G)
  BY <1>1, <1>2 DEF IsRun
<1>4. Outcome(G, f, r) = h[n + 1] /\ Outcome(G, f, q) = h[n]
  BY <1>1, <1>2, <1>3, OutcomeIs
<1>5. n + 1 \in 1 .. Len(r) /\ (n + 1) - 1 = n
  BY <1>1
<1> QED  BY <1>1, <1>2, <1>4, <1>5 DEF IsRun, r

LEMMA OutcomeTail ==
  ASSUME NEW D, NEW E, NEW G, Folds(G, D, E), NEW f \in D, NEW q \in Seq(E), q # <<>>
  PROVE  Outcome(G, G[<<f, Head(q)>>], Tail(q)) = Outcome(G, f, q)
<1> USE DEF Folds
<1> DEFINE r == Tail(q)
           n == Len(r)
           b == G[<<f, Head(q)>>]
<1>1. /\ r \in Seq(E) /\ Len(q) = n + 1 /\ n \in Nat /\ Head(q) = q[1]
      /\ \A i \in 1 .. n : r[i] = q[i + 1]
  BY HeadTailProperties, EmptySeq, LenProperties
<1> HIDE DEF r
<1>2. PICK h \in [0 .. Len(q) -> D] : IsRun(h, f, q, G)
  BY RunExists
<1> DEFINE k == [i \in 0 .. n |-> h[i + 1]]
<1>3. \A i \in 0 .. n : k[i] = h[i + 1]
  OBVIOUS
<1>4. IsRun(k, b, r, G)
  <2> HIDE DEF k
  <2>1. k[0] = b
    <3>1. h[1] = G[<<h[1 - 1], q[1]>>] /\ h[0] = f /\ 1 - 1 = 0
      BY <1>1, <1>2 DEF IsRun
    <3> QED  BY <3>1, <1>1, <1>3
  <2>2. ASSUME NEW i \in 1 .. n PROVE k[i] = G[<<k[i - 1], r[i]>>]
    <3>1. i + 1 \in 1 .. Len(q) /\ (i + 1) - 1 = i /\ i \in 0 .. n /\ i - 1 \in 0 .. n /\ (i - 1) + 1 = i
      BY <1>1
    <3>2. h[i + 1] = G[<<h[i], q[i + 1]>>]
      BY <3>1, <1>2 DEF IsRun
    <3> QED  BY <3>1, <3>2, <1>1, <1>3
  <2> QED  BY <2>1, <2>2 DEF IsRun
<1>5. k[n] = h[n + 1]
  BY <1>1
<1> HIDE DEF k, b
<1>6. Outcome(G, b, r) = k[n] /\ Outcome(G, f, q) = h[n + 1]
  BY <1>1, <1>2, <1>4, OutcomeIs
<1> QED  BY <1>5, <1>6 DEF b, r

LEMMA OutcomeConcat ==
  ASSUME NEW D, NEW E, NEW G, Folds(G, D, E), NEW f \in D, NEW q \in Seq(E), NEW r \in Seq(E)
  PROVE  Outcome(G, f, q \o r) = Outcome(G, Outcome(G, f, q), r)
<1> USE DEF Folds
<1> DEFINE s == q \o r
           n == Len(q)
<1>1. /\ s \in Seq(E) /\ n \in Nat /\ Len(r) \in Nat /\ Len(s) = n + Len(r)
      /\ \A i \in 1 .. n : s[i] = q[i]
      /\ \A i \in 1 .. Len(r) : s[n + i] = r[i]
  BY ConcatProperties, LenProperties
<1> HIDE DEF s
<1>2. PICK h \in [0 .. Len(s) -> D] : IsRun(h, f, s, G)
  BY <1>1, RunExists
<1>3. IsRun(h, f, q, G)
  BY <1>1, <1>2 DEF IsRun
<1> DEFINE k == [i \in 0 .. Len(r) |-> h[n + i]]
<1>4. \A i \in 0 .. Len(r) : k[i] = h[n + i]
  OBVIOUS
<1> HIDE DEF k
<1>5. IsRun(k, h[n], r, G)
  <2>1. k[0] = h[n]
    BY <1>1, <1>4
  <2>2. ASSUME NEW i \in 1 .. Len(r) PROVE k[i] = G[<<k[i - 1], r[i]>>]
    <3>1. /\ n + i \in 1 .. Len(s) /\ (n + i) - 1 = n + (i - 1)
          /\ i \in 0 .. Len(r) /\ i - 1 \in 0 .. Len(r)
      BY <1>1
    <3>2. h[n + i] = G[<<h[n + (i - 1)], s[n + i]>>]
      BY <3>1, <1>2 DEF IsRun
    <3> QED  BY <3>1, <3>2, <1>1, <1>4
  <2> QED  BY <2>1, <2>2 DEF IsRun
<1>6. Outcome(G, f, q) = h[n] /\ Outcome(G, f, s) = h[n + Len(r)]
  <2> HIDE DEF n
  <2>1. Outcome(G, f, s) = h[Len(s)]
    <3>1. Len(s) \in Nat
      BY <1>1
    <3> QED  BY <3>1, <1>2, OutcomeIs
  <2>2. Outcome(G, f, q) = h[Len(q)]
    BY <1>3, OutcomeIs, LenProperties
  <2> QED  BY <2>1, <2>2, <1>1 DEF n
<1>7. Outcome(G, h[n], r) = k[Len(r)]
  BY <1>1, <1>5, OutcomeIs
<1> QED  BY <1>1, <1>4, <1>6, <1>7 DEF s

\* The library folds a sequence over the subsets of its domain: it[s] is what
\* becomes of f over the elements at s.
Greatest(s) == CHOOSE x \in s : \A y \in s : x >= y

LEMMA GreatestOf ==
  ASSUME NEW n \in Nat, NEW s \in SUBSET (1 .. n), s # {}
  PROVE  Greatest(s) \in s /\ \A y \in s : Greatest(s) >= y
<1> DEFINE U == {m \in Nat : \A y \in s : y <= m}
<1>1. n \in U
  OBVIOUS
<1>2. PICK m \in U : \A u \in U : m <= u
  BY <1>1, LeastNumber
<1>3. m \in s
  <2> SUFFICES ASSUME m \notin s PROVE FALSE
    OBVIOUS
  <2>1. \A y \in s : y <= m - 1
    BY <1>2
  <2>2. m - 1 \in Nat
    <3>1. PICK y \in s : TRUE
      OBVIOUS
    <3>2. y \in Nat /\ y >= 1 /\ y <= m /\ m \in Nat
      BY <3>1, <1>2
    <3> QED  BY <3>2
  <2> QED  BY <2>1, <2>2, <1>2
<1>4. \E x \in s : \A y \in s : x >= y
  BY <1>2, <1>3
<1> QED  BY <1>4 DEF Greatest

IsSetFold(it, D, G, f, q) ==
  /\ it \in [SUBSET (1 .. Len(q)) -> D]
  /\ \A s \in SUBSET (1 .. Len(q)) :
       it[s] = IF s = {} THEN f ELSE G[<<it[s \ {Greatest(s)}], q[Greatest(s)]>>]

\* The same of an it known to stay in D only as long as G does.
ActsAsFold(it, D, G, f, q) ==
  /\ it[{}] = f
  /\ \A s \in SUBSET (1 .. Len(q)) : s # {} /\ it[s \ {Greatest(s)}] \in D =>
       it[s] = G[<<it[s \ {Greatest(s)}], q[Greatest(s)]>>]

LEMMA SetFoldExists ==
  ASSUME NEW D, NEW E, NEW G, Folds(G, D, E), NEW f \in D, NEW q \in Seq(E)
  PROVE  \E it : IsSetFold(it, D, G, f, q)
<1> USE DEF Folds
<1> DEFINE S == 1 .. Len(q)
           H == [x \in S \X D |-> G[<<x[2], q[x[1]]>>]]
           ch == [s \in SUBSET S |-> Greatest(s)]
<1>1. Len(q) \in Nat /\ \A i \in S : q[i] \in E
  BY LenProperties, ElementOfSeq
<1>2. H \in [S \X D -> D]
  BY <1>1
<1>3. \A s \in SUBSET S : ch[s] = Greatest(s) /\ (s # {} => ch[s] \in s)
  BY <1>1, GreatestOf
<1>4. IsFiniteSet(S)
  BY <1>1, FS_Interval
<1>5. \A i \in S : \A d \in D : H[<<i, d>>] = G[<<d, q[i]>>]
  OBVIOUS
<1> HIDE DEF S, H, ch
<1>6. Picks(ch, S)
  BY <1>3 DEF Picks
<1>7. PICK it : IsFold(it, S, D, f, H, ch)
  BY <1>2, <1>4, <1>6, FoldExists
<1>8. it \in [SUBSET S -> D]
  BY <1>7 DEF IsFold
<1>9. ASSUME NEW s \in SUBSET S
      PROVE  it[s] = IF s = {} THEN f ELSE G[<<it[s \ {Greatest(s)}], q[Greatest(s)]>>]
  <2>1. it[s] = FoldStep(it, s, f, H, ch)
    BY <1>7 DEF IsFold
  <2>2. CASE s = {}
    BY <2>1, <2>2 DEF FoldStep
  <2>3. CASE s # {}
    <3>1. ch[s] = Greatest(s) /\ ch[s] \in S /\ s \ {ch[s]} \in SUBSET S
      BY <2>3, <1>3
    <3>2. it[s \ {ch[s]}] \in D
      BY <3>1, <1>8
    <3>3. it[s] = H[<<ch[s], it[s \ {ch[s]}]>>]
      BY <2>1, <2>3 DEF FoldStep
    <3> QED  BY <2>3, <3>1, <3>2, <3>3, <1>5
  <2> QED  BY <2>2, <2>3
<1> QED  BY <1>8, <1>9 DEF S, IsSetFold

LEMMA SetFoldIsOutcome ==
  ASSUME NEW D, NEW E, NEW G, Folds(G, D, E), NEW f \in D, NEW q \in Seq(E),
         NEW it, ActsAsFold(it, D, G, f, q)
  PROVE  it[1 .. Len(q)] = Outcome(G, f, q)
<1> USE DEF Folds, ActsAsFold
<1>1. PICK h \in [0 .. Len(q) -> D] : IsRun(h, f, q, G)
  BY RunExists
<1> DEFINE T == {n \in Nat : n <= Len(q) => it[1 .. n] = h[n]}
<1>2. 0 \in T
  <2>1. 1 .. 0 = {}
    OBVIOUS
  <2> QED  BY <2>1, <1>1 DEF IsRun
<1>3. ASSUME NEW n \in Nat, n \in T PROVE n + 1 \in T
  <2> SUFFICES ASSUME n + 1 <= Len(q) PROVE it[1 .. (n + 1)] = h[n + 1]
    OBVIOUS
  <2> DEFINE s == 1 .. (n + 1)
  <2>1. s \in SUBSET (1 .. Len(q)) /\ s # {} /\ n + 1 \in s
    BY LenProperties
  <2>2. Greatest(s) = n + 1
    <3>1. Greatest(s) \in s /\ Greatest(s) >= n + 1
      BY <2>1, GreatestOf
    <3> QED  BY <3>1
  <2>3. s \ {n + 1} = 1 .. n
    OBVIOUS
  <2>4. it[1 .. n] = h[n] /\ h[n] \in D
    BY <1>3
  <2>5. h[n + 1] = G[<<h[n], q[n + 1]>>]
    <3>1. n + 1 \in 1 .. Len(q) /\ (n + 1) - 1 = n
      OBVIOUS
    <3> QED  BY <3>1, <1>1 DEF IsRun
  <2> HIDE DEF s
  <2>6. it[s] = G[<<it[s \ {Greatest(s)}], q[Greatest(s)]>>]
    BY <2>1, <2>2, <2>3, <2>4
  <2> QED  BY <2>2, <2>3, <2>4, <2>5, <2>6 DEF s
<1> HIDE DEF T
<1>4. Nat \subseteq T
  BY <1>2, <1>3, Induction
<1> USE DEF T
<1>5. Len(q) \in Nat
  BY LenProperties
<1>6. Outcome(G, f, q) = h[Len(q)]
  BY <1>1, <1>5, OutcomeIs
<1> QED  BY <1>4, <1>5, <1>6
-----------------------------------------------------------------------------
(* What a sequence holds, how often, and in which order                      *)

LEMMA RangeAppend ==
  ASSUME NEW E, NEW q \in Seq(E), NEW e \in E
  PROVE  Append(q, e) \in Seq(E) /\ Range(Append(q, e)) = Range(q) \cup {e}
<1> DEFINE r == Append(q, e)
           n == Len(q)
<1>1. r \in Seq(E) /\ Len(r) = n + 1 /\ n \in Nat /\ r[n + 1] = e /\ \A i \in 1 .. n : r[i] = q[i]
  BY AppendProperties
<1>2. DOMAIN r = 1 .. (n + 1) /\ DOMAIN q = 1 .. n
  BY <1>1, LenProperties
<1> HIDE DEF r, n
<1>3. \A i \in 1 .. (n + 1) : i \in 1 .. n \/ i = n + 1
  BY <1>1
<1>4. n + 1 \in 1 .. (n + 1) /\ \A i \in 1 .. n : i \in 1 .. (n + 1)
  BY <1>1
<1>5. Range(r) = Range(q) \cup {e}
  BY <1>1, <1>2, <1>3, <1>4 DEF Range
<1> QED  BY <1>1, <1>5 DEF r

LEMMA RangeConcat ==
  ASSUME NEW E, NEW q \in Seq(E), NEW r \in Seq(E)
  PROVE  q \o r \in Seq(E) /\ Range(q \o r) = Range(q) \cup Range(r)
<1> DEFINE s == q \o r
           n == Len(q)
           k == Len(r)
<1>1. /\ s \in Seq(E) /\ Len(s) = n + k /\ n \in Nat /\ k \in Nat
      /\ \A i \in 1 .. (n + k) : s[i] = IF i <= n THEN q[i] ELSE r[i - n]
  BY ConcatProperties, LenProperties
<1>2. DOMAIN s = 1 .. (n + k) /\ DOMAIN q = 1 .. n /\ DOMAIN r = 1 .. k
  BY <1>1, LenProperties
<1> HIDE DEF s, n, k
<1>3. \A i \in 1 .. n : i \in 1 .. (n + k) /\ s[i] = q[i]
  BY <1>1
<1>4. \A i \in 1 .. k : n + i \in 1 .. (n + k) /\ s[n + i] = r[i]
  BY <1>1
<1>5. \A i \in 1 .. (n + k) : \/ i \in 1 .. n /\ s[i] = q[i]
                              \/ i - n \in 1 .. k /\ s[i] = r[i - n]
  BY <1>1
<1>6. Range(s) = Range(q) \cup Range(r)
  BY <1>2, <1>3, <1>4, <1>5 DEF Range
<1> QED  BY <1>1, <1>6 DEF s

LEMMA RangeTail ==
  ASSUME NEW E, NEW q \in Seq(E), q # <<>>
  PROVE  /\ Head(q) \in E /\ Tail(q) \in Seq(E)
         /\ Range(q) = {Head(q)} \cup Range(Tail(q))
<1> DEFINE r == Tail(q)
           n == Len(r)
<1>1. /\ r \in Seq(E) /\ Len(q) = n + 1 /\ n \in Nat /\ Head(q) = q[1] /\ Head(q) \in E
      /\ \A i \in 1 .. n : r[i] = q[i + 1]
  BY HeadTailProperties, EmptySeq, LenProperties
<1>2. DOMAIN q = 1 .. (n + 1) /\ DOMAIN r = 1 .. n
  BY <1>1, LenProperties
<1> HIDE DEF r, n
<1>3. \A i \in 1 .. n : i + 1 \in 1 .. (n + 1) /\ r[i] = q[i + 1]
  BY <1>1
<1>4. 1 \in 1 .. (n + 1) /\ \A i \in 1 .. (n + 1) : i = 1 \/ (i - 1 \in 1 .. n /\ r[i - 1] = q[i])
  BY <1>1
<1>5. Range(q) = {Head(q)} \cup Range(r)
  <2>1. ASSUME NEW x \in Range(q) PROVE x \in {Head(q)} \cup Range(r)
    <3>1. PICK i \in 1 .. (n + 1) : x = q[i]
      BY <1>2 DEF Range
    <3>2. CASE i = 1
      BY <1>1, <3>1, <3>2
    <3>3. CASE i - 1 \in 1 .. n /\ r[i - 1] = q[i]
      BY <1>2, <3>1, <3>3 DEF Range
    <3> QED  BY <1>4, <3>1, <3>2, <3>3
  <2>2. Range(r) \subseteq Range(q)
    BY <1>2, <1>3 DEF Range
  <2>3. Head(q) \in Range(q)
    BY <1>1, <1>2, <1>4 DEF Range
  <2> QED  BY <2>1, <2>2, <2>3
<1> QED  BY <1>1, <1>5 DEF r

LEMMA RangeIn ==
  ASSUME NEW E, NEW q \in Seq(E)
  PROVE  Range(q) \subseteq E
  BY LenProperties, ElementOfSeq DEF Range

LEMMA RangeEmpty == Range(<<>>) = {}
  BY DEF Range

\* At most one element of q is in S.
Once(q, S) == \A i, j \in DOMAIN q : q[i] \in S /\ q[j] \in S => i = j

\* Behind x, nothing in q is in S.
Behind(q, x, S) == \A i, j \in DOMAIN q : i < j /\ q[i] = x => q[j] \notin S

LEMMA OnceTail ==
  ASSUME NEW E, NEW q \in Seq(E), q # <<>>, NEW S, Once(q, S)
  PROVE  Once(Tail(q), S) /\ (Head(q) \in S => Range(Tail(q)) \cap S = {})
<1> DEFINE r == Tail(q)
           n == Len(r)
<1>1. /\ r \in Seq(E) /\ Len(q) = n + 1 /\ n \in Nat /\ Head(q) = q[1]
      /\ \A i \in 1 .. n : r[i] = q[i + 1]
  BY HeadTailProperties, EmptySeq, LenProperties
<1>2. DOMAIN q = 1 .. (n + 1) /\ DOMAIN r = 1 .. n
  BY <1>1, LenProperties
<1> HIDE DEF r, n
<1>3. \A i \in 1 .. n : i + 1 \in 1 .. (n + 1) /\ r[i] = q[i + 1] /\ i + 1 # 1
  BY <1>1
<1>4. \A i, j \in 1 .. n : i + 1 = j + 1 => i = j
  BY <1>1
<1>5. 1 \in 1 .. (n + 1)
  BY <1>1
<1>6. Once(r, S)
  BY <1>2, <1>3, <1>4 DEF Once
<1>7. Head(q) \in S => Range(r) \cap S = {}
  BY <1>1, <1>2, <1>3, <1>5 DEF Once, Range
<1> QED  BY <1>6, <1>7 DEF r

LEMMA BehindTail ==
  ASSUME NEW E, NEW q \in Seq(E), q # <<>>, NEW S, NEW x, Behind(q, x, S)
  PROVE  Behind(Tail(q), x, S) /\ (Head(q) = x => Range(Tail(q)) \cap S = {})
<1> DEFINE r == Tail(q)
           n == Len(r)
<1>1. /\ r \in Seq(E) /\ Len(q) = n + 1 /\ n \in Nat /\ Head(q) = q[1]
      /\ \A i \in 1 .. n : r[i] = q[i + 1]
  BY HeadTailProperties, EmptySeq, LenProperties
<1>2. DOMAIN q = 1 .. (n + 1) /\ DOMAIN r = 1 .. n
  BY <1>1, LenProperties
<1> HIDE DEF r, n
<1>3. \A i \in 1 .. n : i + 1 \in 1 .. (n + 1) /\ r[i] = q[i + 1] /\ 1 < i + 1
  BY <1>1
<1>4. \A i, j \in 1 .. n : i < j => i + 1 < j + 1
  BY <1>1
<1>5. 1 \in 1 .. (n + 1)
  BY <1>1
<1>6. Behind(r, x, S)
  BY <1>2, <1>3, <1>4 DEF Behind
<1>7. Head(q) = x => Range(r) \cap S = {}
  BY <1>1, <1>2, <1>3, <1>5 DEF Behind, Range
<1> QED  BY <1>6, <1>7 DEF r

LEMMA OnceConcat ==
  ASSUME NEW E, NEW q \in Seq(E), NEW r \in Seq(E), NEW S, Once(q, S), Once(r, S),
         Range(q) \cap S = {} \/ Range(r) \cap S = {}
  PROVE  Once(q \o r, S)
<1> DEFINE s == q \o r
           n == Len(q)
           k == Len(r)
<1>1. /\ s \in Seq(E) /\ Len(s) = n + k /\ n \in Nat /\ k \in Nat
      /\ \A i \in 1 .. (n + k) : s[i] = IF i <= n THEN q[i] ELSE r[i - n]
  BY ConcatProperties, LenProperties
<1>2. DOMAIN s = 1 .. (n + k) /\ DOMAIN q = 1 .. n /\ DOMAIN r = 1 .. k
  BY <1>1, LenProperties
<1> HIDE DEF s, n, k
<1>3. \A i \in 1 .. (n + k) :
        \/ i \in 1 .. n /\ s[i] = q[i] /\ s[i] \in Range(q)
        \/ i \notin 1 .. n /\ i - n \in 1 .. k /\ s[i] = r[i - n] /\ s[i] \in Range(r)
  <2>1. \A i \in 1 .. (n + k) : \/ i \in 1 .. n /\ s[i] = q[i]
                                \/ i \notin 1 .. n /\ i - n \in 1 .. k /\ s[i] = r[i - n]
    BY <1>1
  <2>2. (\A i \in 1 .. n : q[i] \in Range(q)) /\ (\A i \in 1 .. k : r[i] \in Range(r))
    BY <1>2 DEF Range
  <2> QED  BY <2>1, <2>2
<1>4. ASSUME NEW i \in DOMAIN s, NEW j \in DOMAIN s, s[i] \in S, s[j] \in S
      PROVE  i = j
  <2>1. CASE i \in 1 .. n /\ s[i] = q[i] /\ j \in 1 .. n /\ s[j] = q[j]
    BY <1>2, <1>4, <2>1 DEF Once
  <2>2. CASE i - n \in 1 .. k /\ s[i] = r[i - n] /\ j - n \in 1 .. k /\ s[j] = r[j - n]
    <3>1. i - n = j - n
      BY <1>2, <1>4, <2>2 DEF Once
    <3> QED  BY <1>1, <1>2, <3>1
  <2> QED  BY <1>2, <1>3, <1>4, <2>1, <2>2
<1> QED  BY <1>4 DEF Once, s

LEMMA BehindConcat ==
  ASSUME NEW E, NEW q \in Seq(E), NEW r \in Seq(E), NEW S, NEW x,
         Behind(q, x, S), Behind(r, x, S), x \notin Range(q) \/ Range(r) \cap S = {}
  PROVE  Behind(q \o r, x, S)
<1> DEFINE s == q \o r
           n == Len(q)
           k == Len(r)
<1>1. /\ s \in Seq(E) /\ Len(s) = n + k /\ n \in Nat /\ k \in Nat
      /\ \A i \in 1 .. (n + k) : s[i] = IF i <= n THEN q[i] ELSE r[i - n]
  BY ConcatProperties, LenProperties
<1>2. DOMAIN s = 1 .. (n + k) /\ DOMAIN q = 1 .. n /\ DOMAIN r = 1 .. k
  BY <1>1, LenProperties
<1> HIDE DEF s, n, k
<1>3. \A i \in 1 .. (n + k) :
        \/ i \in 1 .. n /\ s[i] = q[i] /\ s[i] \in Range(q)
        \/ i \notin 1 .. n /\ i - n \in 1 .. k /\ s[i] = r[i - n] /\ s[i] \in Range(r)
  <2>1. \A i \in 1 .. (n + k) : \/ i \in 1 .. n /\ s[i] = q[i]
                                \/ i \notin 1 .. n /\ i - n \in 1 .. k /\ s[i] = r[i - n]
    BY <1>1
  <2>2. (\A i \in 1 .. n : q[i] \in Range(q)) /\ (\A i \in 1 .. k : r[i] \in Range(r))
    BY <1>2 DEF Range
  <2> QED  BY <2>1, <2>2
<1>4. ASSUME NEW i \in DOMAIN s, NEW j \in DOMAIN s, i < j, s[i] = x, s[j] \in S
      PROVE  FALSE
  <2>1. CASE i \in 1 .. n /\ s[i] = q[i] /\ j \in 1 .. n /\ s[j] = q[j]
    BY <1>2, <1>4, <2>1 DEF Behind
  <2>2. CASE i - n \in 1 .. k /\ s[i] = r[i - n] /\ j - n \in 1 .. k /\ s[j] = r[j - n]
    <3>1. i - n < j - n
      BY <1>1, <1>2, <1>4
    <3> QED  BY <1>2, <1>4, <2>2, <3>1 DEF Behind
  <2>3. CASE i \notin 1 .. n /\ j \in 1 .. n
    BY <1>1, <1>2, <1>4, <2>3
  <2> QED  BY <1>2, <1>3, <1>4, <2>1, <2>2, <2>3
<1> QED  BY <1>4 DEF Behind, s

LEMMA One ==
  ASSUME NEW E, NEW e \in E
  PROVE  /\ <<e>> \in Seq(E) /\ Range(<<e>>) = {e}
         /\ \A S : Once(<<e>>, S) /\ \A x : Behind(<<e>>, x, S)
<1>1. <<e>> \in Seq(E)
  OBVIOUS
<1>2. PICK q : q = <<e>>
  OBVIOUS
<1>3. DOMAIN q = {1} /\ q[1] = e
  BY <1>2
<1>4. Range(q) = {e}
  BY <1>3 DEF Range
<1>5. \A S : Once(q, S) /\ \A x : Behind(q, x, S)
  BY <1>3 DEF Once, Behind
<1> QED  BY <1>1, <1>2, <1>4, <1>5

LEMMA OnceAppend ==
  ASSUME NEW E, NEW q \in Seq(E), NEW e \in E, NEW S, Once(q, S),
         e \notin S \/ Range(q) \cap S = {}
  PROVE  Once(Append(q, e), S)
<1>1. PICK r \in Seq(E) : r = <<e>> /\ Range(r) = {e} /\ Once(r, S)
  BY One
<1>2. Once(q \o r, S)
  BY <1>1, OnceConcat
<1> QED  BY <1>1, <1>2, AppendIsConcat

LEMMA BehindAppend ==
  ASSUME NEW E, NEW q \in Seq(E), NEW e \in E, NEW S, NEW x, Behind(q, x, S),
         e \notin S \/ x \notin Range(q)
  PROVE  Behind(Append(q, e), x, S)
<1>1. PICK r \in Seq(E) : r = <<e>> /\ Range(r) = {e} /\ Behind(r, x, S)
  BY One
<1>2. Behind(q \o r, x, S)
  BY <1>1, BehindConcat
<1> QED  BY <1>1, <1>2, AppendIsConcat

\* No element twice.
LEMMA InjectiveOnce ==
  ASSUME NEW q
  PROVE  IsInjective(q) <=> \A x \in Range(q) : Once(q, {x})
  BY DEF IsInjective, Once, Range

LEMMA InjectiveConcat ==
  ASSUME NEW E, NEW q \in Seq(E), NEW r \in Seq(E), IsInjective(q), IsInjective(r),
         Range(q) \cap Range(r) = {}
  PROVE  IsInjective(q \o r)
<1>1. ASSUME NEW x PROVE Once(q \o r, {x})
  <2>1. Once(q, {x}) /\ Once(r, {x})
    BY DEF IsInjective, Once
  <2>2. Range(q) \cap {x} = {} \/ Range(r) \cap {x} = {}
    OBVIOUS
  <2> QED  BY <2>1, <2>2, OnceConcat
<1> QED  BY <1>1, InjectiveOnce

LEMMA InjectiveAppend ==
  ASSUME NEW E, NEW q \in Seq(E), NEW e \in E, IsInjective(q), e \notin Range(q)
  PROVE  IsInjective(Append(q, e))
<1> DEFINE r == Append(q, e)
           n == Len(q)
<1>1. r \in Seq(E) /\ Len(r) = n + 1 /\ n \in Nat /\ r[n + 1] = e /\ \A i \in 1 .. n : r[i] = q[i]
  BY AppendProperties
<1>2. DOMAIN r = 1 .. (n + 1) /\ DOMAIN q = 1 .. n
  BY <1>1, LenProperties
<1>3. \A i \in 1 .. n : r[i] # e
  BY <1>1, <1>2 DEF Range
<1> HIDE DEF r, n
<1>4. \A i \in 1 .. (n + 1) : i \in 1 .. n \/ i = n + 1
  BY <1>1
<1>5. IsInjective(r)
  BY <1>1, <1>2, <1>3, <1>4 DEF IsInjective
<1> QED  BY <1>5 DEF r

LEMMA InjectiveTail ==
  ASSUME NEW E, NEW q \in Seq(E), q # <<>>, IsInjective(q)
  PROVE  IsInjective(Tail(q)) /\ Head(q) \notin Range(Tail(q))
<1>1. Tail(q) \in Seq(E) /\ Range(q) = {Head(q)} \cup Range(Tail(q))
  BY RangeTail
<1>2. \A x : Once(q, {x})
  BY DEF IsInjective, Once
<1>3. \A x : Once(Tail(q), {x}) /\ (Head(q) \in {x} => Range(Tail(q)) \cap {x} = {})
  BY <1>2, OnceTail
<1>4. IsInjective(Tail(q))
  BY <1>3, InjectiveOnce
<1> QED  BY <1>3, <1>4
=============================================================================
