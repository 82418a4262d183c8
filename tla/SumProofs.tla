----------------------------- MODULE SumProofs -----------------------------
(***************************************************************************)
(* Lemmas about sums over finite sets, by the least set that would refute  *)
(* each.                                                                   *)
(***************************************************************************)
EXTENDS Sums, FiniteSetTheorems, TLAPS

\* The element a fold takes first.
First(S) == CHOOSE x \in S : TRUE
Rest(S) == S \ {First(S)}

\* g tells the sums of the subsets of S, by the equation of the fold.
Tells(g, f, S) ==
  g = [s \in SUBSET S |-> IF s = {} THEN 0 ELSE f[First(s)] + g[Rest(s)]]

(* Induction over the subsets of a finite set: what is so of a set         *)
(* whenever it is of its proper subsets is so of all.                      *)
LEMMA SubsetInduction ==
  ASSUME NEW S, IsFiniteSet(S), NEW P,
         \A T \in SUBSET S : (\A U \in (SUBSET T) \ {T} : U \in P) => T \in P
  PROVE  \A T \in SUBSET S : T \in P
PROOF
  <1> DEFINE A == (SUBSET S) \ P
  <1> SUFFICES ASSUME A # {} PROVE FALSE
    OBVIOUS
  <1>1. A \subseteq FiniteSubsetsOf(S) /\ IsWellFoundedOn(StrictSubsetOrdering(S), FiniteSubsetsOf(S))
    BY FS_FiniteSubsetsOfFinite, FS_StrictSubsetOrderingWellFounded
  <1> DEFINE R == StrictSubsetOrdering(S)
  <1> HIDE DEF A, R
  <1>2. PICK T \in A : \A U \in A : ~(<<U, T>> \in StrictSubsetOrdering(S))
    BY <1>1, WFMin DEF R
  <1>3. ASSUME NEW U \in (SUBSET T) \ {T}, U \notin P PROVE FALSE
    <2>1. <<U, T>> \in StrictSubsetOrdering(S) /\ U \in A
      BY <1>3 DEF StrictSubsetOrdering, A
    <2> QED BY <1>2, <2>1
  <1> QED BY <1>2, <1>3 DEF A

(* What a fold takes first is an element.                                  *)
LEMMA FirstIsElement ==
  \A S : S # {} => First(S) \in S /\ Rest(S) \subseteq S /\ Rest(S) # S
PROOF BY DEF First, Rest

(* Two functions that tell sums agree where both do.                       *)
LEMMA TellsOnce ==
  ASSUME NEW f, NEW S, NEW U \in SUBSET S, IsFiniteSet(S), NEW g, NEW h, Tells(g, f, S), Tells(h, f, U)
  PROVE  \A s \in SUBSET U : g[s] = h[s]
PROOF
  <1> DEFINE P == {s \in SUBSET U : g[s] = h[s]}
  <1>1. IsFiniteSet(U)
    BY FS_Subset
  <1>2. ASSUME NEW T \in SUBSET U, \A V \in (SUBSET T) \ {T} : V \in P PROVE T \in P
    <2>1. /\ g[T] = IF T = {} THEN 0 ELSE f[First(T)] + g[Rest(T)]
          /\ h[T] = IF T = {} THEN 0 ELSE f[First(T)] + h[Rest(T)]
      BY DEF Tells
    <2>2. T # {} => Rest(T) \in (SUBSET T) \ {T}
      BY FirstIsElement
    <2>3. T # {} => g[Rest(T)] = h[Rest(T)]
      BY <1>2, <2>2
    <2> QED BY <2>1, <2>3
  <1> HIDE DEF P
  <1>3. \A T \in SUBSET U : T \in P
    BY <1>1, <1>2, SubsetInduction
  <1> QED BY <1>3 DEF P

(* There is a function that tells the sums of a finite set.                *)
LEMMA SomethingTells ==
  ASSUME NEW f, NEW S, IsFiniteSet(S)
  PROVE  \E g : Tells(g, f, S)
PROOF
  <1> DEFINE P == {T \in SUBSET S : \E g : Tells(g, f, T)}
  <1>1. ASSUME NEW T \in SUBSET S, \A V \in (SUBSET T) \ {T} : V \in P PROVE T \in P
    <2> DEFINE G(u) == CHOOSE g : Tells(g, f, u)
               h == [s \in SUBSET T |-> IF s = {} THEN 0 ELSE f[First(s)] + G(Rest(s))[Rest(s)]]
    <2>1. \A u \in (SUBSET T) \ {T} : Tells(G(u), f, u)
      BY <1>1
    <2> HIDE DEF G, P
    <2>2. ASSUME NEW u \in (SUBSET T) \ {T} PROVE h[u] = G(u)[u]
      <3>1. Tells(G(u), f, u)
        BY <2>1
      <3>2. G(u)[u] = IF u = {} THEN 0 ELSE f[First(u)] + G(u)[Rest(u)]
        BY <3>1 DEF Tells
      <3>3. ASSUME u # {} PROVE G(u)[Rest(u)] = G(Rest(u))[Rest(u)]
        <4>1. Rest(u) \in SUBSET u /\ Rest(u) \in (SUBSET T) \ {T}
          BY <3>3, FirstIsElement
        <4>2. IsFiniteSet(u)
          BY FS_Subset
        <4>3. Tells(G(Rest(u)), f, Rest(u))
          BY <2>1, <4>1
        <4> QED BY <3>1, <4>1, <4>2, <4>3, TellsOnce
      <3> QED BY <3>2, <3>3
    <2>3. ASSUME NEW s \in SUBSET T, s # {} PROVE h[Rest(s)] = G(Rest(s))[Rest(s)]
      <3>1. Rest(s) \in (SUBSET T) \ {T}
        BY <2>3, FirstIsElement
      <3> QED BY <2>2, <3>1
    <2>4. Tells(h, f, T)
      BY <2>3 DEF Tells
    <2> HIDE DEF h
    <2> QED BY <2>4 DEF P
  <1> HIDE DEF P
  <1>2. \A T \in SUBSET S : T \in P
    BY <1>1, SubsetInduction
  <1> QED BY <1>2 DEF P

(* The sum is told by each such function.                                  *)
LEMMA SumTold ==
  ASSUME NEW f, NEW S, IsFiniteSet(S), NEW g, Tells(g, f, S), NEW T \in SUBSET S
  PROVE  Total(f, T) = g[T]
PROOF
  <1>1. Total(f, T) = (CHOOSE h : Tells(h, f, T))[T]
    BY DEF Total, MapThenSumSet, MapThenFoldSet, Tells, First, Rest
  <1> DEFINE h == CHOOSE h : Tells(h, f, T)
  <1>2. IsFiniteSet(T)
    BY FS_Subset
  <1>3. Tells(h, f, T)
    BY <1>2, SomethingTells
  <1> HIDE DEF h
  <1>4. g[T] = h[T]
    BY <1>3, TellsOnce
  <1> QED BY <1>1, <1>4 DEF h

(* The equation of the fold.                                               *)
LEMMA SumFirst ==
  ASSUME NEW f, NEW S, IsFiniteSet(S)
  PROVE  Total(f, S) = IF S = {} THEN 0 ELSE f[First(S)] + Total(f, Rest(S))
PROOF
  <1>1. PICK g : Tells(g, f, S)
    BY SomethingTells
  <1>2. Total(f, S) = g[S]
    BY <1>1, SumTold
  <1>3. g[S] = IF S = {} THEN 0 ELSE f[First(S)] + g[Rest(S)]
    BY <1>1 DEF Tells
  <1>4. S # {} => Total(f, Rest(S)) = g[Rest(S)]
    BY <1>1, SumTold, FirstIsElement
  <1> QED BY <1>2, <1>3, <1>4

(* Nothing sums up to 0.                                                   *)
LEMMA SumEmpty == \A f : Total(f, {}) = 0
PROOF BY SumFirst, FS_EmptySet

(* A sum of naturals is one.                                               *)
LEMMA SumType ==
  ASSUME NEW f, NEW S, IsFiniteSet(S), \A x \in S : f[x] \in Nat
  PROVE  Total(f, S) \in Nat
PROOF
  <1> DEFINE P == {T \in SUBSET S : Total(f, T) \in Nat}
  <1>1. ASSUME NEW T \in SUBSET S, \A V \in (SUBSET T) \ {T} : V \in P PROVE T \in P
    <2>1. Total(f, T) = IF T = {} THEN 0 ELSE f[First(T)] + Total(f, Rest(T))
      BY FS_Subset, SumFirst
    <2>2. ASSUME T # {} PROVE f[First(T)] \in Nat /\ Total(f, Rest(T)) \in Nat
      BY <1>1, <2>2, FirstIsElement
    <2> QED BY <2>1, <2>2
  <1> HIDE DEF P
  <1>2. \A T \in SUBSET S : T \in P
    BY <1>1, SubsetInduction
  <1> QED BY <1>2 DEF P

(* A sum is any of its terms and the sum of the others.                    *)
LEMMA SumWithout ==
  ASSUME NEW f, NEW S, IsFiniteSet(S), \A x \in S : f[x] \in Nat, NEW y \in S
  PROVE  Total(f, S) = f[y] + Total(f, S \ {y})
PROOF
  <1> DEFINE P == {T \in SUBSET S : \A z \in T : Total(f, T) = f[z] + Total(f, T \ {z})}
  <1>1. ASSUME NEW T \in SUBSET S, \A V \in (SUBSET T) \ {T} : V \in P PROVE T \in P
    <2> SUFFICES ASSUME NEW z \in T PROVE Total(f, T) = f[z] + Total(f, T \ {z})
      OBVIOUS
    <2> DEFINE c == First(T)
    <2>1. /\ c \in T /\ Rest(T) = T \ {c} /\ IsFiniteSet(T)
          /\ Total(f, T) = f[c] + Total(f, T \ {c})
      BY FS_Subset, SumFirst, FirstIsElement DEF Rest
    <2> HIDE DEF c
    <2>2. CASE z # c
      <3>1. Total(f, T \ {c}) = f[z] + Total(f, (T \ {c}) \ {z})
        BY <1>1, <2>1, <2>2
      <3>2. Total(f, T \ {z}) = f[c] + Total(f, (T \ {z}) \ {c})
        BY <1>1, <2>1, <2>2
      <3>3. (T \ {c}) \ {z} = (T \ {z}) \ {c} /\ (T \ {c}) \ {z} \in SUBSET T
        OBVIOUS
      <3>4. Total(f, (T \ {c}) \ {z}) \in Nat
        BY <2>1, <3>3, FS_Subset, SumType
      <3>5. f[z] \in Nat /\ f[c] \in Nat
        BY <2>1
      <3> DEFINE u == Total(f, (T \ {c}) \ {z})
      <3>6. Total(f, T) = f[c] + (f[z] + u) /\ Total(f, T \ {z}) = f[c] + u /\ u \in Nat
        BY <2>1, <3>1, <3>2, <3>3, <3>4
      <3> HIDE DEF u
      <3> QED BY <3>5, <3>6
    <2> QED BY <2>1, <2>2
  <1> HIDE DEF P
  <1>2. \A T \in SUBSET S : T \in P
    BY <1>1, SubsetInduction
  <1> QED BY <1>2 DEF P

(* Terms that are equal have equal sums.                                   *)
LEMMA SumSame ==
  ASSUME NEW f, NEW g, NEW S, IsFiniteSet(S), \A x \in S : f[x] = g[x]
  PROVE  Total(f, S) = Total(g, S)
PROOF
  <1> DEFINE P == {T \in SUBSET S : Total(f, T) = Total(g, T)}
  <1>1. ASSUME NEW T \in SUBSET S, \A V \in (SUBSET T) \ {T} : V \in P PROVE T \in P
    <2>1. /\ Total(f, T) = IF T = {} THEN 0 ELSE f[First(T)] + Total(f, Rest(T))
          /\ Total(g, T) = IF T = {} THEN 0 ELSE g[First(T)] + Total(g, Rest(T))
      BY FS_Subset, SumFirst
    <2>2. ASSUME T # {} PROVE f[First(T)] = g[First(T)] /\ Total(f, Rest(T)) = Total(g, Rest(T))
      BY <1>1, <2>2, FirstIsElement
    <2> QED BY <2>1, <2>2
  <1> HIDE DEF P
  <1>2. \A T \in SUBSET S : T \in P
    BY <1>1, SubsetInduction
  <1> QED BY <1>2 DEF P

(* One term raised raises the sum of those that hold it.                   *)
LEMMA SumRaised ==
  ASSUME NEW f, NEW g, NEW S, IsFiniteSet(S), NEW y, NEW c \in Nat, \A x \in S : f[x] \in Nat,
         \A x \in S : g[x] = IF x = y THEN f[x] + c ELSE f[x]
  PROVE  Total(g, S) = IF y \in S THEN Total(f, S) + c ELSE Total(f, S)
PROOF
  <1>1. CASE y \notin S
    BY <1>1, SumSame
  <1>2. CASE y \in S
    <2>1. IsFiniteSet(S \ {y})
      BY FS_RemoveElement
    <2>2. f[y] \in Nat /\ g[y] = f[y] + c /\ \A x \in S : g[x] \in Nat
      BY <1>2
    <2>3. Total(f, S) = f[y] + Total(f, S \ {y}) /\ Total(g, S) = g[y] + Total(g, S \ {y})
      BY <1>2, <2>2, SumWithout
    <2>4. Total(g, S \ {y}) = Total(f, S \ {y})
      BY <2>1, SumSame
    <2>5. Total(f, S \ {y}) \in Nat
      BY <2>1, SumType
    <2> QED BY <1>2, <2>2, <2>3, <2>4, <2>5
  <1> QED BY <1>1, <1>2

(* The sizes of sets that are apart sum up to that of their union.         *)
LEMMA SumOfSizes ==
  ASSUME NEW f, NEW C, NEW S, IsFiniteSet(S), NEW U, IsFiniteSet(U),
         \A x \in S : C[x] \subseteq U /\ f[x] = Cardinality(C[x]),
         \A x, y \in S : x # y => C[x] \cap C[y] = {}
  PROVE  Total(f, S) = Cardinality(UNION {C[x] : x \in S})
PROOF
  <1> DEFINE V(T) == UNION {C[x] : x \in T}
             P == {T \in SUBSET S : Total(f, T) = Cardinality(V(T))}
  <1>1. ASSUME NEW T \in SUBSET S, \A W \in (SUBSET T) \ {T} : W \in P PROVE T \in P
    <2>1. Total(f, T) = IF T = {} THEN 0 ELSE f[First(T)] + Total(f, Rest(T))
      BY FS_Subset, SumFirst
    <2>2. CASE T = {}
      <3>1. V(T) = {}
        BY <2>2
      <3> HIDE DEF V
      <3> QED BY <2>1, <2>2, <3>1, FS_EmptySet
    <2>3. CASE T # {}
      <3> DEFINE c == First(T)
                 A == C[First(T)]
                 B == V(Rest(T))
      <3>1. c \in T /\ c \in S /\ Rest(T) = T \ {c} /\ Rest(T) \in (SUBSET T) \ {T}
        BY <2>3, FirstIsElement DEF Rest
      <3>2. V(T) = A \cup B
        BY <3>1
      <3>3. A \in SUBSET U /\ B \in SUBSET U
        BY <3>1
      <3>4. A \cap B = {}
        <4>1. \A y \in T \ {c} : C[c] \cap C[y] = {}
          BY <3>1
        <4> QED BY <3>1, <4>1
      <3>5. Total(f, Rest(T)) = Cardinality(B) /\ f[First(T)] = Cardinality(A)
        BY <1>1, <3>1
      <3> HIDE DEF A, B, V, P
      <3>6. IsFiniteSet(A) /\ IsFiniteSet(B)
        BY <3>3, FS_Subset
      <3>7. Cardinality(A \cup B) = Cardinality(A) + Cardinality(B) - Cardinality({})
        BY <3>4, <3>6, FS_Union
      <3>8. Cardinality(A) \in Nat /\ Cardinality(B) \in Nat /\ Cardinality({}) = 0
        BY <3>6, FS_CardinalityType, FS_EmptySet
      <3>9. Total(f, T) = Cardinality(A) + Cardinality(B)
        BY <2>1, <2>3, <3>5
      <3>10. Cardinality(V(T)) = Cardinality(A) + Cardinality(B)
        BY <3>2, <3>7, <3>8
      <3> QED BY <3>9, <3>10 DEF P
    <2> QED BY <2>2, <2>3
  <1> HIDE DEF P
  <1>2. \A T \in SUBSET S : T \in P
    BY <1>1, SubsetInduction
  <1> QED BY <1>2 DEF P
=============================================================================
