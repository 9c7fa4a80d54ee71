------------------------------ MODULE SumProofs ------------------------------
(***************************************************************************)
(* What a sum over a finite set is, whatever order its terms are added in: *)
(* facts about SumFunctionOnSet of the community modules.                  *)
(*                                                                         *)
(* SumFunctionOnSet is a recursive function over the subsets of the set.   *)
(* Two kinds of induction carry the proofs: a non-empty set of naturals    *)
(* has a least element, and what a set inherits from its proper subsets    *)
(* holds of every finite set.  Both come from the well-foundedness         *)
(* theorems of the library, as statements about sets.                      *)
(***************************************************************************)
EXTENDS Integers, FiniteSets, Functions, FiniteSetTheorems, WellFoundedInduction, TLAPS

LEMMA LeastNat ==
  ASSUME NEW T \in SUBSET Nat, T # {}
  PROVE  \E n \in T : \A m \in T : n <= m
<1> DEFINE R == {ss \in Nat \X Nat : ss[1] < ss[2]}
<1>1. IsWellFoundedOn(R, Nat)
  BY NatLessThanWellFounded DEF OpToRel
<1>2. PICK n \in T : \A m \in T : <<m, n>> \notin R
  <2> HIDE DEF R
  <2> QED
    BY <1>1, WFMin
<1>3. ASSUME NEW m \in T PROVE n <= m
  <2>1. <<m, n>> \in Nat \X Nat
    OBVIOUS
  <2>2. ~ (m < n)
    BY <1>2, <2>1
  <2>3. QED
    BY <2>2
<1>4. QED
  BY <1>3

(* Induction over the subsets of a finite set: what holds of a set when it *)
(* holds of its proper subsets holds of all of them.  G is the set of the  *)
(* subsets it holds of.                                                    *)
LEMMA SubsetInduction ==
  ASSUME NEW S, IsFiniteSet(S), NEW G,
         \A U \in SUBSET S : (\A V \in SUBSET U : V # U => V \in G) => U \in G
  PROVE  S \in G
<1> DEFINE X == (SUBSET S) \ G
<1>1. ASSUME X # {} PROVE FALSE
  <2>1. X \subseteq FiniteSubsetsOf(S)
    BY FS_Subset DEF FiniteSubsetsOf
  <2>2. PICK U \in X : \A V \in X : <<V, U>> \notin StrictSubsetOrdering(S)
    <3> HIDE DEF X
    <3> QED
      BY <1>1, <2>1, FS_StrictSubsetOrderingWellFounded, WFMin
  <2>3. \A V \in SUBSET U : V # U => V \in G
    BY <2>2 DEF StrictSubsetOrdering
  <2>4. QED
    BY <2>3
<1>2. QED
  BY <1>1

-----------------------------------------------------------------------------
(* The recursion is well defined.                                          *)

Chosen(s) == CHOOSE x \in s : TRUE

(* One unfolding of the recursion on the sets of D.                        *)
Unfold(f, g, D) ==
  [s \in D |-> IF s = {} THEN 0 ELSE f[Chosen(s)] + g[s \ {Chosen(s)}]]

LEMMA ChosenIn == \A s : s # {} => Chosen(s) \in s
  BY DEF Chosen

LEMMA SumExists ==
  ASSUME NEW f, NEW S, IsFiniteSet(S)
  PROVE  \E g : g = Unfold(f, g, SUBSET S)
<1> DEFINE D(n) == {s \in SUBSET S : Cardinality(s) <= n}
           Good(n) == \E g : g = Unfold(f, g, D(n))
           Bad == {n \in Nat : ~ Good(n)}
<1>1. \A s \in SUBSET S : IsFiniteSet(s) /\ Cardinality(s) \in Nat /\ Cardinality(s) <= Cardinality(S)
  BY FS_Subset, FS_CardinalityType
<1>2. Good(0)
  <2>1. \A s \in D(0) : s = {}
    BY <1>1, FS_EmptySet
  <2>2. [s \in D(0) |-> 0] = Unfold(f, [s \in D(0) |-> 0], D(0))
    BY <2>1 DEF Unfold
  <2>3. QED
    BY <2>2
<1>3. ASSUME NEW n \in Nat, Good(n) PROVE Good(n + 1)
  <2>1. PICK g : g = Unfold(f, g, D(n))
    BY <1>3
  <2> DEFINE h == [s \in D(n + 1) |->
                     IF s \in D(n) THEN g[s]
                     ELSE f[Chosen(s)] + g[s \ {Chosen(s)}]]
  <2>2. ASSUME NEW s \in D(n + 1)
        PROVE  h[s] = IF s = {} THEN 0 ELSE f[Chosen(s)] + h[s \ {Chosen(s)}]
    <3>1. s # {} => s \ {Chosen(s)} \in D(n) /\ s \ {Chosen(s)} \in D(n + 1)
      BY <1>1, ChosenIn, FS_RemoveElement
    <3>2. s = {} => s \in D(n)
      BY FS_EmptySet
    <3>3. s # {} => h[s \ {Chosen(s)}] = g[s \ {Chosen(s)}]
      BY <3>1
    <3>4. CASE s \in D(n)
      <4>1. g[s] = IF s = {} THEN 0 ELSE f[Chosen(s)] + g[s \ {Chosen(s)}]
        <5> HIDE DEF D
        <5> QED BY <2>1, <3>4 DEF Unfold
      <4>2. h[s] = g[s]
        BY <3>4
      <4>3. QED
        BY <3>3, <4>1, <4>2
    <3>5. CASE s \notin D(n)
      <4>1. h[s] = f[Chosen(s)] + g[s \ {Chosen(s)}]
        BY <3>5
      <4>2. QED
        BY <3>2, <3>3, <3>5, <4>1
    <3>6. QED
      BY <3>4, <3>5
  <2>3. h = Unfold(f, h, D(n + 1))
    <3>1. DOMAIN h = D(n + 1) /\ h = [s \in D(n + 1) |-> h[s]]
      OBVIOUS
    <3> HIDE DEF h, D
    <3>2. QED
      BY <2>2, <3>1 DEF Unfold
  <2>4. QED
    BY <2>3
<1>4. Good(Cardinality(S))
  <2> HIDE DEF Good
  <2>1. SUFFICES ASSUME Bad # {} PROVE FALSE
    BY FS_CardinalityType
  <2>2. PICK n \in Bad : \A m \in Bad : n <= m
    BY <2>1, LeastNat
  <2>3. n # 0 /\ n - 1 \in Nat
    BY <1>2
  <2>4. n - 1 \notin Bad
    BY <2>2, <2>3
  <2>5. Good(n - 1)
    BY <2>3, <2>4
  <2>6. Good((n - 1) + 1)
    BY <1>3, <2>3, <2>5
  <2>7. (n - 1) + 1 = n
    BY <2>3
  <2>8. QED
    BY <2>6, <2>7
<1>5. D(Cardinality(S)) = SUBSET S
  BY <1>1
<1>6. QED
  BY <1>4, <1>5

Sums(f, S) == CHOOSE g : g = Unfold(f, g, SUBSET S)

LEMMA SumDef ==
  ASSUME NEW f, NEW S
  PROVE  SumFunctionOnSet(f, S) = Sums(f, S)[S]
  BY DEF SumFunctionOnSet, FoldFunctionOnSet, MapThenFoldSet, Sums, Unfold, Chosen

LEMMA SumsUnfold ==
  ASSUME NEW f, NEW S, IsFiniteSet(S), NEW s \in SUBSET S
  PROVE  Sums(f, S)[s] = IF s = {} THEN 0 ELSE f[Chosen(s)] + Sums(f, S)[s \ {Chosen(s)}]
<1>1. Sums(f, S) = Unfold(f, Sums(f, S), SUBSET S)
  BY SumExists DEF Sums
<1>2. QED
  BY <1>1 DEF Unfold

(* The sum over a subset is the same wherever it is taken from.            *)
LEMMA SumsAgree ==
  ASSUME NEW f, NEW S, IsFiniteSet(S), NEW T \in SUBSET S
  PROVE  SumFunctionOnSet(f, T) = Sums(f, S)[T]
<1> DEFINE G == {U \in SUBSET T : Sums(f, S)[U] = Sums(f, T)[U]}
<1>1. IsFiniteSet(T)
  BY FS_Subset
<1>2. ASSUME NEW U \in SUBSET T, \A V \in SUBSET U : V # U => V \in G
      PROVE  U \in G
  <2>1. U # {} => Sums(f, S)[U \ {Chosen(U)}] = Sums(f, T)[U \ {Chosen(U)}]
    BY <1>2, ChosenIn
  <2>2. Sums(f, S)[U] = IF U = {} THEN 0 ELSE f[Chosen(U)] + Sums(f, S)[U \ {Chosen(U)}]
    <3>1. \A s \in SUBSET S : Sums(f, S)[s] = IF s = {} THEN 0
                                              ELSE f[Chosen(s)] + Sums(f, S)[s \ {Chosen(s)}]
      BY SumsUnfold
    <3>2. U \in SUBSET S
      OBVIOUS
    <3>3. QED
      BY <3>1, <3>2
  <2>3. Sums(f, T)[U] = IF U = {} THEN 0 ELSE f[Chosen(U)] + Sums(f, T)[U \ {Chosen(U)}]
    BY <1>1, SumsUnfold
  <2>4. QED
    BY <2>1, <2>2, <2>3
<1>3. T \in G
  <2> HIDE DEF G
  <2> QED
    BY <1>1, <1>2, SubsetInduction
<1>4. QED
  BY <1>3, SumDef

-----------------------------------------------------------------------------
(* Facts about sums.                                                       *)

LEMMA SumEmpty == \A f : SumFunctionOnSet(f, {}) = 0
  BY SumDef, SumsUnfold, FS_EmptySet

LEMMA SumChosen ==
  ASSUME NEW f, NEW S, IsFiniteSet(S), S # {}
  PROVE  /\ Chosen(S) \in S
         /\ SumFunctionOnSet(f, S) = f[Chosen(S)] + SumFunctionOnSet(f, S \ {Chosen(S)})
<1>1. Chosen(S) \in S /\ S \ {Chosen(S)} \in SUBSET S
  BY ChosenIn
<1>2. Sums(f, S)[S] = f[Chosen(S)] + Sums(f, S)[S \ {Chosen(S)}]
  BY SumsUnfold
<1>3. QED
  BY <1>1, <1>2, SumsAgree, SumDef

LEMMA SumInt ==
  ASSUME NEW f, NEW S, IsFiniteSet(S), \A x \in S : f[x] \in Int
  PROVE  SumFunctionOnSet(f, S) \in Int
<1> DEFINE G == {U \in SUBSET S : SumFunctionOnSet(f, U) \in Int}
<1>1. ASSUME NEW U \in SUBSET S, \A V \in SUBSET U : V # U => V \in G
      PROVE  U \in G
  <2>1. CASE U = {}
    BY <2>1, SumEmpty
  <2>2. CASE U # {}
    <3>1. IsFiniteSet(U)
      BY FS_Subset
    <3>2. /\ Chosen(U) \in U
          /\ SumFunctionOnSet(f, U) = f[Chosen(U)] + SumFunctionOnSet(f, U \ {Chosen(U)})
      BY <2>2, <3>1, SumChosen
    <3>3. U \ {Chosen(U)} \in G
      BY <1>1, <3>2
    <3>4. SumFunctionOnSet(f, U \ {Chosen(U)}) \in Int /\ f[Chosen(U)] \in Int
      BY <3>2, <3>3
    <3>5. QED
      BY <3>2, <3>4
  <2>3. QED
    BY <2>1, <2>2
<1>2. S \in G
  <2> HIDE DEF G
  <2> QED
    BY <1>1, SubsetInduction
<1>3. QED
  BY <1>2

(* Sums of equal terms are equal.                                          *)
LEMMA SumEqual ==
  ASSUME NEW f, NEW g, NEW S, IsFiniteSet(S), \A x \in S : f[x] = g[x]
  PROVE  SumFunctionOnSet(f, S) = SumFunctionOnSet(g, S)
<1> DEFINE G == {U \in SUBSET S : SumFunctionOnSet(f, U) = SumFunctionOnSet(g, U)}
<1>1. ASSUME NEW U \in SUBSET S, \A V \in SUBSET U : V # U => V \in G
      PROVE  U \in G
  <2>1. CASE U = {}
    BY <2>1, SumEmpty
  <2>2. CASE U # {}
    <3>1. IsFiniteSet(U)
      BY FS_Subset
    <3>2. /\ Chosen(U) \in U
          /\ SumFunctionOnSet(f, U) = f[Chosen(U)] + SumFunctionOnSet(f, U \ {Chosen(U)})
          /\ SumFunctionOnSet(g, U) = g[Chosen(U)] + SumFunctionOnSet(g, U \ {Chosen(U)})
      BY <2>2, <3>1, SumChosen
    <3>3. U \ {Chosen(U)} \in G /\ f[Chosen(U)] = g[Chosen(U)]
      BY <1>1, <3>2
    <3>4. QED
      BY <3>2, <3>3
  <2>3. QED
    BY <2>1, <2>2
<1>2. S \in G
  <2> HIDE DEF G
  <2> QED
    BY <1>1, SubsetInduction
<1>3. QED
  BY <1>2

(* Any term may be taken out first.                                        *)
LEMMA SumRemove ==
  ASSUME NEW f, NEW S, IsFiniteSet(S), \A x \in S : f[x] \in Int, NEW x \in S
  PROVE  SumFunctionOnSet(f, S) = f[x] + SumFunctionOnSet(f, S \ {x})
<1> DEFINE Any(U) == \A y \in U : SumFunctionOnSet(f, U) = f[y] + SumFunctionOnSet(f, U \ {y})
           G == {U \in SUBSET S : Any(U)}
<1>1. ASSUME NEW U \in SUBSET S, \A V \in SUBSET U : V # U => V \in G
      PROVE  U \in G
  <2>1. ASSUME NEW y \in U
        PROVE  SumFunctionOnSet(f, U) = f[y] + SumFunctionOnSet(f, U \ {y})
    <3>1. IsFiniteSet(U) /\ U # {}
      BY FS_Subset
    <3>2. PICK z \in U : SumFunctionOnSet(f, U) = f[z] + SumFunctionOnSet(f, U \ {z})
      BY <3>1, SumChosen
    <3>3. CASE y = z
      BY <3>2, <3>3
    <3>4. CASE y # z
      <4>1. Any(U \ {z}) /\ Any(U \ {y})
        BY <1>1
      <4>2. SumFunctionOnSet(f, U \ {z}) = f[y] + SumFunctionOnSet(f, (U \ {z}) \ {y})
        BY <3>4, <4>1
      <4>3. SumFunctionOnSet(f, U \ {y}) = f[z] + SumFunctionOnSet(f, (U \ {y}) \ {z})
        BY <3>4, <4>1
      <4>4. (U \ {y}) \ {z} = (U \ {z}) \ {y}
        OBVIOUS
      <4>5. IsFiniteSet((U \ {z}) \ {y})
        BY <3>1, FS_Subset
      <4>6. SumFunctionOnSet(f, (U \ {z}) \ {y}) \in Int /\ f[y] \in Int /\ f[z] \in Int
        BY <4>5, SumInt
      <4> DEFINE rest == SumFunctionOnSet(f, (U \ {z}) \ {y})
      <4>7. /\ SumFunctionOnSet(f, U) = f[z] + (f[y] + rest)
            /\ SumFunctionOnSet(f, U \ {y}) = f[z] + rest
            /\ rest \in Int /\ f[y] \in Int /\ f[z] \in Int
        BY <3>2, <4>2, <4>3, <4>4, <4>6
      <4> HIDE DEF rest
      <4>8. QED
        BY <4>7
    <3>5. QED
      BY <3>3, <3>4
  <2>2. QED
    BY <2>1
<1>2. S \in G
  <2> HIDE DEF G
  <2> QED
    BY <1>1, SubsetInduction
<1>3. QED
  BY <1>2

LEMMA SumAdd ==
  ASSUME NEW f, NEW S, IsFiniteSet(S), NEW x, x \notin S,
         \A y \in S \cup {x} : f[y] \in Int
  PROVE  SumFunctionOnSet(f, S \cup {x}) = f[x] + SumFunctionOnSet(f, S)
<1>1. IsFiniteSet(S \cup {x}) /\ (S \cup {x}) \ {x} = S
  BY FS_AddElement
<1>2. QED
  BY <1>1, SumRemove

=============================================================================
