----------------------------- MODULE SumLemmas -----------------------------
(***************************************************************************)
(* Sums over finite sets: they are integers, grow with what is summed, and *)
(* change by what one term changes.  The induction runs over a set of the  *)
(* subsets of what is summed, so that no lemma takes an operator.          *)
(***************************************************************************)
EXTENDS Sums, FiniteSetTheorems, WellFoundedInduction, TLAPS

\* Induction over the naturals, for a set of them.
LEMMA NatSetInduction ==
  ASSUME NEW G, 0 \in G, \A n \in Nat : n \in G => n + 1 \in G
  PROVE  Nat \subseteq G
<1>. DEFINE Bad == Nat \ G
<1>. SUFFICES ASSUME Bad # {} PROVE FALSE
  OBVIOUS
<1>1. PICK n \in Bad : \A m \in Bad : ~(<<m, n>> \in OpToRel(<, Nat))
  BY NatLessThanWellFounded, WFMin
<1>2. n \in Nat \ {0} /\ n - 1 \in Nat
  OBVIOUS
<1>3. <<n - 1, n>> \in OpToRel(<, Nat)
  BY <1>2 DEF OpToRel
<1>4. n - 1 \in G
  BY <1>1, <1>2, <1>3
<1>. QED BY <1>2, <1>4

\* The recursive function MapThenFoldSet is made of, for a sum.
Pick(S) == CHOOSE x \in S : TRUE
SumBody(f, g, s) == IF s = {} THEN 0 ELSE f[Pick(s)] + g[s \ {Pick(s)}]
SumFun(f, S) == CHOOSE g : g = [s \in SUBSET S |-> SumBody(f, g, s)]

\* A sum is the value of that function.
LEMMA SumIs == ASSUME NEW f, NEW S PROVE SumOver(f, S) = SumFun(f, S)[S]
BY Zenon DEF SumOver, SumFun, SumBody, Pick, MapThenSumSet, MapThenFoldSet

\* Induction over a finite set, for a set of its subsets.
LEMMA SubsetInduction ==
  ASSUME NEW S, IsFiniteSet(S), NEW G, {} \in G,
         \A T \in SUBSET S : T # {} /\ (\A x \in T : T \ {x} \in G) => T \in G
  PROVE  SUBSET S \subseteq G
<1>. DEFINE Sizes == {n \in Nat : \A T \in SUBSET S : Cardinality(T) = n => T \in G}
<1>finite. \A T \in SUBSET S : IsFiniteSet(T) /\ Cardinality(T) \in Nat
  BY FS_Subset, FS_CardinalityType
<1>1. 0 \in Sizes
  BY <1>finite, FS_EmptySet
<1>2. ASSUME NEW n \in Nat, n \in Sizes PROVE n + 1 \in Sizes
  <2>. SUFFICES ASSUME NEW T \in SUBSET S, Cardinality(T) = n + 1 PROVE T \in G
    BY <1>2
  <2>1. T # {}
    <3>1. Cardinality({}) = 0
      BY FS_EmptySet
    <3>. QED BY <3>1
  <2>2. \A x \in T : T \ {x} \in SUBSET S /\ Cardinality(T \ {x}) = n
    BY <1>finite, FS_RemoveElement
  <2>. QED BY <2>1, <2>2, <1>2
<1>. HIDE DEF Sizes
<1>3. Nat \subseteq Sizes
  BY <1>1, <1>2, NatSetInduction
<1>. QED BY <1>3, <1>finite DEF Sizes

\* The recursive function the fold is made of exists.
LEMMA SumFunExists ==
  ASSUME NEW f, NEW S, IsFiniteSet(S)
  PROVE  SumFun(f, S) = [s \in SUBSET S |-> SumBody(f, SumFun(f, S), s)]
<1>. DEFINE Upto(n) == {s \in SUBSET S : Cardinality(s) <= n}
            Sizes == {n \in Nat : \E g : g = [s \in Upto(n) |-> SumBody(f, g, s)]}
<1>finite. \A T \in SUBSET S : IsFiniteSet(T) /\ Cardinality(T) \in Nat
  BY FS_Subset, FS_CardinalityType
<1>1. 0 \in Sizes
  <2>1. \A s \in Upto(0) : s = {}
    BY <1>finite, FS_EmptySet
  <2>. DEFINE g == [s \in Upto(0) |-> 0]
  <2>2. g = [s \in Upto(0) |-> SumBody(f, g, s)]
    BY <2>1 DEF SumBody
  <2>. QED BY <2>2
<1>2. ASSUME NEW n \in Nat, n \in Sizes PROVE n + 1 \in Sizes
  <2>1. PICK g : g = [s \in Upto(n) |-> SumBody(f, g, s)]
    BY <1>2
  <2>. DEFINE h == [s \in Upto(n + 1) |-> SumBody(f, g, s)]
  <2>2. \A s \in Upto(n + 1) : s # {} => s \ {Pick(s)} \in Upto(n)
    <3>. SUFFICES ASSUME NEW s \in Upto(n + 1), s # {} PROVE s \ {Pick(s)} \in Upto(n)
      OBVIOUS
    <3>1. Pick(s) \in s
      BY DEF Pick
    <3>2. Cardinality(s \ {Pick(s)}) = Cardinality(s) - 1
      BY <3>1, <1>finite, FS_RemoveElement
    <3>. QED BY <3>2, <1>finite
  <2>3. \A s \in Upto(n) : s \in Upto(n + 1) /\ h[s] = g[s]
    BY <2>1, <1>finite
  <2>4. \A s \in Upto(n + 1) : SumBody(f, g, s) = SumBody(f, h, s)
    <3>. HIDE DEF h, Upto
    <3>. QED BY <2>2, <2>3 DEF SumBody
  <2>5. h = [s \in Upto(n + 1) |-> SumBody(f, h, s)]
    BY <2>4
  <2>. HIDE DEF h
  <2>. QED BY <2>5
<1>. HIDE DEF Sizes
<1>3. Cardinality(S) \in Sizes
  BY <1>1, <1>2, <1>finite, NatSetInduction
<1>4. Upto(Cardinality(S)) = SUBSET S
  BY FS_Subset
<1>5. \E g : g = [s \in SUBSET S |-> SumBody(f, g, s)]
  BY <1>3, <1>4 DEF Sizes
<1>. QED BY <1>5 DEF SumFun

\* The sum over no element.
LEMMA SumEmpty == \A f : SumOver(f, {}) = 0
<1>. SUFFICES ASSUME NEW f PROVE SumOver(f, {}) = 0
  OBVIOUS
<1>1. SumFun(f, {}) = [s \in SUBSET {} |-> SumBody(f, SumFun(f, {}), s)]
  BY FS_EmptySet, SumFunExists
<1>. QED BY <1>1, SumIs DEF SumBody

\* The element the fold takes first, and the rest.
LEMMA SumPick ==
  ASSUME NEW f, NEW S, IsFiniteSet(S), S # {}
  PROVE  Pick(S) \in S /\ SumOver(f, S) = f[Pick(S)] + SumOver(f, S \ {Pick(S)})
<1>. DEFINE T == S \ {Pick(S)}
            G == {s \in SUBSET T : SumFun(f, S)[s] = SumFun(f, T)[s]}
<1>1. Pick(S) \in S
  BY DEF Pick
<1>2. IsFiniteSet(T)
  BY FS_Subset
<1>3. /\ SumFun(f, S) = [s \in SUBSET S |-> SumBody(f, SumFun(f, S), s)]
      /\ SumFun(f, T) = [s \in SUBSET T |-> SumBody(f, SumFun(f, T), s)]
  BY <1>2, SumFunExists
<1>4. \A s \in SUBSET T : /\ SumFun(f, S)[s] = SumBody(f, SumFun(f, S), s)
                          /\ SumFun(f, T)[s] = SumBody(f, SumFun(f, T), s)
  BY <1>3
<1>5. {} \in G
  BY <1>4 DEF SumBody
<1>6. ASSUME NEW s \in SUBSET T, s # {}, \A x \in s : s \ {x} \in G PROVE s \in G
  <2>1. Pick(s) \in s
    BY <1>6 DEF Pick
  <2>2. SumFun(f, S)[s \ {Pick(s)}] = SumFun(f, T)[s \ {Pick(s)}]
    BY <2>1, <1>6
  <2>. QED BY <2>2, <1>4, <1>6 DEF SumBody
<1>. HIDE DEF G, T
<1>7. SUBSET T \subseteq G
  BY <1>2, <1>5, <1>6, SubsetInduction
<1>8. SumFun(f, S)[T] = SumFun(f, T)[T]
  BY <1>7 DEF G
<1>9. SumFun(f, S)[S] = SumBody(f, SumFun(f, S), S)
  BY <1>3
<1>10. SumOver(f, S) = SumFun(f, S)[S] /\ SumOver(f, T) = SumFun(f, T)[T]
  BY SumIs
<1>. QED BY <1>1, <1>8, <1>9, <1>10 DEF SumBody, T

\* A sum of integers is one.
LEMMA SumInt ==
  ASSUME NEW f, NEW S, IsFiniteSet(S), \A x \in S : f[x] \in Int
  PROVE  SumOver(f, S) \in Int
<1>. DEFINE G == {T \in SUBSET S : SumOver(f, T) \in Int}
<1>1. {} \in G
  BY SumEmpty
<1>2. ASSUME NEW T \in SUBSET S, T # {}, \A x \in T : T \ {x} \in G PROVE T \in G
  <2>1. Pick(T) \in T /\ SumOver(f, T) = f[Pick(T)] + SumOver(f, T \ {Pick(T)})
    BY <1>2, FS_Subset, SumPick
  <2>. QED BY <2>1, <1>2
<1>. HIDE DEF G
<1>3. SUBSET S \subseteq G
  BY <1>1, <1>2, SubsetInduction
<1>. QED BY <1>3 DEF G

\* A sum of naturals is one.
LEMMA SumNat ==
  ASSUME NEW f, NEW S, IsFiniteSet(S), \A x \in S : f[x] \in Nat
  PROVE  SumOver(f, S) \in Nat
<1>. DEFINE G == {T \in SUBSET S : SumOver(f, T) \in Nat}
<1>1. {} \in G
  BY SumEmpty
<1>2. ASSUME NEW T \in SUBSET S, T # {}, \A x \in T : T \ {x} \in G PROVE T \in G
  <2>1. Pick(T) \in T /\ SumOver(f, T) = f[Pick(T)] + SumOver(f, T \ {Pick(T)})
    BY <1>2, FS_Subset, SumPick
  <2>. QED BY <2>1, <1>2
<1>. HIDE DEF G
<1>3. SUBSET S \subseteq G
  BY <1>1, <1>2, SubsetInduction
<1>. QED BY <1>3 DEF G

\* Only what is summed counts.
LEMMA SumSame ==
  ASSUME NEW f, NEW g, NEW S, IsFiniteSet(S), \A x \in S : f[x] = g[x]
  PROVE  SumOver(f, S) = SumOver(g, S)
<1>. DEFINE G == {T \in SUBSET S : SumOver(f, T) = SumOver(g, T)}
<1>1. {} \in G
  BY SumEmpty
<1>2. ASSUME NEW T \in SUBSET S, T # {}, \A x \in T : T \ {x} \in G PROVE T \in G
  <2>1. /\ Pick(T) \in T
        /\ SumOver(f, T) = f[Pick(T)] + SumOver(f, T \ {Pick(T)})
        /\ SumOver(g, T) = g[Pick(T)] + SumOver(g, T \ {Pick(T)})
    BY <1>2, FS_Subset, SumPick
  <2>. QED BY <2>1, <1>2
<1>. HIDE DEF G
<1>3. SUBSET S \subseteq G
  BY <1>1, <1>2, SubsetInduction
<1>. QED BY <1>3 DEF G

\* Nothing adds up to nothing.
LEMMA SumZero ==
  ASSUME NEW f, NEW S, IsFiniteSet(S), \A x \in S : f[x] = 0
  PROVE  SumOver(f, S) = 0
<1>. DEFINE G == {T \in SUBSET S : SumOver(f, T) = 0}
<1>1. {} \in G
  BY SumEmpty
<1>2. ASSUME NEW T \in SUBSET S, T # {}, \A x \in T : T \ {x} \in G PROVE T \in G
  <2>1. Pick(T) \in T /\ SumOver(f, T) = f[Pick(T)] + SumOver(f, T \ {Pick(T)})
    BY <1>2, FS_Subset, SumPick
  <2>. QED BY <2>1, <1>2
<1>. HIDE DEF G
<1>3. SUBSET S \subseteq G
  BY <1>1, <1>2, SubsetInduction
<1>. QED BY <1>3 DEF G

\* A sum grows with what is summed.
LEMMA SumLeq ==
  ASSUME NEW f, NEW g, NEW S, IsFiniteSet(S),
         \A x \in S : f[x] \in Int /\ g[x] \in Int /\ f[x] <= g[x]
  PROVE  SumOver(f, S) <= SumOver(g, S)
<1>. DEFINE G == {T \in SUBSET S : SumOver(f, T) <= SumOver(g, T)}
<1>1. {} \in G
  BY SumEmpty
<1>2. ASSUME NEW T \in SUBSET S, T # {}, \A x \in T : T \ {x} \in G PROVE T \in G
  <2>1. /\ Pick(T) \in T
        /\ SumOver(f, T) = f[Pick(T)] + SumOver(f, T \ {Pick(T)})
        /\ SumOver(g, T) = g[Pick(T)] + SumOver(g, T \ {Pick(T)})
    BY <1>2, FS_Subset, SumPick
  <2>2. SumOver(f, T \ {Pick(T)}) \in Int /\ SumOver(g, T \ {Pick(T)}) \in Int
    <3>1. IsFiniteSet(T \ {Pick(T)}) /\ \A x \in T \ {Pick(T)} : f[x] \in Int /\ g[x] \in Int
      BY FS_Subset
    <3>. QED BY <3>1, SumInt
  <2>3. SumOver(f, T \ {Pick(T)}) <= SumOver(g, T \ {Pick(T)})
    BY <2>1, <1>2
  <2>. QED BY <2>1, <2>2, <2>3
<1>. HIDE DEF G
<1>3. SUBSET S \subseteq G
  BY <1>1, <1>2, SubsetInduction
<1>. QED BY <1>3 DEF G

\* Any element may be taken out first.
LEMMA SumRemove ==
  ASSUME NEW f, NEW S, IsFiniteSet(S), \A x \in S : f[x] \in Int, NEW y \in S
  PROVE  SumOver(f, S) = f[y] + SumOver(f, S \ {y})
<1>. DEFINE G == {T \in SUBSET S : \A x \in T : SumOver(f, T) = f[x] + SumOver(f, T \ {x})}
<1>1. {} \in G
  OBVIOUS
<1>2. ASSUME NEW T \in SUBSET S, T # {}, \A x \in T : T \ {x} \in G PROVE T \in G
  <2>. SUFFICES ASSUME NEW x \in T PROVE SumOver(f, T) = f[x] + SumOver(f, T \ {x})
    OBVIOUS
  <2>1. PICK p \in T : SumOver(f, T) = f[p] + SumOver(f, T \ {p})
    <3>1. Pick(T) \in T /\ SumOver(f, T) = f[Pick(T)] + SumOver(f, T \ {Pick(T)})
      BY <1>2, FS_Subset, SumPick
    <3>. QED BY <3>1
  <2>2. CASE x = p
    BY <2>1, <2>2
  <2>3. CASE x # p
    <3>1. /\ SumOver(f, T \ {p}) = f[x] + SumOver(f, (T \ {p}) \ {x})
          /\ SumOver(f, T \ {x}) = f[p] + SumOver(f, (T \ {x}) \ {p})
      BY <2>3, <1>2
    <3>2. SumOver(f, (T \ {p}) \ {x}) = SumOver(f, (T \ {x}) \ {p})
      <4>1. (T \ {p}) \ {x} = (T \ {x}) \ {p}
        OBVIOUS
      <4>. QED BY <4>1
    <3>3. SumOver(f, (T \ {x}) \ {p}) \in Int
      <4>1. IsFiniteSet((T \ {x}) \ {p}) /\ \A z \in (T \ {x}) \ {p} : f[z] \in Int
        BY FS_Subset
      <4>. QED BY <4>1, SumInt
    <3>4. f[x] \in Int /\ f[p] \in Int
      OBVIOUS
    <3>. QED BY <2>1, <3>1, <3>2, <3>3, <3>4
  <2>. QED BY <2>2, <2>3
<1>. HIDE DEF G
<1>3. SUBSET S \subseteq G
  BY <1>1, <1>2, SubsetInduction
<1>. QED BY <1>3 DEF G

\* Fewer naturals add up to less.
LEMMA SumSubset ==
  ASSUME NEW f, NEW S, IsFiniteSet(S), \A x \in S : f[x] \in Nat, NEW U \in SUBSET S
  PROVE  SumOver(f, U) <= SumOver(f, S)
<1>. DEFINE G == {T \in SUBSET S : \A V \in SUBSET T : SumOver(f, V) <= SumOver(f, T)}
<1>nat. \A T \in SUBSET S : SumOver(f, T) \in Nat
  BY FS_Subset, SumNat
<1>1. {} \in G
  BY <1>nat
<1>2. ASSUME NEW T \in SUBSET S, T # {}, \A x \in T : T \ {x} \in G PROVE T \in G
  <2>. SUFFICES ASSUME NEW V \in SUBSET T PROVE SumOver(f, V) <= SumOver(f, T)
    OBVIOUS
  <2>1. PICK x \in T : TRUE
    BY <1>2
  <2>2. SumOver(f, T) = f[x] + SumOver(f, T \ {x}) /\ f[x] \in Nat
    BY FS_Subset, SumRemove
  <2>3. SumOver(f, T \ {x}) \in Nat /\ SumOver(f, V \ {x}) \in Nat
    BY <1>nat
  <2>4. SumOver(f, V \ {x}) <= SumOver(f, T \ {x})
    BY <1>2, V \ {x} \in SUBSET (T \ {x})
  <2>5. CASE x \in V
    <3>1. SumOver(f, V) = f[x] + SumOver(f, V \ {x})
      BY <2>5, FS_Subset, SumRemove
    <3>. QED BY <3>1, <2>2, <2>3, <2>4
  <2>6. CASE x \notin V
    <3>1. V \ {x} = V
      BY <2>6
    <3>2. SumOver(f, V) <= SumOver(f, T \ {x})
      BY <3>1, <2>4
    <3>3. SumOver(f, V) \in Nat
      BY <1>nat
    <3>. QED BY <3>2, <3>3, <2>2, <2>3
  <2>. QED BY <2>5, <2>6
<1>. HIDE DEF G
<1>3. SUBSET S \subseteq G
  BY <1>1, <1>2, SubsetInduction
<1>. QED BY <1>3 DEF G

\* What one change does to a sum.
LEMMA SumUpdate ==
  ASSUME NEW f, NEW g, NEW S, IsFiniteSet(S), NEW y \in S,
         \A x \in S : f[x] \in Int /\ g[x] \in Int,
         \A x \in S \ {y} : f[x] = g[x]
  PROVE  SumOver(g, S) = SumOver(f, S) - f[y] + g[y]
<1>1. SumOver(f, S) = f[y] + SumOver(f, S \ {y}) /\ SumOver(g, S) = g[y] + SumOver(g, S \ {y})
  BY SumRemove
<1>2. IsFiniteSet(S \ {y})
  BY FS_Subset
<1>3. SumOver(f, S \ {y}) = SumOver(g, S \ {y}) /\ SumOver(f, S \ {y}) \in Int
  BY <1>2, SumSame, SumInt
<1>. QED BY <1>1, <1>3

\* What holds in proportion for every term holds for the sum.
LEMMA SumProportion ==
  ASSUME NEW f, NEW g, NEW S, IsFiniteSet(S), NEW p \in Nat, NEW q \in Nat,
         \A x \in S : f[x] \in Nat /\ g[x] \in Nat /\ f[x] * p <= g[x] * q
  PROVE  SumOver(f, S) * p <= SumOver(g, S) * q
<1>. DEFINE G == {T \in SUBSET S : SumOver(f, T) * p <= SumOver(g, T) * q}
<1>1. {} \in G
  BY SumEmpty
<1>2. ASSUME NEW T \in SUBSET S, T # {}, \A x \in T : T \ {x} \in G PROVE T \in G
  <2>1. /\ Pick(T) \in T
        /\ SumOver(f, T) = f[Pick(T)] + SumOver(f, T \ {Pick(T)})
        /\ SumOver(g, T) = g[Pick(T)] + SumOver(g, T \ {Pick(T)})
    BY <1>2, FS_Subset, SumPick
  <2>2. SumOver(f, T \ {Pick(T)}) \in Nat /\ SumOver(g, T \ {Pick(T)}) \in Nat
    <3>1. IsFiniteSet(T \ {Pick(T)}) /\ \A x \in T \ {Pick(T)} : f[x] \in Nat /\ g[x] \in Nat
      BY FS_Subset
    <3>. QED BY <3>1, SumNat
  <2>3. SumOver(f, T \ {Pick(T)}) * p <= SumOver(g, T \ {Pick(T)}) * q
    BY <2>1, <1>2
  <2>4. f[Pick(T)] \in Nat /\ g[Pick(T)] \in Nat /\ f[Pick(T)] * p <= g[Pick(T)] * q
    BY <2>1
  <2>5. \A i, j, k, l \in Nat : i * p <= j * q /\ k * p <= l * q => (i + k) * p <= (j + l) * q
    OBVIOUS
  <2>6. SumOver(f, T) * p <= SumOver(g, T) * q
    BY <2>1, <2>2, <2>3, <2>4, <2>5
  <2>. QED BY <2>6
<1>. HIDE DEF G
<1>3. SUBSET S \subseteq G
  BY <1>1, <1>2, SubsetInduction
<1>. QED BY <1>3 DEF G

\* The sum of sums.
LEMMA SumPlus ==
  ASSUME NEW f, NEW g, NEW h, NEW S, IsFiniteSet(S),
         \A x \in S : f[x] \in Int /\ g[x] \in Int /\ h[x] = f[x] + g[x]
  PROVE  SumOver(h, S) = SumOver(f, S) + SumOver(g, S)
<1>. DEFINE G == {T \in SUBSET S : SumOver(h, T) = SumOver(f, T) + SumOver(g, T)}
<1>1. {} \in G
  BY SumEmpty
<1>2. ASSUME NEW T \in SUBSET S, T # {}, \A x \in T : T \ {x} \in G PROVE T \in G
  <2>1. PICK y \in T : TRUE
    BY <1>2
  <2>2. IsFiniteSet(T) /\ IsFiniteSet(T \ {y})
    BY FS_Subset
  <2>3. SumOver(f, T \ {y}) \in Int /\ SumOver(g, T \ {y}) \in Int
    BY <2>2, SumInt
  <2>4. SumOver(f, T) = f[y] + SumOver(f, T \ {y}) /\ SumOver(g, T) = g[y] + SumOver(g, T \ {y})
    BY <2>2, SumRemove
  <2>5. SumOver(h, T) = h[y] + SumOver(h, T \ {y})
    <3>1. \A x \in T : h[x] \in Int
      OBVIOUS
    <3>. QED BY <2>2, <3>1, SumRemove
  <2>6. SumOver(h, T \ {y}) = SumOver(f, T \ {y}) + SumOver(g, T \ {y})
    BY <1>2
  <2>. QED BY <2>3, <2>4, <2>5, <2>6
<1>. HIDE DEF G
<1>3. SUBSET S \subseteq G
  BY <1>1, <1>2, SubsetInduction
<1>. QED BY <1>3 DEF G

\* One for each.
LEMMA SumOnes ==
  ASSUME NEW f, NEW S, IsFiniteSet(S), \A x \in S : f[x] = 1
  PROVE  SumOver(f, S) = Cardinality(S)
<1>. DEFINE G == {T \in SUBSET S : SumOver(f, T) = Cardinality(T)}
<1>1. {} \in G
  BY SumEmpty, FS_EmptySet
<1>2. ASSUME NEW T \in SUBSET S, T # {}, \A x \in T : T \ {x} \in G PROVE T \in G
  <2>1. PICK y \in T : TRUE
    BY <1>2
  <2>2. IsFiniteSet(T)
    BY FS_Subset
  <2>3. SumOver(f, T) = 1 + SumOver(f, T \ {y})
    <3>1. \A x \in T : f[x] \in Int
      OBVIOUS
    <3>. QED BY <2>2, <3>1, SumRemove
  <2>4. Cardinality(T \ {y}) = Cardinality(T) - 1 /\ Cardinality(T) \in Nat
    BY <2>2, FS_RemoveElement, FS_CardinalityType
  <2>. QED BY <1>2, <2>3, <2>4
<1>. HIDE DEF G
<1>3. SUBSET S \subseteq G
  BY <1>1, <1>2, SubsetInduction
<1>. QED BY <1>3 DEF G

\* Zeros do not count.
LEMMA SumSupport ==
  ASSUME NEW f, NEW S, IsFiniteSet(S), NEW U \in SUBSET S,
         \A x \in S : f[x] \in Int, \A x \in S \ U : f[x] = 0
  PROVE  SumOver(f, S) = SumOver(f, U)
<1>. DEFINE G == {T \in SUBSET S : SumOver(f, T) = SumOver(f, T \cap U)}
<1>1. {} \in G
  <2>1. {} \cap U = {}
    OBVIOUS
  <2>. QED BY <2>1
<1>2. ASSUME NEW T \in SUBSET S, T # {}, \A x \in T : T \ {x} \in G PROVE T \in G
  <2>1. PICK y \in T : TRUE
    BY <1>2
  <2>2. IsFiniteSet(T) /\ IsFiniteSet(T \cap U) /\ IsFiniteSet((T \cap U) \ {y})
    BY FS_Subset
  <2>3. SumOver(f, T) = f[y] + SumOver(f, T \ {y})
    BY <2>2, SumRemove
  <2>4. SumOver(f, T \ {y}) = SumOver(f, (T \cap U) \ {y})
    <3>1. (T \ {y}) \cap U = (T \cap U) \ {y}
      OBVIOUS
    <3>. QED BY <1>2, <3>1
  <2>5. CASE y \in U
    <3>1. SumOver(f, T \cap U) = f[y] + SumOver(f, (T \cap U) \ {y})
      BY <2>2, <2>5, SumRemove
    <3>. QED BY <2>3, <2>4, <3>1
  <2>6. CASE y \notin U
    <3>1. (T \cap U) \ {y} = T \cap U /\ f[y] = 0
      BY <2>6
    <3>2. SumOver(f, T \cap U) \in Int
      BY <2>2, SumInt
    <3>3. SumOver(f, T) = 0 + SumOver(f, T \cap U)
      BY <2>3, <2>4, <3>1
    <3>. QED BY <3>2, <3>3
  <2>. QED BY <2>5, <2>6
<1>. HIDE DEF G
<1>3. SUBSET S \subseteq G
  BY <1>1, <1>2, SubsetInduction
<1>4. S \cap U = U
  OBVIOUS
<1>. QED BY <1>3, <1>4 DEF G
=============================================================================
