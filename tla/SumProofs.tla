----------------------------- MODULE SumProofs -----------------------------
(***************************************************************************)
(* The sum of a function over a finite set of indices, SumFunctionOnSet of *)
(* the module Functions: it exists, it is a natural number, any index may  *)
(* be taken out of it and it depends on the values at its indices only.    *)
(* These facts are about a recursive function of sets; each is proved by   *)
(* taking a set it fails for that is minimal under strict inclusion.       *)
(***************************************************************************)
EXTENDS Integers, FiniteSets, Functions, FiniteSetTheorems, TLAPS

AnyOf(s) == CHOOSE x \in s : TRUE

(* What the sum of f over the subsets of D does at each of them.            *)
SumsUp(g, f, D) ==
    g = [s \in SUBSET D |->
            IF s = {} THEN 0 ELSE f[AnyOf(s)] + g[s \ {AnyOf(s)}]]

LEMMA SumIsChosen ==
    ASSUME NEW f, NEW D
    PROVE  SumFunctionOnSet(f, D) = (CHOOSE g : SumsUp(g, f, D))[D]
    BY DEF SumFunctionOnSet, FoldFunctionOnSet, MapThenFoldSet, SumsUp, AnyOf

LEMMA AnyOfIn ==
    ASSUME NEW s, s # {}
    PROVE  AnyOf(s) \in s
    BY DEF AnyOf

(* A set of subsets of a finite set that is not empty has a member none of  *)
(* whose strict subsets is in it.                                           *)
LEMMA LeastSubset ==
    ASSUME NEW D, IsFiniteSet(D), NEW B \in SUBSET (SUBSET D), B # {}
    PROVE  \E s \in B : \A r \in SUBSET s : r # s => r \notin B
<1>1. IsWellFoundedOn(StrictSubsetOrdering(D), SUBSET D)
    BY FS_StrictSubsetOrderingWellFounded, FS_FiniteSubsetsOfFinite
<1>2. PICK s \in B : \A r \in B : <<r, s>> \notin StrictSubsetOrdering(D)
    BY <1>1, WFMin
<1>3. ASSUME NEW r \in SUBSET s, r # s, r \in B
      PROVE  FALSE
  <2>1. <<r, s>> \in StrictSubsetOrdering(D)
    BY <1>3 DEF StrictSubsetOrdering
  <2> QED
    BY <1>2, <1>3, <2>1
<1> QED
    BY <1>3

LEMMA SumUnique ==
    ASSUME NEW f, NEW D, NEW E, NEW g, NEW h,
           IsFiniteSet(D), SumsUp(g, f, D), SumsUp(h, f, E),
           NEW s \in SUBSET D, s \in SUBSET E
    PROVE  g[s] = h[s]
<1> DEFINE B == {r \in SUBSET D : r \in SUBSET E /\ g[r] # h[r]}
<1> SUFFICES ASSUME B # {} PROVE FALSE
    OBVIOUS
<1>0. B \in SUBSET (SUBSET D)
    OBVIOUS
<1>1. PICK r \in B : \A q \in SUBSET r : q # r => q \notin B
  <2> HIDE DEF B
  <2> QED
    BY <1>0, LeastSubset
<1>2. CASE r = {}
    BY <1>1, <1>2 DEF SumsUp
<1>3. CASE r # {}
  <2> DEFINE q == r \ {AnyOf(r)}
  <2>1. q \in SUBSET r /\ q # r
    BY <1>3, AnyOfIn
  <2>2. g[q] = h[q]
    BY <1>1, <2>1
  <2>3. g[r] = f[AnyOf(r)] + g[q] /\ h[r] = f[AnyOf(r)] + h[q]
    BY <1>3 DEF SumsUp
  <2> QED
    BY <2>2, <2>3
<1> QED
    BY <1>2, <1>3

LEMMA SumOfOne ==
    ASSUME NEW f, NEW D, IsFiniteSet(D), NEW g, SumsUp(g, f, D),
           NEW s \in SUBSET D, \E h : SumsUp(h, f, s)
    PROVE  g[s] = SumFunctionOnSet(f, s)
<1> DEFINE h == CHOOSE h : SumsUp(h, f, s)
<1>1. SumsUp(h, f, s)
    OBVIOUS
<1>2. SumFunctionOnSet(f, s) = h[s]
    BY SumIsChosen
<1> HIDE DEF h
<1> QED
    BY <1>1, <1>2, SumUnique

LEMMA SumExists ==
    ASSUME NEW f, NEW D, IsFiniteSet(D)
    PROVE  \E g : SumsUp(g, f, D)
<1> DEFINE B == {s \in SUBSET D : ~\E g : SumsUp(g, f, s)}
<1> SUFFICES ASSUME B # {} PROVE FALSE
    OBVIOUS
<1>0. B \in SUBSET (SUBSET D)
    OBVIOUS
<1>1. PICK T \in B : \A r \in SUBSET T : r # T => r \notin B
  <2> HIDE DEF B
  <2> QED
    BY <1>0, LeastSubset
<1> DEFINE Sum(r) == SumFunctionOnSet(f, r)
           h == [s \in SUBSET T |->
                    IF s = {} THEN 0 ELSE f[AnyOf(s)] + Sum(s \ {AnyOf(s)})]
<1>2. ASSUME NEW r \in SUBSET T, r # T
      PROVE  h[r] = Sum(r)
  <2>1. IsFiniteSet(r) /\ r \in SUBSET D
    BY FS_Subset
  <2>2. PICK g : SumsUp(g, f, r)
    BY <1>1, <1>2, <2>1
  <2>3. Sum(r) = g[r]
    BY <2>1, <2>2, SumOfOne
  <2>4. CASE r = {}
    BY <2>2, <2>3, <2>4 DEF SumsUp
  <2>5. CASE r # {}
    <3> DEFINE q == r \ {AnyOf(r)}
    <3>1. q \in SUBSET T /\ q # T /\ q \in SUBSET r
      BY <1>2
    <3>2. \E k : SumsUp(k, f, q)
      BY <1>1, <3>1
    <3>3. g[q] = Sum(q)
      BY <2>1, <2>2, <3>1, <3>2, SumOfOne
    <3>4. g[r] = f[AnyOf(r)] + g[q]
      BY <2>2, <2>5 DEF SumsUp
    <3>5. h[r] = f[AnyOf(r)] + Sum(q)
      BY <2>5
    <3> QED
      BY <2>3, <3>3, <3>4, <3>5
  <2> QED
    BY <2>4, <2>5
<1>3. ASSUME NEW s \in SUBSET T, s # {}
      PROVE  h[s] = f[AnyOf(s)] + h[s \ {AnyOf(s)}]
  <2>1. s \ {AnyOf(s)} \in SUBSET T /\ s \ {AnyOf(s)} # T
    BY <1>3, AnyOfIn
  <2>2. h[s \ {AnyOf(s)}] = Sum(s \ {AnyOf(s)})
    BY <1>2, <2>1
  <2> QED
    BY <1>3, <2>2
<1>4. h[{}] = 0
    OBVIOUS
<1>5. SumsUp(h, f, T)
  <2>1. h = [s \in SUBSET T |-> h[s]]
    OBVIOUS
  <2>2. \A s \in SUBSET T : h[s] = IF s = {} THEN 0
                                   ELSE f[AnyOf(s)] + h[s \ {AnyOf(s)}]
    BY <1>3, <1>4
  <2> HIDE DEF h
  <2> QED
    BY <2>1, <2>2 DEF SumsUp
<1> QED
    BY <1>1, <1>5

LEMMA SumEmpty ==
    ASSUME NEW f
    PROVE  SumFunctionOnSet(f, {}) = 0
<1>1. PICK g : SumsUp(g, f, {})
    BY SumExists, FS_EmptySet
<1>2. g[{}] = SumFunctionOnSet(f, {})
    BY <1>1, SumOfOne, FS_EmptySet
<1> QED
    BY <1>1, <1>2 DEF SumsUp

LEMMA SumChosen ==
    ASSUME NEW f, NEW D, IsFiniteSet(D), D # {}
    PROVE  SumFunctionOnSet(f, D)
               = f[AnyOf(D)] + SumFunctionOnSet(f, D \ {AnyOf(D)})
<1>1. PICK g : SumsUp(g, f, D)
    BY SumExists
<1>2. ASSUME NEW s \in SUBSET D
      PROVE  g[s] = SumFunctionOnSet(f, s)
  <2>1. IsFiniteSet(s)
    BY FS_Subset
  <2>2. \E h : SumsUp(h, f, s)
    BY <2>1, SumExists
  <2> QED
    BY <1>1, <2>2, SumOfOne
<1>3. g[D] = f[AnyOf(D)] + g[D \ {AnyOf(D)}]
    BY <1>1 DEF SumsUp
<1> QED
    BY <1>2, <1>3

LEMMA SumTyped ==
    ASSUME NEW I, NEW f \in [I -> Nat], NEW D \in SUBSET I, IsFiniteSet(D)
    PROVE  SumFunctionOnSet(f, D) \in Nat
<1> DEFINE B == {s \in SUBSET D : SumFunctionOnSet(f, s) \notin Nat}
<1> SUFFICES ASSUME B # {} PROVE FALSE
    OBVIOUS
<1>0. B \in SUBSET (SUBSET D)
    OBVIOUS
<1>1. PICK s \in B : \A r \in SUBSET s : r # s => r \notin B
  <2> HIDE DEF B
  <2> QED
    BY <1>0, LeastSubset
<1>2. s # {}
  <2>1. SumFunctionOnSet(f, s) \notin Nat
    OBVIOUS
  <2> HIDE DEF B
  <2> QED
    BY <2>1, SumEmpty
<1>3. AnyOf(s) \in I /\ s \ {AnyOf(s)} \in SUBSET s /\ s \ {AnyOf(s)} # s
    BY <1>1, <1>2, AnyOfIn
<1>4. SumFunctionOnSet(f, s \ {AnyOf(s)}) \in Nat
    BY <1>1, <1>3
<1>5. IsFiniteSet(s)
    BY <1>1, FS_Subset
<1> QED
    BY <1>1, <1>2, <1>3, <1>4, <1>5, SumChosen

(* Any index may be taken out of the sum.                                   *)
LEMMA SumRemove ==
    ASSUME NEW I, NEW f \in [I -> Nat], NEW D \in SUBSET I, IsFiniteSet(D),
           NEW z \in D
    PROVE  SumFunctionOnSet(f, D) = f[z] + SumFunctionOnSet(f, D \ {z})
<1> DEFINE Sum(s) == SumFunctionOnSet(f, s)
           B == {s \in SUBSET D : \E x \in s : Sum(s) # f[x] + Sum(s \ {x})}
<1> SUFFICES ASSUME B # {} PROVE FALSE
    OBVIOUS
<1>0. B \in SUBSET (SUBSET D)
    OBVIOUS
<1>1. PICK s \in B : \A r \in SUBSET s : r # s => r \notin B
  <2> HIDE DEF B
  <2> QED
    BY <1>0, LeastSubset
<1>2. PICK x \in s : Sum(s) # f[x] + Sum(s \ {x})
    BY <1>1
<1>3. IsFiniteSet(s) /\ s # {} /\ s \in SUBSET D
    BY <1>1, <1>2, FS_Subset
<1>4. PICK y \in s : Sum(s) = f[y] + Sum(s \ {y})
    BY <1>3, SumChosen, AnyOfIn
<1>5. x # y
    BY <1>2, <1>4
<1>6. Sum(s \ {y}) = f[x] + Sum((s \ {y}) \ {x})
  <2>1. s \ {y} \in SUBSET s /\ s \ {y} # s /\ x \in s \ {y}
    BY <1>5
  <2> HIDE DEF Sum
  <2> QED
    BY <1>1, <1>3, <2>1
<1>7. Sum(s \ {x}) = f[y] + Sum((s \ {x}) \ {y})
  <2>1. s \ {x} \in SUBSET s /\ s \ {x} # s /\ y \in s \ {x}
    BY <1>5
  <2> HIDE DEF Sum
  <2> QED
    BY <1>1, <1>3, <2>1
<1>8. (s \ {x}) \ {y} = (s \ {y}) \ {x}
    OBVIOUS
<1>9. (s \ {y}) \ {x} \in SUBSET I /\ IsFiniteSet((s \ {y}) \ {x})
    BY <1>3, FS_Subset
<1>10. Sum((s \ {y}) \ {x}) \in Nat
    BY <1>9, SumTyped
<1>11. f[x] \in Nat /\ f[y] \in Nat
    BY <1>3
<1> DEFINE rest == Sum((s \ {y}) \ {x})
<1>12. Sum(s) = f[y] + (f[x] + rest) /\ Sum(s \ {x}) = f[y] + rest
    BY <1>4, <1>6, <1>7, <1>8
<1>13. rest \in Nat
    BY <1>10
<1> HIDE DEF Sum, B, rest
<1>14. f[y] + (f[x] + rest) = f[x] + (f[y] + rest)
    BY <1>11, <1>13
<1> QED
    BY <1>2, <1>12, <1>14

(* Adding an index adds its value.                                          *)
LEMMA SumAdd ==
    ASSUME NEW I, NEW f \in [I -> Nat], NEW D \in SUBSET I, IsFiniteSet(D),
           NEW x \in I, x \notin D
    PROVE  SumFunctionOnSet(f, D \cup {x}) = f[x] + SumFunctionOnSet(f, D)
<1>1. IsFiniteSet(D \cup {x}) /\ D \cup {x} \in SUBSET I
    BY FS_AddElement
<1>2. (D \cup {x}) \ {x} = D
    OBVIOUS
<1> QED
    BY <1>1, <1>2, SumRemove

(* The value at an index is at most the sum.                                *)
LEMMA SumMember ==
    ASSUME NEW I, NEW f \in [I -> Nat], NEW D \in SUBSET I, IsFiniteSet(D),
           NEW x \in D
    PROVE  f[x] <= SumFunctionOnSet(f, D)
<1>1. f[x] \in Nat /\ SumFunctionOnSet(f, D \ {x}) \in Nat
    BY SumTyped, FS_Subset
<1> QED
    BY <1>1, SumRemove

(* The sum depends on the values at its indices only.                       *)
LEMMA SumSame ==
    ASSUME NEW I, NEW f, NEW g, NEW D, IsFiniteSet(D),
           \A x \in D : f[x] = g[x]
    PROVE  SumFunctionOnSet(f, D) = SumFunctionOnSet(g, D)
<1> DEFINE B == {s \in SUBSET D : SumFunctionOnSet(f, s) # SumFunctionOnSet(g, s)}
<1> SUFFICES ASSUME B # {} PROVE FALSE
    OBVIOUS
<1>0. B \in SUBSET (SUBSET D)
    OBVIOUS
<1>1. PICK s \in B : \A r \in SUBSET s : r # s => r \notin B
  <2> HIDE DEF B
  <2> QED
    BY <1>0, LeastSubset
<1>2. SumFunctionOnSet(f, s) # SumFunctionOnSet(g, s)
    OBVIOUS
<1>3. s \in SUBSET D /\ IsFiniteSet(s)
    BY FS_Subset
<1>4. s # {}
  <2> HIDE DEF B
  <2> QED
    BY <1>2, SumEmpty
<1> DEFINE x == AnyOf(s)
<1>5. x \in s
    BY <1>4, AnyOfIn
<1>6. SumFunctionOnSet(f, s \ {x}) = SumFunctionOnSet(g, s \ {x})
  <2>1. s \ {x} \in SUBSET s /\ s \ {x} # s
    BY <1>5
  <2> HIDE DEF x
  <2> QED
    BY <1>1, <1>3, <2>1
<1>7. f[x] = g[x]
    BY <1>3, <1>5
<1>8. /\ SumFunctionOnSet(f, s) = f[x] + SumFunctionOnSet(f, s \ {x})
      /\ SumFunctionOnSet(g, s) = g[x] + SumFunctionOnSet(g, s \ {x})
    BY <1>3, <1>4, SumChosen
<1> HIDE DEF B, x
<1> QED
    BY <1>2, <1>6, <1>7, <1>8

(* One value changes.                                                       *)
LEMMA SumUpdate ==
    ASSUME NEW I, NEW f \in [I -> Nat], NEW g \in [I -> Nat],
           NEW D \in SUBSET I, IsFiniteSet(D), NEW x \in D,
           \A y \in D \ {x} : g[y] = f[y]
    PROVE  SumFunctionOnSet(g, D) + f[x] = SumFunctionOnSet(f, D) + g[x]
<1> DEFINE rest == SumFunctionOnSet(f, D \ {x})
<1>1. IsFiniteSet(D \ {x})
    BY FS_Subset
<1>2. SumFunctionOnSet(g, D \ {x}) = rest
    BY <1>1, SumSame
<1>3. rest \in Nat /\ f[x] \in Nat /\ g[x] \in Nat
    BY <1>1, SumTyped
<1>4. SumFunctionOnSet(f, D) = f[x] + rest
    BY SumRemove
<1>5. SumFunctionOnSet(g, D) = g[x] + rest
    BY <1>2, SumRemove
<1> HIDE DEF rest
<1>6. (g[x] + rest) + f[x] = (f[x] + rest) + g[x]
    BY <1>3
<1> QED
    BY <1>4, <1>5, <1>6
=============================================================================
