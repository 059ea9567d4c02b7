-------------------------------- MODULE Sums --------------------------------
(***************************************************************************)
(* Sums of a function over a finite set: what SumFunction of the community *)
(* module Functions computes, for every function.  It folds in the order   *)
(* in which CHOOSE picks the elements; SumAt says that any order will do.  *)
(*                                                                         *)
(* Each induction is over the number of elements, in the form of the least *)
(* counterexample (Least), since the theorems of the library that take the *)
(* induction hypothesis as an operator cannot be instantiated.             *)
(***************************************************************************)
EXTENDS Functions, Integers, FiniteSetTheorems, WellFoundedInduction, TLAPS

LEMMA Least ==
  ASSUME NEW T \in SUBSET Nat, T # {}
  PROVE  \E n \in T : \A m \in T : n <= m
<1>1. PICK n \in T : \A m \in T : ~ (<<m, n>> \in OpToRel(<, Nat))
  BY WFMin, NatLessThanWellFounded
<1>2. \A m \in T : ~(m < n)
  BY <1>1 DEF OpToRel
<1> QED BY <1>2

\* A set of numbers that has 0 and the successor of each of its members.
LEMMA Induct ==
  ASSUME NEW T, 0 \in T, \A n \in Nat : n \in T => n + 1 \in T
  PROVE  Nat \subseteq T
<1> SUFFICES ASSUME Nat \ T # {} PROVE FALSE
  OBVIOUS
<1>1. PICK n \in Nat \ T : \A m \in Nat \ T : n <= m
  BY Least
<1>2. n # 0 /\ n - 1 \in Nat /\ (n - 1) + 1 = n
  BY <1>1
<1>3. n - 1 \in T
  BY <1>1, <1>2
<1> QED BY <1>1, <1>2, <1>3

------------------------------------------------------------------------------
(* The fold exists: the sets up to some size have one, so all have.        *)

Pick(s) == CHOOSE x \in s : TRUE

Body(f, it, s) == IF s = {} THEN 0 ELSE f[Pick(s)] + it[s \ {Pick(s)}]

Iter(f, D) == CHOOSE it : it = [s \in SUBSET D |-> Body(f, it, s)]

LEMMA Unfold ==
  ASSUME NEW f, NEW D
  PROVE  SumFunctionOnSet(f, D) = Iter(f, D)[D]
  BY DEF SumFunctionOnSet, FoldFunctionOnSet, MapThenFoldSet, Iter, Body, Pick

Small(D, n) == {s \in SUBSET D : Cardinality(s) <= n}

LEMMA PickFacts ==
  ASSUME NEW s, IsFiniteSet(s), s # {}
  PROVE  /\ Pick(s) \in s
         /\ IsFiniteSet(s \ {Pick(s)})
         /\ Cardinality(s) \in Nat
         /\ Cardinality(s \ {Pick(s)}) \in Nat
         /\ Cardinality(s \ {Pick(s)}) = Cardinality(s) - 1
<1>1. Pick(s) \in s
  BY DEF Pick
<1> QED BY <1>1, FS_RemoveElement, FS_CardinalityType

LEMMA IterExists ==
  ASSUME NEW f, NEW D, IsFiniteSet(D)
  PROVE  \A s \in SUBSET D : Iter(f, D)[s] = Body(f, Iter(f, D), s)
<1> DEFINE T == {n \in Nat : \E it : it = [s \in Small(D, n) |-> Body(f, it, s)]}
<1>0. \A s \in SUBSET D : IsFiniteSet(s) /\ Cardinality(s) \in Nat /\ Cardinality(s) <= Cardinality(D)
  BY FS_Subset, FS_CardinalityType
<1>1. 0 \in T
  <2>1. \A s \in Small(D, 0) : s = {}
    BY <1>0, FS_EmptySet DEF Small
  <2>2. [s \in Small(D, 0) |-> 0] = [s \in Small(D, 0) |-> Body(f, [t \in Small(D, 0) |-> 0], s)]
    BY <2>1 DEF Body
  <2> QED BY <2>2
<1>2. ASSUME NEW n \in Nat, n \in T PROVE n + 1 \in T
  <2>1. PICK it : it = [s \in Small(D, n) |-> Body(f, it, s)]
    BY <1>2
  <2> DEFINE new == [s \in Small(D, n + 1) |-> Body(f, it, s)]
  <2>2. ASSUME NEW s \in Small(D, n + 1), s # {}
        PROVE  s \ {Pick(s)} \in Small(D, n) /\ s \ {Pick(s)} \in Small(D, n + 1)
    <3>1. s \ {Pick(s)} \in SUBSET D
      BY DEF Small
    <3>2. Cardinality(s) <= n + 1 /\ IsFiniteSet(s)
      BY <1>0 DEF Small
    <3>3. Cardinality(s) \in Nat /\ Cardinality(s \ {Pick(s)}) = Cardinality(s) - 1
      BY <2>2, <3>2, PickFacts
    <3>4. Cardinality(s \ {Pick(s)}) <= n /\ Cardinality(s \ {Pick(s)}) <= n + 1
      BY <3>2, <3>3
    <3> QED BY <3>1, <3>4 DEF Small
  <2>3. ASSUME NEW s \in Small(D, n) PROVE new[s] = it[s]
    <3>1. s \in Small(D, n + 1)
      BY <1>0 DEF Small
    <3>2. new[s] = Body(f, it, s)
      BY <3>1
    <3>3. it[s] = Body(f, it, s)
      BY <2>1
    <3> QED BY <3>2, <3>3
  <2>4. ASSUME NEW s \in Small(D, n + 1) PROVE Body(f, new, s) = Body(f, it, s)
    <3> HIDE DEF new
    <3> QED BY <2>2, <2>3 DEF Body
  <2>5. new = [s \in Small(D, n + 1) |-> Body(f, new, s)]
    BY <2>4
  <2> HIDE DEF new
  <2> QED BY <2>5
<1>3. Cardinality(D) \in T
  <2> HIDE DEF T
  <2>1. Nat \subseteq T
    BY <1>1, <1>2, Induct
  <2> QED BY <1>0, <2>1
<1>4. Small(D, Cardinality(D)) = SUBSET D
  BY <1>0 DEF Small
<1>5. \E it : it = [s \in SUBSET D |-> Body(f, it, s)]
  BY <1>3, <1>4
<1>6. Iter(f, D) = [s \in SUBSET D |-> Body(f, Iter(f, D), s)]
  BY <1>5 DEF Iter
<1> QED BY <1>6

\* The fold depends on the values alone that the function has in the set.
LEMMA IterAgrees ==
  ASSUME NEW f, NEW g, NEW D, NEW E, IsFiniteSet(D), IsFiniteSet(E),
         NEW s, s \subseteq D, s \subseteq E, \A x \in s : f[x] = g[x]
  PROVE  Iter(f, D)[s] = Iter(g, E)[s]
<1> DEFINE Same(n) == \A t \in SUBSET s : Cardinality(t) = n => Iter(f, D)[t] = Iter(g, E)[t]
           T == {n \in Nat : Same(n)}
<1>0. \A t \in SUBSET s : IsFiniteSet(t) /\ Cardinality(t) \in Nat
  BY FS_Subset, FS_CardinalityType
<1>1. \A t \in SUBSET s : Iter(f, D)[t] = Body(f, Iter(f, D), t) /\ Iter(g, E)[t] = Body(g, Iter(g, E), t)
  <2>1. \A t \in SUBSET D : Iter(f, D)[t] = Body(f, Iter(f, D), t)
    BY IterExists
  <2>2. \A t \in SUBSET E : Iter(g, E)[t] = Body(g, Iter(g, E), t)
    BY IterExists
  <2> QED BY <2>1, <2>2
<1>2. 0 \in T
  <2>1. \A t \in SUBSET s : Cardinality(t) = 0 => t = {}
    BY <1>0, FS_EmptySet
  <2> QED BY <1>1, <2>1 DEF Body
<1>3. ASSUME NEW n \in Nat, n \in T PROVE n + 1 \in T
  <2> SUFFICES ASSUME NEW t \in SUBSET s, Cardinality(t) = n + 1
               PROVE  Iter(f, D)[t] = Iter(g, E)[t]
    OBVIOUS
  <2>1. t # {}
    BY <1>0, FS_EmptySet
  <2>2. Pick(t) \in t /\ t \ {Pick(t)} \in SUBSET s /\ Cardinality(t \ {Pick(t)}) = n
    BY <1>0, <2>1, PickFacts
  <2>3. Iter(f, D)[t \ {Pick(t)}] = Iter(g, E)[t \ {Pick(t)}]
    BY <1>3, <2>2
  <2> QED BY <1>1, <2>1, <2>2, <2>3 DEF Body
<1>4. Cardinality(s) \in T
  <2> HIDE DEF T
  <2>1. Nat \subseteq T
    BY <1>2, <1>3, Induct
  <2> QED BY <1>0, <2>1
<1> QED BY <1>4

------------------------------------------------------------------------------
(* What the sum is                                                         *)

\* Only the values in the set count.
LEMMA SumAgrees ==
  ASSUME NEW D, IsFiniteSet(D), NEW f, NEW g, \A x \in D : f[x] = g[x]
  PROVE  SumFunctionOnSet(f, D) = SumFunctionOnSet(g, D)
  BY Unfold, IterAgrees

LEMMA SumEmpty ==
  ASSUME NEW f
  PROVE  SumFunctionOnSet(f, {}) = 0
<1>1. Iter(f, {})[{}] = Body(f, Iter(f, {}), {})
  BY IterExists, FS_EmptySet
<1> QED BY <1>1, Unfold DEF Body

LEMMA SumPick ==
  ASSUME NEW D, IsFiniteSet(D), D # {}, NEW f
  PROVE  SumFunctionOnSet(f, D) = f[Pick(D)] + SumFunctionOnSet(f, D \ {Pick(D)})
<1>1. Iter(f, D)[D] = f[Pick(D)] + Iter(f, D)[D \ {Pick(D)}]
  BY IterExists DEF Body
<1>2. Iter(f, D)[D \ {Pick(D)}] = Iter(f, D \ {Pick(D)})[D \ {Pick(D)}]
  BY IterAgrees, PickFacts
<1> QED BY <1>1, <1>2, Unfold

LEMMA SumIsInt ==
  ASSUME NEW D, IsFiniteSet(D), NEW f, \A x \in D : f[x] \in Int
  PROVE  SumFunctionOnSet(f, D) \in Int
<1> DEFINE Good(n) == \A s \in SUBSET D : Cardinality(s) = n => SumFunctionOnSet(f, s) \in Int
           T == {n \in Nat : Good(n)}
<1>0. \A s \in SUBSET D : IsFiniteSet(s) /\ Cardinality(s) \in Nat
  BY FS_Subset, FS_CardinalityType
<1>1. 0 \in T
  BY <1>0, FS_EmptySet, SumEmpty
<1>2. ASSUME NEW n \in Nat, n \in T PROVE n + 1 \in T
  <2> SUFFICES ASSUME NEW s \in SUBSET D, Cardinality(s) = n + 1
               PROVE  SumFunctionOnSet(f, s) \in Int
    OBVIOUS
  <2>1. s # {} /\ IsFiniteSet(s)
    BY <1>0, FS_EmptySet
  <2>2. Pick(s) \in s /\ s \ {Pick(s)} \in SUBSET D /\ Cardinality(s \ {Pick(s)}) = n
    BY <2>1, PickFacts
  <2>3. SumFunctionOnSet(f, s \ {Pick(s)}) \in Int
    BY <1>2, <2>2
  <2>4. SumFunctionOnSet(f, s) = f[Pick(s)] + SumFunctionOnSet(f, s \ {Pick(s)})
    BY <2>1, SumPick
  <2> QED BY <2>2, <2>3, <2>4
<1>3. Cardinality(D) \in T
  <2> HIDE DEF T
  <2>1. Nat \subseteq T
    BY <1>1, <1>2, Induct
  <2> QED BY <1>0, <2>1
<1> QED BY <1>3

\* Any element may be added last.
LEMMA SumAt ==
  ASSUME NEW D, IsFiniteSet(D), NEW f, \A x \in D : f[x] \in Int, NEW a \in D
  PROVE  SumFunctionOnSet(f, D) = f[a] + SumFunctionOnSet(f, D \ {a})
<1> DEFINE Good(n) ==
      \A s \in SUBSET D : Cardinality(s) = n =>
        \A x \in s : SumFunctionOnSet(f, s) = f[x] + SumFunctionOnSet(f, s \ {x})
           T == {n \in Nat : Good(n)}
<1>0. \A s \in SUBSET D : IsFiniteSet(s) /\ Cardinality(s) \in Nat
  BY FS_Subset, FS_CardinalityType
<1>1. 0 \in T
  BY <1>0, FS_EmptySet
<1>2. ASSUME NEW n \in Nat, n \in T PROVE n + 1 \in T
  <2> SUFFICES ASSUME NEW s \in SUBSET D, Cardinality(s) = n + 1, NEW x \in s
               PROVE  SumFunctionOnSet(f, s) = f[x] + SumFunctionOnSet(f, s \ {x})
    OBVIOUS
  <2> DEFINE p == Pick(s)
  <2>1. IsFiniteSet(s) /\ s # {}
    BY <1>0
  <2>2. p \in s /\ Cardinality(s \ {p}) = n
    <3>1. p \in s /\ Cardinality(s \ {p}) = Cardinality(s) - 1
      BY <2>1, PickFacts
    <3> QED BY <3>1
  <2>3. Cardinality(s \ {x}) = n
    <3>1. Cardinality(s \ {x}) = Cardinality(s) - 1
      BY <2>1, FS_RemoveElement
    <3> QED BY <3>1
  <2>4. SumFunctionOnSet(f, s) = f[p] + SumFunctionOnSet(f, s \ {p})
    BY <2>1, SumPick
  <2> HIDE DEF p
  <2>5. CASE p = x
    BY <2>4, <2>5
  <2>6. CASE p # x
    <3> DEFINE rest == SumFunctionOnSet(f, s \ {p, x})
    <3>1. SumFunctionOnSet(f, s \ {p}) = f[x] + rest
      <4>1. (s \ {p}) \ {x} = s \ {p, x}
        OBVIOUS
      <4>2. SumFunctionOnSet(f, s \ {p}) = f[x] + SumFunctionOnSet(f, (s \ {p}) \ {x})
        BY <1>2, <2>2, <2>6
      <4> QED BY <4>1, <4>2
    <3>2. SumFunctionOnSet(f, s \ {x}) = f[p] + rest
      <4>1. (s \ {x}) \ {p} = s \ {p, x}
        OBVIOUS
      <4>2. SumFunctionOnSet(f, s \ {x}) = f[p] + SumFunctionOnSet(f, (s \ {x}) \ {p})
        BY <1>2, <2>2, <2>3, <2>6
      <4> QED BY <4>1, <4>2
    <3>3. rest \in Int
      BY <1>0, SumIsInt
    <3>4. f[p] \in Int /\ f[x] \in Int
      BY <2>2
    <3> HIDE DEF rest
    <3> QED BY <2>4, <3>1, <3>2, <3>3, <3>4
  <2> QED BY <2>5, <2>6
<1>3. Cardinality(D) \in T
  <2> HIDE DEF T
  <2>1. Nat \subseteq T
    BY <1>1, <1>2, Induct
  <2> QED BY <1>0, <2>1
<1> QED BY <1>3


LEMMA SumIsNat ==
  ASSUME NEW D, IsFiniteSet(D), NEW f, \A x \in D : f[x] \in Nat
  PROVE  SumFunctionOnSet(f, D) \in Nat
<1> DEFINE Good(n) == \A s \in SUBSET D : Cardinality(s) = n => SumFunctionOnSet(f, s) \in Nat
           T == {n \in Nat : Good(n)}
<1>0. \A s \in SUBSET D : IsFiniteSet(s) /\ Cardinality(s) \in Nat
  BY FS_Subset, FS_CardinalityType
<1>1. 0 \in T
  BY <1>0, FS_EmptySet, SumEmpty
<1>2. ASSUME NEW n \in Nat, n \in T PROVE n + 1 \in T
  <2> SUFFICES ASSUME NEW s \in SUBSET D, Cardinality(s) = n + 1
               PROVE  SumFunctionOnSet(f, s) \in Nat
    OBVIOUS
  <2>1. s # {} /\ IsFiniteSet(s)
    BY <1>0, FS_EmptySet
  <2>2. Pick(s) \in s /\ s \ {Pick(s)} \in SUBSET D /\ Cardinality(s \ {Pick(s)}) = n
    BY <2>1, PickFacts
  <2>3. SumFunctionOnSet(f, s \ {Pick(s)}) \in Nat
    BY <1>2, <2>2
  <2>4. SumFunctionOnSet(f, s) = f[Pick(s)] + SumFunctionOnSet(f, s \ {Pick(s)})
    BY <2>1, SumPick
  <2> QED BY <2>2, <2>3, <2>4
<1>3. Cardinality(D) \in T
  <2> HIDE DEF T
  <2>1. Nat \subseteq T
    BY <1>1, <1>2, Induct
  <2> QED BY <1>0, <2>1
<1> QED BY <1>3

\* The sum of two functions.
LEMMA SumPlus ==
  ASSUME NEW D, IsFiniteSet(D), NEW f, NEW g, NEW h,
         \A x \in D : f[x] \in Int /\ g[x] \in Int /\ h[x] = f[x] + g[x]
  PROVE  SumFunctionOnSet(h, D) = SumFunctionOnSet(f, D) + SumFunctionOnSet(g, D)
<1> DEFINE Good(n) ==
      \A s \in SUBSET D : Cardinality(s) = n =>
        SumFunctionOnSet(h, s) = SumFunctionOnSet(f, s) + SumFunctionOnSet(g, s)
           T == {n \in Nat : Good(n)}
<1>0. \A s \in SUBSET D : IsFiniteSet(s) /\ Cardinality(s) \in Nat
  BY FS_Subset, FS_CardinalityType
<1>1. 0 \in T
  <2>1. \A s \in SUBSET D : Cardinality(s) = 0 => s = {}
    BY <1>0, FS_EmptySet
  <2>2. /\ SumFunctionOnSet(f, {}) = 0 /\ SumFunctionOnSet(g, {}) = 0
        /\ SumFunctionOnSet(h, {}) = 0
    BY SumEmpty
  <2>3. SumFunctionOnSet(h, {}) = SumFunctionOnSet(f, {}) + SumFunctionOnSet(g, {})
    BY <2>2
  <2> QED BY <2>1, <2>3
<1>2. ASSUME NEW n \in Nat, n \in T PROVE n + 1 \in T
  <2> SUFFICES ASSUME NEW s \in SUBSET D, Cardinality(s) = n + 1
               PROVE  SumFunctionOnSet(h, s) = SumFunctionOnSet(f, s) + SumFunctionOnSet(g, s)
    OBVIOUS
  <2> DEFINE rest == s \ {Pick(s)}
  <2>1. s # {} /\ IsFiniteSet(s)
    BY <1>0, FS_EmptySet
  <2>2. Pick(s) \in s /\ rest \in SUBSET D /\ Cardinality(rest) = n
    <3>1. Pick(s) \in s /\ Cardinality(rest) = Cardinality(s) - 1
      BY <2>1, PickFacts
    <3> QED BY <3>1
  <2>3. SumFunctionOnSet(h, rest) = SumFunctionOnSet(f, rest) + SumFunctionOnSet(g, rest)
    BY <1>2, <2>2
  <2>4. SumFunctionOnSet(f, rest) \in Int /\ SumFunctionOnSet(g, rest) \in Int
    BY <1>0, <2>2, SumIsInt
  <2>5. /\ SumFunctionOnSet(f, s) = f[Pick(s)] + SumFunctionOnSet(f, rest)
        /\ SumFunctionOnSet(g, s) = g[Pick(s)] + SumFunctionOnSet(g, rest)
        /\ SumFunctionOnSet(h, s) = h[Pick(s)] + SumFunctionOnSet(h, rest)
    BY <2>1, SumPick
  <2>6. /\ f[Pick(s)] \in Int /\ g[Pick(s)] \in Int
        /\ h[Pick(s)] = f[Pick(s)] + g[Pick(s)]
    BY <2>2
  <2> HIDE DEF rest
  <2> QED BY <2>3, <2>4, <2>5, <2>6
<1>3. Cardinality(D) \in T
  <2> HIDE DEF T
  <2>1. Nat \subseteq T
    BY <1>1, <1>2, Induct
  <2> QED BY <1>0, <2>1
<1> QED BY <1>3

\* Where one function is below another, so are the sums.
LEMMA SumMonotonic ==
  ASSUME NEW D, IsFiniteSet(D), NEW f, NEW g,
         \A x \in D : f[x] \in Int /\ g[x] \in Int /\ f[x] <= g[x]
  PROVE  SumFunctionOnSet(f, D) <= SumFunctionOnSet(g, D)
<1> DEFINE h == [x \in D |-> g[x] - f[x]]
<1>1. \A x \in D : h[x] \in Nat /\ g[x] = f[x] + h[x]
  OBVIOUS
<1> HIDE DEF h
<1>2. SumFunctionOnSet(g, D) = SumFunctionOnSet(f, D) + SumFunctionOnSet(h, D)
  BY <1>1, SumPlus
<1>3. SumFunctionOnSet(h, D) \in Nat /\ SumFunctionOnSet(f, D) \in Int
  BY <1>1, SumIsNat, SumIsInt
<1> QED BY <1>2, <1>3

\* One more element, one fewer, one other value.
LEMMA SumInsert ==
  ASSUME NEW D, IsFiniteSet(D), NEW f, NEW g, NEW a, a \notin D,
         g[a] \in Int, \A x \in D : f[x] \in Int /\ g[x] = f[x]
  PROVE  SumFunctionOnSet(g, D \cup {a}) = SumFunctionOnSet(f, D) + g[a]
<1>1. IsFiniteSet(D \cup {a})
  BY FS_AddElement
<1>2. \A x \in D \cup {a} : g[x] \in Int
  OBVIOUS
<1>3. (D \cup {a}) \ {a} = D
  OBVIOUS
<1>4. SumFunctionOnSet(g, D \cup {a}) = g[a] + SumFunctionOnSet(g, D)
  <2>1. SumFunctionOnSet(g, D \cup {a}) = g[a] + SumFunctionOnSet(g, (D \cup {a}) \ {a})
    BY <1>1, <1>2, SumAt
  <2> QED BY <1>3, <2>1
<1>5. SumFunctionOnSet(g, D) = SumFunctionOnSet(f, D)
  BY SumAgrees
<1>6. SumFunctionOnSet(f, D) \in Int
  BY SumIsInt
<1> QED BY <1>4, <1>5, <1>6

LEMMA SumRemove ==
  ASSUME NEW D, IsFiniteSet(D), NEW f, NEW g, NEW a \in D,
         \A x \in D : f[x] \in Int, \A x \in D \ {a} : g[x] = f[x]
  PROVE  SumFunctionOnSet(g, D \ {a}) = SumFunctionOnSet(f, D) - f[a]
<1>1. SumFunctionOnSet(f, D) = f[a] + SumFunctionOnSet(f, D \ {a})
  BY SumAt
<1>2. IsFiniteSet(D \ {a})
  BY FS_RemoveElement
<1>3. SumFunctionOnSet(g, D \ {a}) = SumFunctionOnSet(f, D \ {a})
  BY <1>2, SumAgrees
<1>4. SumFunctionOnSet(f, D \ {a}) \in Int
  BY <1>2, SumIsInt
<1> QED BY <1>1, <1>3, <1>4

LEMMA SumChange ==
  ASSUME NEW D, IsFiniteSet(D), NEW f, NEW g, NEW a \in D,
         g[a] \in Int, \A x \in D : f[x] \in Int, \A x \in D \ {a} : g[x] = f[x]
  PROVE  SumFunctionOnSet(g, D) = SumFunctionOnSet(f, D) - f[a] + g[a]
<1>1. SumFunctionOnSet(g, D) = g[a] + SumFunctionOnSet(g, D \ {a})
  BY SumAt
<1>2. SumFunctionOnSet(g, D \ {a}) = SumFunctionOnSet(f, D) - f[a]
  BY SumRemove
<1>3. SumFunctionOnSet(f, D) \in Int
  BY SumIsInt
<1> QED BY <1>1, <1>2, <1>3

\* No value is more than the sum.
LEMMA SumBounds ==
  ASSUME NEW D, IsFiniteSet(D), NEW f, \A x \in D : f[x] \in Nat, NEW a \in D
  PROVE  f[a] <= SumFunctionOnSet(f, D)
<1>1. SumFunctionOnSet(f, D) = f[a] + SumFunctionOnSet(f, D \ {a})
  BY SumAt
<1>2. SumFunctionOnSet(f, D \ {a}) \in Nat
  BY FS_RemoveElement, SumIsNat
<1> QED BY <1>1, <1>2

\* What is 0 does not count.
LEMMA SumSupport ==
  ASSUME NEW D, IsFiniteSet(D), NEW E, NEW f, NEW g,
         \A x \in D \cap E : g[x] \in Int /\ f[x] = g[x], \A x \in D \ E : f[x] = 0
  PROVE  SumFunctionOnSet(f, D) = SumFunctionOnSet(g, D \cap E)
<1> DEFINE Good(n) ==
      \A s \in SUBSET D : Cardinality(s) = n =>
        SumFunctionOnSet(f, s) = SumFunctionOnSet(g, s \cap E)
           T == {n \in Nat : Good(n)}
<1>0. \A s \in SUBSET D : IsFiniteSet(s) /\ Cardinality(s) \in Nat
  BY FS_Subset, FS_CardinalityType
<1>1. 0 \in T
  <2>1. \A s \in SUBSET D : Cardinality(s) = 0 => s = {}
    BY <1>0, FS_EmptySet
  <2>2. SumFunctionOnSet(f, {}) = 0 /\ SumFunctionOnSet(g, {}) = 0
    BY SumEmpty
  <2>3. {} \cap E = {}
    OBVIOUS
  <2> QED BY <2>1, <2>2, <2>3
<1>2. ASSUME NEW n \in Nat, n \in T PROVE n + 1 \in T
  <2> SUFFICES ASSUME NEW s \in SUBSET D, Cardinality(s) = n + 1
               PROVE  SumFunctionOnSet(f, s) = SumFunctionOnSet(g, s \cap E)
    OBVIOUS
  <2> DEFINE p    == Pick(s)
             rest == s \ {p}
             sum  == SumFunctionOnSet(g, rest \cap E)
  <2>1. s # {} /\ IsFiniteSet(s)
    BY <1>0, FS_EmptySet
  <2>2. p \in s /\ rest \in SUBSET D /\ Cardinality(rest) = n
    <3>1. p \in s /\ Cardinality(rest) = Cardinality(s) - 1
      BY <2>1, PickFacts
    <3> QED BY <3>1
  <2>3. SumFunctionOnSet(f, rest) = sum
    BY <1>2, <2>2
  <2>4. SumFunctionOnSet(f, s) = f[p] + SumFunctionOnSet(f, rest)
    BY <2>1, SumPick
  <2>5. IsFiniteSet(s \cap E) /\ IsFiniteSet(rest \cap E) /\ s \cap E \subseteq D
    BY <1>0, <2>2
  <2>6. sum \in Int
    <3>1. \A x \in rest \cap E : g[x] \in Int
      BY <2>2
    <3> QED BY <2>5, <3>1, SumIsInt
  <2>7. CASE p \in E
    <3>1. (s \cap E) \ {p} = rest \cap E
      OBVIOUS
    <3>2. SumFunctionOnSet(g, s \cap E) = g[p] + SumFunctionOnSet(g, (s \cap E) \ {p})
      BY <2>2, <2>5, <2>7, SumAt
    <3>3. SumFunctionOnSet(g, s \cap E) = g[p] + sum
      BY <3>1, <3>2
    <3>4. f[p] = g[p]
      BY <2>2, <2>7
    <3> HIDE DEF sum, rest, p
    <3> QED BY <2>3, <2>4, <3>3, <3>4
  <2>8. CASE p \notin E
    <3>1. s \cap E = rest \cap E
      BY <2>8
    <3>2. SumFunctionOnSet(g, s \cap E) = sum
      BY <3>1
    <3>3. f[p] = 0
      BY <2>2, <2>8
    <3> HIDE DEF sum, rest, p
    <3> QED BY <2>3, <2>4, <2>6, <3>2, <3>3
  <2> QED BY <2>7, <2>8
<1>3. Cardinality(D) \in T
  <2> HIDE DEF T
  <2>1. Nat \subseteq T
    BY <1>1, <1>2, Induct
  <2> QED BY <1>0, <2>1
<1> QED BY <1>3

=============================================================================
