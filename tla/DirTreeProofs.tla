---------------------------- MODULE DirTreeProofs ----------------------------
(* Theorems about DirTree, for any names, depths, slots and numbers of     *)
(* entries: the tree stays a tree, and the rows of a subtree follow it.    *)
(* First paths as sequences of names, then tables as functions of paths,   *)
(* then the shape that every operation keeps, then the rows.               *)
EXTENDS DirTree, Sums, SequenceTheorems

------------------------------------------------------------------------------
(* Paths are sequences of names.                                           *)

Places == Seq(Names)

\* The paths of the model are places of bounded length.
LEMMA PathFacts ==
  \A p \in Paths : p \in Places /\ Len(p) \in 1..MaxDepth
<1> SUFFICES ASSUME NEW p \in Paths PROVE p \in Places /\ Len(p) \in 1..MaxDepth
  OBVIOUS
<1>1. PICK n \in 1..MaxDepth : p \in [1..n -> Names]
  BY DEF Paths
<1>2. n \in Nat
  BY <1>1, TreeAssumption
<1>3. p \in Seq(Names)
  BY <1>1, <1>2, SeqDef
<1>4. Len(p) = n
  <2>1. DOMAIN p = 1..Len(p) /\ Len(p) \in Nat
    BY <1>3, LenProperties
  <2>2. DOMAIN p = 1..n
    BY <1>1
  <2>3. PICK m : m = Len(p)
    OBVIOUS
  <2>4. \A k \in Nat : k \in 1..m <=> k \in 1..n
    BY <2>1, <2>2, <2>3
  <2>5. m \in Nat
    BY <2>1, <2>3
  <2>6. m = n
    BY <1>1, <1>2, <2>4, <2>5
  <2> QED BY <2>3, <2>6
<1> QED BY <1>1, <1>3, <1>4 DEF Places

\* Lengths and names of a place.
LEMMA PlaceFacts ==
  ASSUME NEW p \in Places
  PROVE  Len(p) \in Nat /\ \A k \in 1..Len(p) : p[k] \in Names
  BY LenProperties, ElementOfSeq DEF Places

\* Places with the same names are the same.
LEMMA PlacesEqual ==
  ASSUME NEW p \in Places, NEW q \in Places, Len(p) = Len(q), \A k \in 1..Len(p) : p[k] = q[k]
  PROVE  p = q
  BY SeqEqual DEF Places

\* What SubSeq makes of the front of a place.
LEMMA PrefixFacts ==
  ASSUME NEW p \in Places, NEW n \in 0..Len(p)
  PROVE  /\ SubSeq(p, 1, n) \in Places /\ Len(SubSeq(p, 1, n)) = n
         /\ \A k \in 1..n : SubSeq(p, 1, n)[k] = p[k]
<1>1. \A k \in 1..n : p[k] \in Names
  BY PlaceFacts
<1>2. n \in Nat
  BY PlaceFacts
<1>3. /\ SubSeq(p, 1, n) \in Seq(Names)
      /\ Len(SubSeq(p, 1, n)) = IF 1 <= n THEN n - 1 + 1 ELSE 0
      /\ \A k \in 1..n - 1 + 1 : SubSeq(p, 1, n)[k] = p[1 + k - 1]
  BY <1>1, <1>2, SubSeqProperties
<1>4. n - 1 + 1 = n /\ \A k \in 1..n : 1 + k - 1 = k
  BY <1>2
<1> QED BY <1>2, <1>3, <1>4 DEF Places

\* Within, entry by entry.
LEMMA WithinMeans ==
  ASSUME NEW d \in Places, NEW q \in Places
  PROVE  Within(d, q) <=> Len(q) >= Len(d) /\ \A k \in 1..Len(d) : q[k] = d[k]
<1>1. Len(d) \in Nat /\ Len(q) \in Nat
  BY PlaceFacts
<1>2. ASSUME Len(q) >= Len(d) PROVE SubSeq(q, 1, Len(d)) = d <=> \A k \in 1..Len(d) : q[k] = d[k]
  <2>1. Len(d) \in 0..Len(q)
    BY <1>1, <1>2
  <2>2. /\ SubSeq(q, 1, Len(d)) \in Places /\ Len(SubSeq(q, 1, Len(d))) = Len(d)
        /\ \A k \in 1..Len(d) : SubSeq(q, 1, Len(d))[k] = q[k]
    BY <2>1, PrefixFacts
  <2>3. ASSUME \A k \in 1..Len(d) : q[k] = d[k] PROVE SubSeq(q, 1, Len(d)) = d
    BY <2>2, <2>3, PlacesEqual
  <2> QED BY <2>2, <2>3
<1> QED BY <1>2 DEF Within

\* What Parent and NameOf make of a place.
LEMMA ParentFacts ==
  ASSUME NEW p \in Places, Len(p) >= 1
  PROVE  /\ Parent(p) \in Places /\ Len(Parent(p)) = Len(p) - 1
         /\ \A k \in 1..(Len(p) - 1) : Parent(p)[k] = p[k]
         /\ NameOf(p) \in Names
<1>1. Len(p) \in Nat /\ Len(p) - 1 \in 0..Len(p) /\ Len(p) \in 1..Len(p)
  BY PlaceFacts
<1> QED BY <1>1, PrefixFacts, PlaceFacts DEF Parent, NameOf

\* What Append makes of a place.
LEMMA AppendFacts ==
  ASSUME NEW d \in Places, NEW n \in Names
  PROVE  /\ Append(d, n) \in Places /\ Len(Append(d, n)) = Len(d) + 1
         /\ \A k \in 1..Len(d) : Append(d, n)[k] = d[k]
         /\ Append(d, n)[Len(d) + 1] = n
         /\ Parent(Append(d, n)) = d
<1>1. Len(d) \in Nat
  BY PlaceFacts
<1>2. /\ Append(d, n) \in Places /\ Len(Append(d, n)) = Len(d) + 1
      /\ \A k \in 1..Len(d) : Append(d, n)[k] = d[k]
      /\ Append(d, n)[Len(d) + 1] = n
  BY <1>1 DEF Places
<1>3. /\ Parent(Append(d, n)) \in Places /\ Len(Parent(Append(d, n))) = Len(d)
      /\ \A k \in 1..Len(d) : Parent(Append(d, n))[k] = d[k]
  <2>1. PICK q : q = Append(d, n)
    OBVIOUS
  <2>2. q \in Places /\ Len(q) >= 1 /\ Len(q) - 1 = Len(d)
    BY <1>1, <1>2, <2>1
  <2>3. /\ Parent(q) \in Places /\ Len(Parent(q)) = Len(d)
        /\ \A k \in 1..Len(d) : Parent(q)[k] = q[k]
    BY <2>2, ParentFacts
  <2> QED BY <1>2, <2>1, <2>3
<1>4. Parent(Append(d, n)) = d
  BY <1>3, PlacesEqual
<1> QED BY <1>2, <1>4

\* The tail of a path below src, put below dst.
LEMMA RerootFacts ==
  ASSUME NEW q \in Places, NEW src \in Places, NEW dst \in Places, Within(src, q)
  PROVE  /\ Reroot(q, src, dst) \in Places
         /\ Len(Reroot(q, src, dst)) = Len(dst) + (Len(q) - Len(src))
         /\ \A k \in 1..Len(dst) : Reroot(q, src, dst)[k] = dst[k]
         /\ \A k \in 1..(Len(q) - Len(src)) : Reroot(q, src, dst)[Len(dst) + k] = q[Len(src) + k]
<1> DEFINE tail == SubSeq(q, Len(src) + 1, Len(q))
<1>1. Len(src) \in Nat /\ Len(dst) \in Nat /\ Len(q) \in Nat /\ Len(q) >= Len(src)
  BY PlaceFacts DEF Within
<1>2. \A k \in (Len(src) + 1)..Len(q) : q[k] \in Names
  BY <1>1, PlaceFacts
<1>3. /\ tail \in Seq(Names)
      /\ Len(tail) = IF Len(src) + 1 <= Len(q) THEN Len(q) - (Len(src) + 1) + 1 ELSE 0
      /\ \A k \in 1..(Len(q) - (Len(src) + 1) + 1) : tail[k] = q[Len(src) + 1 + k - 1]
  BY <1>1, <1>2, SubSeqProperties
<1>4. /\ Len(q) - (Len(src) + 1) + 1 = Len(q) - Len(src)
      /\ \A k \in Nat : Len(src) + 1 + k - 1 = Len(src) + k
  BY <1>1
<1>5. /\ Len(tail) = Len(q) - Len(src)
      /\ \A k \in 1..(Len(q) - Len(src)) : tail[k] = q[Len(src) + k]
  BY <1>1, <1>3, <1>4
<1> HIDE DEF tail
<1>6. /\ dst \o tail \in Seq(Names)
      /\ Len(dst \o tail) = Len(dst) + Len(tail)
      /\ \A i \in 1..(Len(dst) + Len(tail)) :
           (dst \o tail)[i] = IF i <= Len(dst) THEN dst[i] ELSE tail[i - Len(dst)]
  BY <1>3, ConcatProperties DEF Places
<1>7. \A k \in 1..Len(dst) : (dst \o tail)[k] = dst[k]
  BY <1>1, <1>5, <1>6
<1>8. ASSUME NEW k \in 1..(Len(q) - Len(src)) PROVE (dst \o tail)[Len(dst) + k] = q[Len(src) + k]
  <2>1. Len(dst) + k \in 1..(Len(dst) + Len(tail)) /\ ~(Len(dst) + k <= Len(dst))
        /\ (Len(dst) + k) - Len(dst) = k
    BY <1>1, <1>5, <1>8
  <2> QED BY <1>5, <1>6, <2>1
<1>9. Reroot(q, src, dst) = dst \o tail
  BY DEF Reroot, tail
<1> QED BY <1>5, <1>6, <1>7, <1>8, <1>9 DEF Places

\* The root is the one place without names.
LEMMA RootFacts ==
  /\ Root \in Places /\ Len(Root) = 0
  /\ \A p \in Places : (p = Root <=> Len(p) = 0) /\ (Len(p) = 0 \/ Len(p) >= 1)
<1>1. << >> \in Seq(Names) /\ Len(<< >>) = 0
  BY EmptySeq
<1>2. \A p \in Seq(Names) : p # << >> => Len(p) \in Nat \ {0}
  BY EmptySeq
<1>3. \A p \in Places : Len(p) \in Nat
  BY PlaceFacts
<1> QED BY <1>1, <1>2, <1>3 DEF Root, Places

\* Within is an order: reflexive,
LEMMA WithinSelf ==
  ASSUME NEW d \in Places PROVE Within(d, d)
  BY PlaceFacts, WithinMeans

\* transitive,
LEMMA WithinTrans ==
  ASSUME NEW c \in Places, NEW d \in Places, NEW q \in Places, Within(c, d), Within(d, q)
  PROVE  Within(c, q)
<1>1. Len(c) \in Nat /\ Len(d) \in Nat /\ Len(q) \in Nat
  BY PlaceFacts
<1>2. /\ Len(d) >= Len(c) /\ \A k \in 1..Len(c) : d[k] = c[k]
      /\ Len(q) >= Len(d) /\ \A k \in 1..Len(d) : q[k] = d[k]
  BY WithinMeans
<1>3. Len(q) >= Len(c) /\ \A k \in 1..Len(c) : k \in 1..Len(d)
  BY <1>1, <1>2
<1>4. \A k \in 1..Len(c) : q[k] = c[k]
  BY <1>2, <1>3
<1> QED BY <1>3, <1>4, WithinMeans

\* Two directories above one path: the shorter is above the longer.
LEMMA WithinBoth ==
  ASSUME NEW c \in Places, NEW d \in Places, NEW q \in Places, Within(c, q), Within(d, q),
         Len(c) <= Len(d)
  PROVE  Within(c, d)
<1>1. Len(c) \in Nat /\ Len(d) \in Nat
  BY PlaceFacts
<1>2. /\ \A k \in 1..Len(c) : q[k] = c[k]
      /\ \A k \in 1..Len(d) : q[k] = d[k]
  BY WithinMeans
<1>3. \A k \in 1..Len(c) : k \in 1..Len(d)
  BY <1>1
<1> QED BY <1>1, <1>2, <1>3, WithinMeans

\* and antisymmetric: nothing shorter lies below.
LEMMA WithinEqual ==
  ASSUME NEW d \in Places, NEW q \in Places, Within(d, q), Len(q) <= Len(d)
  PROVE  q = d
<1>1. Len(q) >= Len(d) /\ \A k \in 1..Len(d) : q[k] = d[k]
  BY WithinMeans
<1>2. Len(q) = Len(d)
  BY <1>1, PlaceFacts
<1> QED BY <1>1, <1>2, PlacesEqual

\* What is above a place, other than itself, is above its parent.
LEMMA WithinParent ==
  ASSUME NEW d \in Places, NEW q \in Places, Len(q) >= 1
  PROVE  /\ Within(Parent(q), q)
         /\ Within(d, Parent(q)) <=> Within(d, q) /\ Len(q) > Len(d)
<1>1. PICK p : p = Parent(q)
  OBVIOUS
<1>2. /\ p \in Places /\ Len(p) = Len(q) - 1
      /\ \A k \in 1..(Len(q) - 1) : p[k] = q[k]
  BY <1>1, ParentFacts
<1>3. Len(d) \in Nat /\ Len(q) \in Nat /\ Len(p) \in Nat
  BY <1>2, PlaceFacts
<1>4. Within(p, q)
  BY <1>2, <1>3, WithinMeans
<1>5. ASSUME Within(d, p) PROVE Within(d, q) /\ Len(q) > Len(d)
  <2>1. Len(p) >= Len(d)
    BY <1>2, <1>5, WithinMeans
  <2> QED BY <1>2, <1>3, <1>4, <1>5, <2>1, WithinTrans
<1>6. ASSUME Within(d, q), Len(q) > Len(d) PROVE Within(d, p)
  BY <1>2, <1>3, <1>4, <1>6, WithinBoth
<1> QED BY <1>1, <1>4, <1>5, <1>6

\* The ancestors of a place are what it lies properly below.
LEMMA AncestorFacts ==
  ASSUME NEW p \in Places
  PROVE  \A q : q \in Ancestors(p) <=> /\ q \in Places /\ Len(q) >= 1
                                       /\ Within(q, p) /\ Len(q) < Len(p)
<1>0. Len(p) \in Nat
  BY PlaceFacts
<1>1. ASSUME NEW q \in Ancestors(p)
      PROVE  q \in Places /\ Len(q) >= 1 /\ Within(q, p) /\ Len(q) < Len(p)
  <2>1. PICK k \in 1..(Len(p) - 1) : q = SubSeq(p, 1, k)
    BY DEF Ancestors
  <2>2. k \in 0..Len(p) /\ k >= 1 /\ k < Len(p)
    BY <1>0
  <2>3. q \in Places /\ Len(q) = k /\ \A j \in 1..k : q[j] = p[j]
    BY <2>1, <2>2, PrefixFacts
  <2> QED BY <1>0, <2>2, <2>3, WithinMeans
<1>2. ASSUME NEW q \in Places, Len(q) >= 1, Within(q, p), Len(q) < Len(p)
      PROVE  q \in Ancestors(p)
  <2>1. q = SubSeq(p, 1, Len(q)) /\ Len(q) \in 1..(Len(p) - 1)
    BY <1>0, <1>2, PlaceFacts DEF Within
  <2> QED BY <2>1 DEF Ancestors
<1> QED BY <1>1, <1>2

\* What Parent(q) is to the ancestors of q, and to what is above q.
LEMMA ParentOrRoot ==
  ASSUME NEW q \in Places, Len(q) >= 1
  PROVE  /\ Parent(q) = Root \/ Parent(q) \in Ancestors(q)
         /\ Parent(q) = Root <=> Len(q) = 1
         /\ \A d \in Places : Within(d, q) => d = q \/ Within(d, Parent(q))
<1>1. PICK p : p = Parent(q)
  OBVIOUS
<1>2. p \in Places /\ Len(p) = Len(q) - 1 /\ Within(p, q)
  BY <1>1, ParentFacts, WithinParent
<1>3. Len(q) \in Nat
  BY PlaceFacts
<1>4. p = Root <=> Len(q) = 1
  BY <1>2, <1>3, RootFacts
<1>5. p = Root \/ p \in Ancestors(q)
  BY <1>2, <1>3, RootFacts, AncestorFacts
<1>6. ASSUME NEW d \in Places, Within(d, q), d # q PROVE Within(d, p)
  <2>1. Len(d) \in Nat /\ ~(Len(q) <= Len(d))
    BY <1>6, PlaceFacts, WithinEqual
  <2> QED BY <1>1, <1>3, <1>6, <2>1, WithinParent
<1> QED BY <1>1, <1>4, <1>5, <1>6

\* Reroot maps what is below src one to one to what is below dst, and keeps the order.
LEMMA RerootWithin ==
  ASSUME NEW q \in Places, NEW src \in Places, NEW dst \in Places, Within(src, q)
  PROVE  /\ Within(dst, Reroot(q, src, dst))
         /\ q = src => Reroot(q, src, dst) = dst
         /\ Len(q) > Len(src) => Parent(Reroot(q, src, dst)) = Reroot(Parent(q), src, dst)
<1>0. Len(src) \in Nat /\ Len(dst) \in Nat /\ Len(q) \in Nat /\ Len(q) >= Len(src)
  BY PlaceFacts DEF Within
<1>1. PICK r : r = Reroot(q, src, dst)
  OBVIOUS
<1>2. /\ r \in Places /\ Len(r) = Len(dst) + (Len(q) - Len(src))
      /\ \A k \in 1..Len(dst) : r[k] = dst[k]
      /\ \A k \in 1..(Len(q) - Len(src)) : r[Len(dst) + k] = q[Len(src) + k]
  <2>1. /\ Reroot(q, src, dst) \in Places
        /\ Len(Reroot(q, src, dst)) = Len(dst) + (Len(q) - Len(src))
        /\ \A k \in 1..Len(dst) : Reroot(q, src, dst)[k] = dst[k]
        /\ \A k \in 1..(Len(q) - Len(src)) : Reroot(q, src, dst)[Len(dst) + k] = q[Len(src) + k]
    BY RerootFacts
  <2> QED BY <1>1, <2>1
<1>3. Within(dst, r)
  BY <1>0, <1>2, WithinMeans
<1>4. q = src => r = dst
  BY <1>0, <1>2, PlacesEqual
<1>5. ASSUME Len(q) > Len(src) PROVE Parent(r) = Reroot(Parent(q), src, dst)
  <2>1. PICK p : p = Parent(q)
    OBVIOUS
  <2>2. /\ p \in Places /\ Len(p) = Len(q) - 1 /\ Within(src, p)
        /\ \A k \in 1..(Len(q) - 1) : p[k] = q[k]
    BY <1>0, <1>5, <2>1, ParentFacts, WithinParent
  <2>3. PICK s : s = Reroot(p, src, dst)
    OBVIOUS
  <2>4. /\ s \in Places /\ Len(s) = Len(dst) + (Len(p) - Len(src))
        /\ \A k \in 1..Len(dst) : s[k] = dst[k]
        /\ \A k \in 1..(Len(p) - Len(src)) : s[Len(dst) + k] = p[Len(src) + k]
    <3>1. /\ Reroot(p, src, dst) \in Places
          /\ Len(Reroot(p, src, dst)) = Len(dst) + (Len(p) - Len(src))
          /\ \A k \in 1..Len(dst) : Reroot(p, src, dst)[k] = dst[k]
          /\ \A k \in 1..(Len(p) - Len(src)) : Reroot(p, src, dst)[Len(dst) + k] = p[Len(src) + k]
      BY <2>2, RerootFacts
    <3> QED BY <2>3, <3>1
  <2>5. PICK t : t = Parent(r)
    OBVIOUS
  <2>6. /\ t \in Places /\ Len(t) = Len(r) - 1
        /\ \A k \in 1..(Len(r) - 1) : t[k] = r[k]
    <3>1. Len(r) >= 1
      BY <1>0, <1>2, <1>5
    <3>2. /\ Parent(r) \in Places /\ Len(Parent(r)) = Len(r) - 1
          /\ \A k \in 1..(Len(r) - 1) : Parent(r)[k] = r[k]
      BY <1>2, <3>1, ParentFacts
    <3> QED BY <2>5, <3>2
  <2>7. Len(t) = Len(s)
    BY <1>0, <1>2, <2>2, <2>4, <2>6
  <2>8. ASSUME NEW k \in 1..Len(t) PROVE t[k] = s[k]
    <3>1. CASE k <= Len(dst)
      BY <1>0, <1>2, <1>5, <2>4, <2>6, <2>8, <3>1
    <3>2. CASE k > Len(dst)
      <4>1. PICK j \in Nat : k = Len(dst) + j /\ j >= 1
        BY <1>0, <2>8, <3>2
      <4>2. /\ j \in 1..(Len(q) - Len(src)) /\ j \in 1..(Len(p) - Len(src))
            /\ k \in 1..(Len(r) - 1) /\ Len(src) + j \in 1..(Len(q) - 1)
        BY <1>0, <1>2, <1>5, <2>2, <2>6, <2>8, <4>1
      <4>3. t[k] = q[Len(src) + j] /\ s[k] = q[Len(src) + j]
        BY <1>2, <2>2, <2>4, <2>6, <4>1, <4>2
      <4> QED BY <4>3
    <3> QED BY <1>0, <2>8, <3>1, <3>2
  <2>9. t = s
    BY <2>4, <2>6, <2>7, <2>8, PlacesEqual
  <2> QED BY <2>1, <2>3, <2>5, <2>9
<1> QED BY <1>1, <1>3, <1>4, <1>5

\* Two entries of a subtree never go to the same place.
LEMMA RerootInjective ==
  ASSUME NEW p \in Places, NEW q \in Places, NEW src \in Places, NEW dst \in Places,
         Within(src, p), Within(src, q), Reroot(p, src, dst) = Reroot(q, src, dst)
  PROVE  p = q
<1>0. /\ Len(src) \in Nat /\ Len(dst) \in Nat /\ Len(q) \in Nat /\ Len(p) \in Nat
      /\ Len(p) >= Len(src) /\ Len(q) >= Len(src)
  BY PlaceFacts DEF Within
<1>1. PICK r : r = Reroot(p, src, dst) /\ r = Reroot(q, src, dst)
  OBVIOUS
<1>2. /\ Len(r) = Len(dst) + (Len(q) - Len(src))
      /\ \A k \in 1..(Len(q) - Len(src)) : r[Len(dst) + k] = q[Len(src) + k]
  <2>1. /\ Reroot(q, src, dst) \in Places
        /\ Len(Reroot(q, src, dst)) = Len(dst) + (Len(q) - Len(src))
        /\ \A k \in 1..Len(dst) : Reroot(q, src, dst)[k] = dst[k]
        /\ \A k \in 1..(Len(q) - Len(src)) : Reroot(q, src, dst)[Len(dst) + k] = q[Len(src) + k]
    BY RerootFacts
  <2> QED BY <1>1, <2>1
<1>3. /\ Len(r) = Len(dst) + (Len(p) - Len(src))
      /\ \A k \in 1..(Len(p) - Len(src)) : r[Len(dst) + k] = p[Len(src) + k]
  <2>1. /\ Reroot(p, src, dst) \in Places
        /\ Len(Reroot(p, src, dst)) = Len(dst) + (Len(p) - Len(src))
        /\ \A k \in 1..Len(dst) : Reroot(p, src, dst)[k] = dst[k]
        /\ \A k \in 1..(Len(p) - Len(src)) : Reroot(p, src, dst)[Len(dst) + k] = p[Len(src) + k]
    BY RerootFacts
  <2> QED BY <1>1, <2>1
<1>4. Len(p) = Len(q)
  BY <1>0, <1>2, <1>3
<1>5. /\ \A k \in 1..Len(src) : p[k] = src[k]
      /\ \A k \in 1..Len(src) : q[k] = src[k]
  BY WithinMeans
<1>6. ASSUME NEW k \in 1..Len(p) PROVE p[k] = q[k]
  <2>1. CASE k <= Len(src)
    BY <1>0, <1>5, <1>6, <2>1
  <2>2. CASE k > Len(src)
    <3>1. PICK j \in Nat : k = Len(src) + j /\ j >= 1
      BY <1>0, <1>6, <2>2
    <3>2. j \in 1..(Len(q) - Len(src)) /\ j \in 1..(Len(p) - Len(src))
      BY <1>0, <1>4, <1>6, <3>1
    <3> QED BY <1>2, <1>3, <3>1, <3>2
  <2> QED BY <1>0, <1>6, <2>1, <2>2
<1> QED BY <1>4, <1>6, PlacesEqual

\* Siblings have disjoint subtrees.
LEMMA SiblingFacts ==
  ASSUME NEW d \in Places, NEW m \in Names, NEW n \in Names
  PROVE  /\ Within(d, Append(d, m))
         /\ Within(Append(d, m), Append(d, n)) => m = n
         /\ \A q \in Places : Within(Append(d, m), q) /\ Within(Append(d, n), q) => m = n
<1>0. Len(d) \in Nat
  BY PlaceFacts
<1>1. PICK a, b : a = Append(d, m) /\ b = Append(d, n)
  OBVIOUS
<1>2. /\ a \in Places /\ Len(a) = Len(d) + 1 /\ a[Len(d) + 1] = m
      /\ b \in Places /\ Len(b) = Len(d) + 1 /\ b[Len(d) + 1] = n
      /\ Parent(a) = d
  BY <1>1, AppendFacts
<1>3. Within(d, a)
  BY <1>0, <1>2, WithinParent
<1>4. Within(a, b) => m = n
  BY <1>0, <1>2, WithinMeans
<1>5. ASSUME NEW q \in Places, Within(a, q), Within(b, q) PROVE m = n
  BY <1>0, <1>2, <1>4, <1>5, WithinBoth
<1> QED BY <1>1, <1>3, <1>4, <1>5

------------------------------------------------------------------------------
(* Tables: adding to them and restricting them.                            *)

Kinded(f) == \A p \in DOMAIN f : f[p] \in Kinds

\* The kinds of a table, as IsForest has them.
LEMMA KindedRange ==
  ASSUME NEW f
  PROVE  Range(f) \subseteq Kinds <=> Kinded(f)
  BY DEF Range, Kinded

\* What is there stays, what is not is taken from the other table.
LEMMA AddingFacts ==
  ASSUME NEW f, NEW g
  PROVE  /\ DOMAIN Adding(f, g) = DOMAIN f \cup DOMAIN g
         /\ \A p \in DOMAIN f : Adding(f, g)[p] = f[p]
         /\ \A p \in DOMAIN g \ DOMAIN f : Adding(f, g)[p] = g[p]
         /\ Kinded(f) /\ Kinded(g) => Kinded(Adding(f, g))
  BY DEF Adding, Kinded

\* A table without some of its entries.
LEMMA RestrictFacts ==
  ASSUME NEW f, NEW S, S \subseteq DOMAIN f
  PROVE  /\ DOMAIN Restrict(f, S) = S
         /\ \A p \in S : Restrict(f, S)[p] = f[p]
         /\ Kinded(f) => Kinded(Restrict(f, S))
  BY DEF Restrict, Kinded

\* What lies above an entry is there, and is a directory.
LEMMA AncestorsThere ==
  ASSUME NEW f, DOMAIN f \subseteq Paths, Closed(f),
         NEW q \in DOMAIN f, NEW d \in Places, Len(d) >= 1, Within(d, q)
  PROVE  d \in DOMAIN f /\ (d # q => f[d] = "dir")
<1> DEFINE There(p) == d \in DOMAIN f /\ (d # p => f[d] = "dir")
           T == {n \in Nat : \A p \in DOMAIN f : Within(d, p) /\ Len(p) = Len(d) + n => There(p)}
<1>1. \A p \in DOMAIN f : p \in Places /\ Len(p) \in Nat /\ Len(p) >= 1
  BY PathFacts
<1>2. Len(d) \in Nat
  BY PlaceFacts
<1>3. 0 \in T
  <2> SUFFICES ASSUME NEW p \in DOMAIN f, Within(d, p), Len(p) = Len(d) + 0 PROVE There(p)
    OBVIOUS
  <2>1. p = d
    BY <1>1, <1>2, WithinEqual
  <2> QED BY <2>1
<1>4. ASSUME NEW n \in Nat, n \in T PROVE n + 1 \in T
  <2> SUFFICES ASSUME NEW p \in DOMAIN f, Within(d, p), Len(p) = Len(d) + (n + 1) PROVE There(p)
    OBVIOUS
  <2>1. PICK parent : parent = Parent(p)
    OBVIOUS
  <2>2. parent \in Places /\ Len(parent) = Len(d) + n /\ Within(d, parent)
    BY <1>1, <1>2, <2>1, ParentFacts, WithinParent
  <2>3. parent \in DOMAIN f /\ f[parent] = "dir"
    <3>1. parent # Root
      BY <1>2, <2>2, RootFacts
    <3> QED BY <2>1, <3>1 DEF Closed
  <2>4. There(parent)
    BY <1>4, <2>2, <2>3
  <2> QED BY <2>3, <2>4
<1> HIDE DEF T
<1>5. Nat \subseteq T
  BY <1>3, <1>4, Induct
<1>6. Len(q) - Len(d) \in Nat /\ Len(q) = Len(d) + (Len(q) - Len(d))
  BY <1>1, <1>2 DEF Within
<1>7. There(q)
  BY <1>5, <1>6 DEF T
<1> QED BY <1>7

\* mkdir -p of a set of directories none of which is a file
LEMMA DirsAdded ==
  ASSUME NEW f, Closed(f), Kinded(f), NEW S,
         \A p \in S : Parent(p) = Root \/ Parent(p) \in S,
         \A p \in S : p \in DOMAIN f => f[p] # "file"
  PROVE  /\ Closed(Adding(f, AllDirs(S))) /\ Kinded(Adding(f, AllDirs(S)))
         /\ DOMAIN Adding(f, AllDirs(S)) = DOMAIN f \cup S
         /\ \A p \in S : Adding(f, AllDirs(S))[p] = "dir"
<1>1. PICK g, dirs : dirs = AllDirs(S) /\ g = Adding(f, dirs)
  OBVIOUS
<1>2. DOMAIN dirs = S /\ \A p \in S : dirs[p] = "dir"
  BY <1>1 DEF AllDirs
<1>3. /\ DOMAIN g = DOMAIN f \cup S
      /\ \A p \in DOMAIN f : g[p] = f[p]
      /\ \A p \in S \ DOMAIN f : g[p] = "dir"
  <2>1. /\ DOMAIN Adding(f, dirs) = DOMAIN f \cup DOMAIN dirs
        /\ \A p \in DOMAIN f : Adding(f, dirs)[p] = f[p]
        /\ \A p \in DOMAIN dirs \ DOMAIN f : Adding(f, dirs)[p] = dirs[p]
    BY AddingFacts
  <2> QED BY <1>1, <1>2, <2>1
<1>4. \A p \in S : g[p] = "dir"
  BY <1>3 DEF Kinded, Kinds
<1>5. Kinded(g)
  BY <1>3, <1>4 DEF Kinded, Kinds
<1>6. Closed(g)
  BY <1>3, <1>4 DEF Closed
<1> QED BY <1>1, <1>3, <1>4, <1>5, <1>6

\* Entries put into directories that are there keep the tree a tree.
LEMMA LeavesAdded ==
  ASSUME NEW f, Closed(f), Kinded(f), NEW g, Kinded(g),
         \A p \in DOMAIN g : \/ Parent(p) = Root
                             \/ Parent(p) \in DOMAIN f /\ f[Parent(p)] = "dir"
  PROVE  Closed(Adding(f, g)) /\ Kinded(Adding(f, g))
<1>1. PICK h : h = Adding(f, g)
  OBVIOUS
<1>2. /\ DOMAIN h = DOMAIN f \cup DOMAIN g
      /\ \A p \in DOMAIN f : h[p] = f[p]
      /\ Kinded(h)
  BY <1>1, AddingFacts
<1>3. Closed(h)
  BY <1>2 DEF Closed
<1> QED BY <1>1, <1>2, <1>3

\* Ancestors have their parents among them.
LEMMA AncestorsChain ==
  ASSUME NEW p \in Places, Len(p) >= 1
  PROVE  \A q \in Ancestors(p) \cup {p} : Parent(q) = Root \/ Parent(q) \in Ancestors(p)
<1> SUFFICES ASSUME NEW q \in Ancestors(p) \cup {p}, Parent(q) # Root
             PROVE  Parent(q) \in Ancestors(p)
  OBVIOUS
<1>0. Len(p) \in Nat
  BY PlaceFacts
<1>1. q \in Places /\ Len(q) >= 1 /\ Within(q, p) /\ Len(q) <= Len(p) /\ Len(q) \in Nat
  BY <1>0, AncestorFacts, WithinSelf, PlaceFacts
<1>2. PICK r : r = Parent(q)
  OBVIOUS
<1>3. r \in Places /\ Len(r) = Len(q) - 1 /\ Within(r, q) /\ Len(r) >= 1
  BY <1>1, <1>2, ParentFacts, WithinParent, RootFacts
<1>4. Within(r, p)
  BY <1>1, <1>3, WithinTrans
<1> QED BY <1>0, <1>1, <1>2, <1>3, <1>4, AncestorFacts

------------------------------------------------------------------------------
(* Tables: new keys.                                                       *)

\* A table with new keys has the other entries as before,
LEMMA RekeyedFacts ==
  ASSUME NEW r, NEW key
  PROVE  /\ DOMAIN Rekeyed(r, key) = (DOMAIN r \ DOMAIN key) \cup Range(key)
         /\ \A p \in DOMAIN r \ DOMAIN key : p \notin Range(key) => Rekeyed(r, key)[p] = r[p]
  BY DEF Rekeyed

\* under each new key the value of an old one
LEMMA RekeyedValue ==
  ASSUME NEW r, NEW key, NEW p \in Range(key)
  PROVE  \E q \in DOMAIN key : key[q] = p /\ Rekeyed(r, key)[p] = r[q]
<1>1. \E q \in DOMAIN key : key[q] = p
  BY DEF Range
<1> DEFINE q == CHOOSE q \in DOMAIN key : key[q] = p
<1>2. q \in DOMAIN key /\ key[q] = p
  BY <1>1
<1>3. Rekeyed(r, key)[p] = r[q]
  BY DEF Rekeyed
<1> QED BY <1>2, <1>3

\* and of the one old key if no two get the same.
LEMMA RekeyedInjective ==
  ASSUME NEW r, NEW key, \A p, q \in DOMAIN key : key[p] = key[q] => p = q
  PROVE  \A q \in DOMAIN key : key[q] \in Range(key) /\ Rekeyed(r, key)[key[q]] = r[q]
<1> SUFFICES ASSUME NEW q \in DOMAIN key
             PROVE  key[q] \in Range(key) /\ Rekeyed(r, key)[key[q]] = r[q]
  OBVIOUS
<1>1. key[q] \in Range(key)
  BY DEF Range
<1>2. PICK p \in DOMAIN key : key[p] = key[q] /\ Rekeyed(r, key)[key[q]] = r[p]
  BY <1>1, RekeyedValue
<1> QED BY <1>1, <1>2

\* Entries that move together keep the tree closed.
LEMMA RekeyedClosed ==
  ASSUME NEW f, Closed(f), Kinded(f), Root \notin DOMAIN f, NEW key, DOMAIN key \subseteq DOMAIN f,
         \A p, q \in DOMAIN key : key[p] = key[q] => p = q,
         \A q \in DOMAIN key : key[q] \notin DOMAIN f,
         \A q \in DOMAIN key : Parent(q) \in DOMAIN key => Parent(key[q]) = key[Parent(q)],
         \A q \in DOMAIN key : Parent(q) \notin DOMAIN key =>
           \/ Parent(key[q]) = Root
           \/ Parent(key[q]) \in DOMAIN f \ DOMAIN key /\ f[Parent(key[q])] = "dir",
         \A q \in DOMAIN f \ DOMAIN key : Parent(q) \notin DOMAIN key
  PROVE  Closed(Rekeyed(f, key)) /\ Kinded(Rekeyed(f, key))
<1>1. PICK g : g = Rekeyed(f, key)
  OBVIOUS
<1>2. \A p \in DOMAIN f : p \notin Range(key)
  BY DEF Range
<1>3. /\ DOMAIN g = (DOMAIN f \ DOMAIN key) \cup Range(key)
      /\ \A p \in DOMAIN f \ DOMAIN key : g[p] = f[p]
      /\ \A q \in DOMAIN key : key[q] \in DOMAIN g /\ g[key[q]] = f[q]
  <2>1. /\ DOMAIN Rekeyed(f, key) = (DOMAIN f \ DOMAIN key) \cup Range(key)
        /\ \A p \in DOMAIN f \ DOMAIN key : p \notin Range(key) => Rekeyed(f, key)[p] = f[p]
    BY RekeyedFacts
  <2>2. \A q \in DOMAIN key : key[q] \in Range(key) /\ Rekeyed(f, key)[key[q]] = f[q]
    BY RekeyedInjective
  <2> QED BY <1>1, <1>2, <2>1, <2>2
<1>4. \A p \in Range(key) : \E q \in DOMAIN key : key[q] = p
  BY DEF Range
<1>5. ASSUME NEW p \in DOMAIN f \ DOMAIN key
      PROVE  Parent(p) = Root \/ (Parent(p) \in DOMAIN g /\ g[Parent(p)] = "dir")
  BY <1>3, <1>5 DEF Closed
<1>6. ASSUME NEW q \in DOMAIN key
      PROVE  Parent(key[q]) = Root \/ (Parent(key[q]) \in DOMAIN g /\ g[Parent(key[q])] = "dir")
  <2>1. CASE Parent(q) \in DOMAIN key
    <3>1. Parent(q) \in DOMAIN f /\ f[Parent(q)] = "dir"
      BY <1>6, <2>1 DEF Closed
    <3> QED BY <1>3, <1>6, <2>1, <3>1
  <2>2. CASE Parent(q) \notin DOMAIN key
    BY <1>3, <1>6, <2>2
  <2> QED BY <2>1, <2>2
<1>7. Closed(g)
  BY <1>3, <1>4, <1>5, <1>6 DEF Closed
<1>8. Kinded(g)
  BY <1>3, <1>4 DEF Kinded
<1> QED BY <1>1, <1>7, <1>8

\* key takes src and what is below it to dst and below, where nothing is.
MovesSubtree(key, src, dst) ==
  /\ DOMAIN key = {q \in DOMAIN tree : Within(src, q)}
  /\ \A q \in DOMAIN key :
       /\ key[q] = Reroot(q, src, dst) /\ key[q] \notin DOMAIN tree
       /\ key[q] \in Places /\ Within(dst, key[q])
       /\ Parent(q) \in DOMAIN key => Parent(key[q]) = key[Parent(q)]
       /\ Parent(q) \notin DOMAIN key => q = src /\ key[q] = dst
  /\ \A p, q \in DOMAIN key : key[p] = key[q] => p = q
  /\ \A q \in DOMAIN tree \ DOMAIN key : Parent(q) \notin DOMAIN key
  /\ Parent(dst) \notin DOMAIN key

\* Moved is such a renaming.
LEMMA MovedFacts ==
  ASSUME DOMAIN tree \subseteq Paths, Closed(tree),
         NEW src \in Places, NEW dst \in Places, Len(dst) >= 1, Renames(src, dst)
  PROVE  MovesSubtree(Moved(src, dst), src, dst)
<1>1. PICK key : key = Moved(src, dst)
  OBVIOUS
<1>2. /\ DOMAIN key = {q \in DOMAIN tree : Within(src, q)}
      /\ \A q \in DOMAIN key : key[q] = Reroot(q, src, dst)
  BY <1>1 DEF Moved
<1>3. \A q \in DOMAIN tree : q \in Places /\ Len(q) \in Nat /\ Len(q) >= 1
  BY PathFacts
<1>4. src \in DOMAIN tree /\ dst \notin DOMAIN tree /\ ~Within(src, dst)
  BY DEF Renames
<1>5. Len(src) \in Nat /\ Len(src) >= 1
  BY <1>3, <1>4
<1>6. ASSUME NEW q \in DOMAIN key
      PROVE  /\ key[q] \in Places /\ Within(dst, key[q]) /\ key[q] \notin DOMAIN tree
             /\ Parent(q) \in DOMAIN key => Parent(key[q]) = key[Parent(q)]
             /\ Parent(q) \notin DOMAIN key => q = src /\ key[q] = dst
  <2>1. q \in Places /\ q \in DOMAIN tree /\ Within(src, q) /\ key[q] = Reroot(q, src, dst)
    BY <1>2, <1>3, <1>6
  <2>2. key[q] \in Places /\ Within(dst, key[q])
    BY <2>1, RerootFacts, RerootWithin
  <2>3. key[q] \notin DOMAIN tree
    BY <1>4, <2>2, AncestorsThere
  <2>4. ASSUME Parent(q) \in DOMAIN key PROVE Parent(key[q]) = key[Parent(q)]
    <3>1. Within(src, Parent(q)) /\ Len(q) >= 1
      BY <1>2, <1>3, <2>1, <2>4
    <3>2. Len(q) > Len(src)
      BY <2>1, <3>1, WithinParent
    <3>3. Parent(Reroot(q, src, dst)) = Reroot(Parent(q), src, dst)
      BY <2>1, <3>2, RerootWithin
    <3> QED BY <1>2, <2>1, <2>4, <3>3
  <2>5. ASSUME Parent(q) \notin DOMAIN key PROVE q = src /\ key[q] = dst
    <3>1. CASE q = src
      BY <2>1, <3>1, RerootWithin
    <3>2. CASE q # src
      <4>1. Len(q) >= 1 /\ Within(src, Parent(q))
        BY <1>3, <2>1, <3>2, ParentOrRoot
      <4>2. Parent(q) # Root
        <5>1. PICK r : r = Parent(q)
          OBVIOUS
        <5>2. Len(r) >= 1
          BY <1>5, <4>1, <5>1, <2>1, ParentFacts, PlaceFacts DEF Within
        <5> QED BY <5>1, <5>2, RootFacts
      <4>3. Parent(q) \in DOMAIN tree
        BY <2>1, <4>2 DEF Closed
      <4> QED BY <1>2, <2>5, <4>1, <4>3
    <3> QED BY <3>1, <3>2
  <2> QED BY <2>2, <2>3, <2>4, <2>5
<1>7. ASSUME NEW p \in DOMAIN key, NEW q \in DOMAIN key, key[p] = key[q] PROVE p = q
  BY <1>2, <1>3, <1>7, RerootInjective
<1>8. ASSUME NEW q \in DOMAIN tree \ DOMAIN key PROVE Parent(q) \notin DOMAIN key
  BY <1>2, <1>3, <1>8, WithinParent
<1>9. Parent(dst) \notin DOMAIN key
  BY <1>2, <1>4, WithinParent
<1> QED BY <1>1, <1>2, <1>6, <1>7, <1>8, <1>9 DEF MovesSubtree

------------------------------------------------------------------------------
(* The types, and the shape that every operation keeps.                    *)

\* What a slot of the trash holds: an entry with all that was below it.
Trashed(e) ==
  /\ e.path \in Paths /\ e.path \in DOMAIN e.forest /\ Kinded(e.forest)
  /\ \A q \in DOMAIN e.forest :
       /\ q \in Paths /\ Within(e.path, q)
       /\ q = e.path \/ (Parent(q) \in DOMAIN e.forest /\ e.forest[Parent(q)] = "dir")

BinOK(b) == b = [u \in Slots |-> b[u]] /\ \A u \in Slots : b[u] = Empty \/ Trashed(b[u])

Shaped(t, r, b) == Closed(t) /\ Kinded(t) /\ Kinded(r) /\ BinOK(b)

TypeInv == DOMAIN tree \subseteq Paths /\ DOMAIN rows \subseteq Paths /\ Shaped(tree, rows, bin)

\* Entries and rows have places, and none is the root.
LEMMA TreePlaces ==
  ASSUME TypeInv
  PROVE  /\ \A p \in DOMAIN tree : p \in Places /\ Len(p) \in Nat /\ Len(p) >= 1
         /\ \A p \in DOMAIN rows : p \in Places /\ Len(p) \in Nat /\ Len(p) >= 1
         /\ Root \notin DOMAIN tree
<1>1. \A p \in Paths : p \in Places /\ Len(p) \in Nat /\ Len(p) >= 1
  BY PathFacts
<1> QED BY <1>1, RootFacts DEF TypeInv

\* The directories that an operation may name are places.
LEMMA DirectoryPlaces ==
  \A dir \in Directories : dir \in Places
  BY PathFacts, RootFacts DEF Directories

\* New keys leave the kinds as they are,
LEMMA RekeyedKinded ==
  ASSUME NEW r, Kinded(r), NEW key, DOMAIN key \subseteq DOMAIN r
  PROVE  Kinded(Rekeyed(r, key))
<1>1. PICK s : s = Rekeyed(r, key)
  OBVIOUS
<1>2. /\ DOMAIN Rekeyed(r, key) = (DOMAIN r \ DOMAIN key) \cup Range(key)
      /\ \A p \in DOMAIN r \ DOMAIN key : p \notin Range(key) => Rekeyed(r, key)[p] = r[p]
  BY RekeyedFacts
<1>3. \A p \in Range(key) : \E q \in DOMAIN key : key[q] = p /\ Rekeyed(r, key)[p] = r[q]
  BY RekeyedValue
<1>4. \A p \in DOMAIN s : \E q \in DOMAIN r : s[p] = r[q]
  BY <1>1, <1>2, <1>3
<1> QED BY <1>1, <1>4 DEF Kinded

\* and so does the transaction of a rename.
LEMMA MoveTxKinded ==
  ASSUME NEW r, Kinded(r), NEW src, NEW dst
  PROVE  Kinded(MoveTx(r, src, dst).rows)
<1> DEFINE r1 == Rekeyed(r, OwnKey(r, src, dst))
           r2 == Rekeyed(r1, ChildKeys(r1, src, dst))
<1>1. Kinded(r1)
  BY RekeyedKinded DEF OwnKey
<1> HIDE DEF r1
<1>2. Kinded(r2)
  BY <1>1, RekeyedKinded DEF ChildKeys
<1> HIDE DEF r2
<1>3. Kinded(Rekeyed(r2, DeepKeys(r2, src, dst)))
  BY <1>2, RekeyedKinded DEF DeepKeys
<1>4. MoveTx(r, src, dst).rows = Rekeyed(r2, DeepKeys(r2, src, dst))
  BY DEF MoveTx, r1, r2
<1> QED BY <1>3, <1>4

\* Every operation keeps the shape. A rename or a move:
LEMMA RelocateShape ==
  ASSUME TypeInv, NEW src \in Places, NEW dst \in Places, Len(dst) >= 1, Relocate(src, dst)
  PROVE  Shaped(tree', rows', bin')
<1>1. PICK key : key = Moved(src, dst)
  OBVIOUS
<1>2. /\ Renames(src, dst) /\ tree' = Rekeyed(tree, key) /\ bin' = bin
      /\ rows' = MoveTx(rows, src, dst).rows
  BY <1>1 DEF Relocate
<1>3. DOMAIN tree \subseteq Paths /\ Closed(tree) /\ Kinded(tree) /\ Kinded(rows) /\ BinOK(bin)
  BY DEF TypeInv, Shaped
<1>4. MovesSubtree(key, src, dst)
  BY <1>1, <1>2, <1>3, MovedFacts
<1>5. Parent(dst) = Root \/ (Parent(dst) \in DOMAIN tree /\ tree[Parent(dst)] = "dir")
  BY <1>2 DEF Renames
<1>6. Closed(tree') /\ Kinded(tree')
  <2>1. /\ DOMAIN key \subseteq DOMAIN tree
        /\ \A p, q \in DOMAIN key : key[p] = key[q] => p = q
        /\ \A q \in DOMAIN key : key[q] \notin DOMAIN tree
        /\ \A q \in DOMAIN key : Parent(q) \in DOMAIN key => Parent(key[q]) = key[Parent(q)]
        /\ \A q \in DOMAIN key : Parent(q) \notin DOMAIN key => key[q] = dst
        /\ Parent(dst) \notin DOMAIN key
        /\ \A q \in DOMAIN tree \ DOMAIN key : Parent(q) \notin DOMAIN key
    BY <1>4 DEF MovesSubtree
  <2>2. \A q \in DOMAIN key : Parent(q) \notin DOMAIN key =>
          \/ Parent(key[q]) = Root
          \/ Parent(key[q]) \in DOMAIN tree \ DOMAIN key /\ tree[Parent(key[q])] = "dir"
    BY <1>5, <2>1
  <2>3. Root \notin DOMAIN tree
    BY TreePlaces
  <2> QED BY <1>2, <1>3, <2>1, <2>2, <2>3, RekeyedClosed
<1>7. Kinded(rows')
  BY <1>2, <1>3, MoveTxKinded
<1> QED BY <1>2, <1>3, <1>6, <1>7 DEF Shaped

\* key takes the entries m and n of one directory, and what is below them, to another one.
MovesTwo(key, dir, to, m, n) ==
  /\ DOMAIN key = {q \in DOMAIN tree : Within(Append(dir, m), q) \/ Within(Append(dir, n), q)}
  /\ \A x \in {m, n} : \A q \in DOMAIN tree : Within(Append(dir, x), q) =>
       /\ key[q] = Reroot(q, Append(dir, x), Append(to, x)) /\ key[q] \notin DOMAIN tree
       /\ Parent(q) \in DOMAIN key => Parent(key[q]) = key[Parent(q)]
       /\ Parent(q) \notin DOMAIN key => key[q] = Append(to, x)
  /\ \A p, q \in DOMAIN key : key[p] = key[q] => p = q
  /\ \A q \in DOMAIN tree \ DOMAIN key : Parent(q) \notin DOMAIN key
  /\ to \notin DOMAIN key

\* They keep out of each other's way.
LEMMA BatchKeys ==
  ASSUME TypeInv, NEW dir \in Places, NEW to \in Places, NEW m \in Names, NEW n \in Names, m # n,
         Renames(Append(dir, m), Append(to, m)), Renames(Append(dir, n), Append(to, n))
  PROVE  MovesTwo(Adding(Moved(Append(dir, m), Append(to, m)), Moved(Append(dir, n), Append(to, n))),
                  dir, to, m, n)
<1>0. PICK key : key = Adding(Moved(Append(dir, m), Append(to, m)), Moved(Append(dir, n), Append(to, n)))
  OBVIOUS
<1>1. PICK a, b : a = Append(dir, m) /\ b = Append(dir, n)
  OBVIOUS
<1>2. PICK c, d : c = Append(to, m) /\ d = Append(to, n)
  OBVIOUS
<1>3. PICK ka, kb : ka = Moved(a, c) /\ kb = Moved(b, d) /\ key = Adding(ka, kb)
  BY <1>0, <1>1, <1>2
<1>4. /\ a \in Places /\ b \in Places /\ c \in Places /\ d \in Places
      /\ Len(c) >= 1 /\ Len(d) >= 1
      /\ Parent(c) = to /\ Parent(d) = to
  BY <1>1, <1>2, AppendFacts, PlaceFacts
<1>5. Renames(a, c) /\ Renames(b, d) /\ DOMAIN tree \subseteq Paths /\ Closed(tree)
  BY <1>1, <1>2 DEF TypeInv, Shaped
<1>6. \A q \in Places : ~(Within(a, q) /\ Within(b, q)) /\ ~(Within(c, q) /\ Within(d, q))
  BY <1>1, <1>2, SiblingFacts
<1>7. /\ DOMAIN ka = {q \in DOMAIN tree : Within(a, q)}
      /\ \A q \in DOMAIN ka :
              /\ ka[q] = Reroot(q, a, c)
              /\ ka[q] \notin DOMAIN tree
              /\ ka[q] \in Places /\ Within(c, ka[q])
              /\ Parent(q) \in DOMAIN ka => Parent(ka[q]) = ka[Parent(q)]
              /\ Parent(q) \notin DOMAIN ka => q = a /\ ka[q] = c
      /\ \A p, q \in DOMAIN ka : ka[p] = ka[q] => p = q
      /\ \A q \in DOMAIN tree \ DOMAIN ka : Parent(q) \notin DOMAIN ka
      /\ Parent(c) \notin DOMAIN ka
  <2>1. MovesSubtree(ka, a, c)
    BY <1>3, <1>4, <1>5, MovedFacts
  <2> QED BY <2>1 DEF MovesSubtree
<1>8. /\ DOMAIN kb = {q \in DOMAIN tree : Within(b, q)}
      /\ \A q \in DOMAIN kb :
              /\ kb[q] = Reroot(q, b, d)
              /\ kb[q] \notin DOMAIN tree
              /\ kb[q] \in Places /\ Within(d, kb[q])
              /\ Parent(q) \in DOMAIN kb => Parent(kb[q]) = kb[Parent(q)]
              /\ Parent(q) \notin DOMAIN kb => q = b /\ kb[q] = d
      /\ \A p, q \in DOMAIN kb : kb[p] = kb[q] => p = q
      /\ \A q \in DOMAIN tree \ DOMAIN kb : Parent(q) \notin DOMAIN kb
      /\ Parent(d) \notin DOMAIN kb
  <2>1. MovesSubtree(kb, b, d)
    BY <1>3, <1>4, <1>5, MovedFacts
  <2> QED BY <2>1 DEF MovesSubtree
<1>9. \A q \in DOMAIN tree : q \in Places /\ Len(q) >= 1
  BY TreePlaces
<1>10. /\ DOMAIN key = DOMAIN ka \cup DOMAIN kb
       /\ \A q \in DOMAIN ka : key[q] = ka[q]
       /\ \A q \in DOMAIN kb \ DOMAIN ka : key[q] = kb[q]
  <2>1. /\ DOMAIN Adding(ka, kb) = DOMAIN ka \cup DOMAIN kb
        /\ \A q \in DOMAIN ka : Adding(ka, kb)[q] = ka[q]
        /\ \A q \in DOMAIN kb \ DOMAIN ka : Adding(ka, kb)[q] = kb[q]
    BY AddingFacts
  <2> QED BY <1>3, <2>1
<1>11. \A q \in DOMAIN kb : q \notin DOMAIN ka /\ key[q] = kb[q]
  BY <1>6, <1>7, <1>8, <1>9, <1>10
\* the parent of one that moves does not move with the other
<1>12. /\ \A q \in DOMAIN ka : Parent(q) \notin DOMAIN kb
       /\ \A q \in DOMAIN kb : Parent(q) \notin DOMAIN ka
  BY <1>7, <1>8, <1>11
<1>13. \A q \in DOMAIN tree : Within(a, q) =>
         /\ key[q] = Reroot(q, a, c) /\ key[q] \notin DOMAIN tree
         /\ Parent(q) \in DOMAIN key => Parent(key[q]) = key[Parent(q)]
         /\ Parent(q) \notin DOMAIN key => key[q] = c
  BY <1>7, <1>10, <1>12
<1>14. \A q \in DOMAIN tree : Within(b, q) =>
         /\ key[q] = Reroot(q, b, d) /\ key[q] \notin DOMAIN tree
         /\ Parent(q) \in DOMAIN key => Parent(key[q]) = key[Parent(q)]
         /\ Parent(q) \notin DOMAIN key => key[q] = d
  BY <1>8, <1>10, <1>11, <1>12
<1>15. ASSUME NEW p \in DOMAIN key, NEW q \in DOMAIN key, key[p] = key[q] PROVE p = q
  <2>1. CASE p \in DOMAIN ka /\ q \in DOMAIN ka
    BY <1>7, <1>10, <1>15, <2>1
  <2>2. CASE p \in DOMAIN kb /\ q \in DOMAIN kb
    BY <1>8, <1>11, <1>15, <2>2
  <2>3. CASE p \in DOMAIN ka /\ q \in DOMAIN kb
    BY <1>6, <1>7, <1>8, <1>10, <1>11, <1>15, <2>3
  <2>4. CASE p \in DOMAIN kb /\ q \in DOMAIN ka
    BY <1>6, <1>7, <1>8, <1>10, <1>11, <1>15, <2>4
  <2> QED BY <1>10, <2>1, <2>2, <2>3, <2>4
<1>16. \A q \in DOMAIN tree \ DOMAIN key : Parent(q) \notin DOMAIN key
  BY <1>7, <1>8, <1>10
<1>17. to \notin DOMAIN key
  BY <1>4, <1>7, <1>8, <1>10
<1>18. DOMAIN key = {q \in DOMAIN tree : Within(a, q) \/ Within(b, q)}
  BY <1>7, <1>8, <1>10
<1>19. MovesTwo(key, dir, to, m, n)
  BY <1>1, <1>2, <1>13, <1>14, <1>15, <1>16, <1>17, <1>18 DEF MovesTwo
<1> QED BY <1>0, <1>19

\* A batch of two keeps it.
LEMMA MoveBatchShape ==
  ASSUME TypeInv, NEW dir \in Places, NEW to \in Places, NEW m \in Names, NEW n \in Names,
         MoveBatch(dir, m, n, to)
  PROVE  Shaped(tree', rows', bin')
<1>1. PICK key : key = Adding(Moved(Append(dir, m), Append(to, m)), Moved(Append(dir, n), Append(to, n)))
  OBVIOUS
<1>2. PICK r1 : r1 = MoveTx(rows, Append(dir, m), Append(to, m)).rows
  OBVIOUS
<1>3. /\ m # n /\ Renames(Append(dir, m), Append(to, m)) /\ Renames(Append(dir, n), Append(to, n))
      /\ tree' = Rekeyed(tree, key) /\ bin' = bin
      /\ rows' = MoveTx(r1, Append(dir, n), Append(to, n)).rows
  BY <1>1, <1>2 DEF MoveBatch
<1>4. DOMAIN tree \subseteq Paths /\ Closed(tree) /\ Kinded(tree) /\ Kinded(rows) /\ BinOK(bin)
  BY DEF TypeInv, Shaped
<1>5. MovesTwo(key, dir, to, m, n)
  BY <1>1, <1>3, BatchKeys
<1>6. \A x \in {m, n} : Parent(Append(to, x)) = to
  BY AppendFacts
<1>7. to = Root \/ (to \in DOMAIN tree \ DOMAIN key /\ tree[to] = "dir")
  BY <1>3, <1>5, <1>6 DEF Renames, MovesTwo
<1>8. /\ DOMAIN key \subseteq DOMAIN tree
      /\ \A p, q \in DOMAIN key : key[p] = key[q] => p = q
      /\ \A q \in DOMAIN tree \ DOMAIN key : Parent(q) \notin DOMAIN key
  BY <1>5 DEF MovesTwo
<1>9. \A q \in DOMAIN key : /\ key[q] \notin DOMAIN tree
                            /\ Parent(q) \in DOMAIN key => Parent(key[q]) = key[Parent(q)]
                            /\ Parent(q) \notin DOMAIN key => Parent(key[q]) = to
  BY <1>5, <1>6 DEF MovesTwo
<1>10. Closed(tree') /\ Kinded(tree')
  <2>1. \A q \in DOMAIN key : Parent(q) \notin DOMAIN key =>
          \/ Parent(key[q]) = Root
          \/ Parent(key[q]) \in DOMAIN tree \ DOMAIN key /\ tree[Parent(key[q])] = "dir"
    BY <1>7, <1>9
  <2>2. Root \notin DOMAIN tree
    BY TreePlaces
  <2> QED BY <1>3, <1>4, <1>8, <1>9, <2>1, <2>2, RekeyedClosed
<1>11. Kinded(rows')
  BY <1>2, <1>3, <1>4, MoveTxKinded
<1> QED BY <1>3, <1>4, <1>10, <1>11 DEF Shaped

\* A delete keeps it, which puts a whole subtree into the trash.
LEMMA DeleteShape ==
  ASSUME TypeInv, NEW u \in Slots, NEW p \in DOMAIN tree, DeleteToTrash(u, p)
  PROVE  Shaped(tree', rows', bin')
<1> DEFINE below == {q \in DOMAIN tree : Within(p, q)}
           rest  == {q \in DOMAIN tree : ~Within(p, q)}
<1>1. /\ tree' = Restrict(tree, rest) /\ rows' = DroppedRows(p)
      /\ bin' = [bin EXCEPT ![u] = [path |-> p, forest |-> Restrict(tree, below)]]
  BY DEF DeleteToTrash
<1>2. DOMAIN tree \subseteq Paths /\ Closed(tree) /\ Kinded(tree) /\ Kinded(rows) /\ BinOK(bin)
  BY DEF TypeInv, Shaped
<1>3. \A q \in DOMAIN tree : q \in Places /\ Len(q) >= 1
  BY TreePlaces
<1>4. \A q \in DOMAIN tree : Within(p, Parent(q)) => Within(p, q)
  BY <1>3, WithinParent
<1>5. /\ DOMAIN Restrict(tree, rest) = rest
      /\ \A q \in rest : Restrict(tree, rest)[q] = tree[q]
      /\ Kinded(tree) => Kinded(Restrict(tree, rest))
  BY RestrictFacts
<1>6. /\ DOMAIN Restrict(tree, below) = below
      /\ \A q \in below : Restrict(tree, below)[q] = tree[q]
      /\ Kinded(tree) => Kinded(Restrict(tree, below))
  BY RestrictFacts
<1>7. Closed(tree') /\ Kinded(tree')
  BY <1>1, <1>2, <1>4, <1>5 DEF Closed
<1>8. Kinded(rows')
  BY <1>1, <1>2, RestrictFacts DEF DroppedRows
<1>9. PICK e : e = [path |-> p, forest |-> Restrict(tree, below)]
  OBVIOUS
<1>10. Trashed(e)
  <2>1. e.path = p /\ e.forest = Restrict(tree, below)
    BY <1>9
  <2>2. p \in below /\ p \in Paths
    BY <1>2, <1>3, WithinSelf
  <2>3. ASSUME NEW q \in below, q # p PROVE Parent(q) \in below /\ tree[Parent(q)] = "dir"
    <3>1. Within(p, Parent(q))
      BY <1>3, <2>3, ParentOrRoot
    <3>2. Parent(q) # Root
      <4>1. PICK r : r = Parent(q)
        OBVIOUS
      <4>2. Len(r) >= Len(p) /\ Len(p) >= 1 /\ Len(p) \in Nat /\ r \in Places
        BY <1>3, <2>3, <3>1, <4>1, ParentFacts, PlaceFacts DEF Within
      <4> QED BY <4>1, <4>2, RootFacts, PlaceFacts
    <3> QED BY <1>2, <2>3, <3>1, <3>2 DEF Closed
  <2>4. \A q \in below : q \in Paths /\ Within(p, q)
    BY <1>2
  <2> QED BY <1>2, <1>6, <2>1, <2>2, <2>3, <2>4 DEF Trashed
<1>11. BinOK(bin')
  BY <1>1, <1>2, <1>9, <1>10 DEF BinOK
<1> QED BY <1>7, <1>8, <1>11 DEF Shaped

\* The missing directories above p, and p itself if it is in S.
LEMMA AncestorsAdded ==
  ASSUME TypeInv, NEW p \in Places, Len(p) >= 1,
         NEW S, S = Ancestors(p) \/ S = {p} \cup Ancestors(p), ~Blocked(S)
  PROVE  /\ Closed(Adding(tree, AllDirs(S))) /\ Kinded(Adding(tree, AllDirs(S)))
         /\ DOMAIN Adding(tree, AllDirs(S)) = DOMAIN tree \cup S
         /\ \A q \in S : Adding(tree, AllDirs(S))[q] = "dir"
<1>1. \A q \in S : Parent(q) = Root \/ Parent(q) \in S
  BY AncestorsChain
<1>2. \A q \in S : q \in DOMAIN tree => tree[q] # "file"
  BY DEF Blocked
<1>3. Closed(tree) /\ Kinded(tree)
  BY DEF TypeInv, Shaped
<1> QED BY <1>1, <1>2, <1>3, DirsAdded

\* A row or an entry of a kind, and directories
LEMMA NewKinded ==
  /\ \A S : Kinded(AllDirs(S)) /\ DOMAIN AllDirs(S) = S
  /\ \A p : \A kind \in Kinds : Kinded(One(p, kind)) /\ DOMAIN One(p, kind) = {p}
  BY DEF AllDirs, One, Kinded, Kinds

\* One more row leaves the kinds as they are.
LEMMA AddedKinded ==
  ASSUME NEW f, NEW g, Kinded(f), Kinded(g)
  PROVE  Kinded(Adding(f, g))
  BY AddingFacts

\* One more entry below directories that are there
LEMMA EntryAdded ==
  ASSUME NEW f, Closed(f), Kinded(f), NEW p \in Places, Len(p) >= 1, NEW kind \in Kinds,
         Parent(p) = Root \/ (Parent(p) \in DOMAIN f /\ f[Parent(p)] = "dir")
  PROVE  Closed(Adding(f, One(p, kind))) /\ Kinded(Adding(f, One(p, kind)))
<1>1. PICK g : g = One(p, kind)
  OBVIOUS
<1>2. Kinded(g) /\ DOMAIN g = {p}
  BY <1>1, NewKinded
<1>3. Closed(Adding(f, g)) /\ Kinded(Adding(f, g))
  BY <1>2, LeavesAdded
<1> QED BY <1>1, <1>3

\* The parents of a new entry are there once they have been made.
LEMMA ParentAdded ==
  ASSUME TypeInv, NEW p \in Places, Len(p) >= 1, ~Blocked(Ancestors(p))
  PROVE  \/ Parent(p) = Root
         \/ /\ Parent(p) \in DOMAIN Adding(tree, AllDirs(Ancestors(p)))
            /\ Adding(tree, AllDirs(Ancestors(p)))[Parent(p)] = "dir"
<1>1. /\ DOMAIN Adding(tree, AllDirs(Ancestors(p))) = DOMAIN tree \cup Ancestors(p)
      /\ \A q \in Ancestors(p) : Adding(tree, AllDirs(Ancestors(p)))[q] = "dir"
  BY AncestorsAdded
<1>2. Parent(p) = Root \/ Parent(p) \in Ancestors(p)
  BY ParentOrRoot
<1> QED BY <1>1, <1>2

\* A restore keeps it, which puts the subtree below parents that it may have to make.
LEMMA RestoreShape ==
  ASSUME TypeInv, NEW u \in Slots, Restore(u)
  PROVE  Shaped(tree', rows', bin')
<1>1. PICK p, forest : p = bin[u].path /\ forest = bin[u].forest
  OBVIOUS
<1>2. PICK parents : parents = Adding(tree, AllDirs(Ancestors(p)))
  OBVIOUS
<1>3. /\ bin[u] # Empty /\ p \notin DOMAIN tree /\ ~Blocked(Ancestors(p))
      /\ \/ /\ tree' = Adding(parents, forest)
            /\ rows' = Adding(rows, forest)
            /\ bin' = [bin EXCEPT ![u] = Empty]
         \/ /\ tree' = parents
            /\ UNCHANGED <<rows, bin>>
  BY <1>1, <1>2 DEF Restore, Free, RestoredRows
<1>4. DOMAIN tree \subseteq Paths /\ Closed(tree) /\ Kinded(tree) /\ Kinded(rows) /\ BinOK(bin)
  BY DEF TypeInv, Shaped
<1>5. Trashed(bin[u])
  BY <1>3, <1>4 DEF BinOK
<1>6. /\ p \in Paths /\ p \in DOMAIN forest /\ Kinded(forest)
      /\ \A q \in DOMAIN forest :
           /\ q \in Paths /\ Within(p, q)
           /\ q = p \/ (Parent(q) \in DOMAIN forest /\ forest[Parent(q)] = "dir")
  BY <1>1, <1>5 DEF Trashed
<1>7. p \in Places /\ Len(p) >= 1
  BY <1>6, PathFacts
<1>8. /\ Closed(parents) /\ Kinded(parents)
      /\ DOMAIN parents = DOMAIN tree \cup Ancestors(p)
  BY <1>2, <1>3, <1>7, AncestorsAdded
<1>9. Parent(p) = Root \/ (Parent(p) \in DOMAIN parents /\ parents[Parent(p)] = "dir")
  BY <1>2, <1>3, <1>7, ParentAdded
<1>10. ASSUME NEW q \in DOMAIN forest PROVE q \notin DOMAIN parents
  <2>1. q \in Places /\ Len(q) >= Len(p) /\ Within(p, q)
    BY <1>6, <1>7, PathFacts, WithinMeans
  <2>2. q \notin Ancestors(p)
    BY <1>7, <2>1, AncestorFacts, PlaceFacts
  <2>3. q \notin DOMAIN tree
    BY <1>3, <1>4, <1>7, <2>1, AncestorsThere
  <2> QED BY <1>8, <2>2, <2>3
<1>11. Closed(Adding(parents, forest)) /\ Kinded(Adding(parents, forest))
  <2>1. PICK g : g = Adding(parents, forest)
    OBVIOUS
  <2>2. /\ DOMAIN Adding(parents, forest) = DOMAIN parents \cup DOMAIN forest
        /\ \A q \in DOMAIN parents : Adding(parents, forest)[q] = parents[q]
        /\ \A q \in DOMAIN forest \ DOMAIN parents : Adding(parents, forest)[q] = forest[q]
        /\ Kinded(parents) /\ Kinded(forest) => Kinded(Adding(parents, forest))
    BY AddingFacts
  <2>3. \A q \in DOMAIN forest : g[q] = forest[q]
    BY <1>10, <2>1, <2>2
  <2>4. Closed(g)
    BY <1>6, <1>8, <1>9, <2>1, <2>2, <2>3 DEF Closed
  <2> QED BY <1>6, <1>8, <2>1, <2>2, <2>4
<1>12. Kinded(Adding(rows, forest))
  BY <1>4, <1>6, AddedKinded
<1>13. BinOK([bin EXCEPT ![u] = Empty])
  BY <1>4 DEF BinOK
<1> QED BY <1>3, <1>4, <1>8, <1>11, <1>12, <1>13 DEF Shaped

\* A new folder keeps it.
LEMMA CreateFolderShape ==
  ASSUME TypeInv, NEW p \in Paths, CreateFolder(p)
  PROVE  Shaped(tree', rows', bin')
<1>1. p \in Places /\ Len(p) >= 1 /\ "dir" \in Kinds
  BY PathFacts DEF Kinds
<1>2. /\ ~Blocked({p} \cup Ancestors(p)) /\ bin' = bin
      /\ rows' = Adding(rows, One(p, "dir"))
      /\ tree' = Adding(tree, AllDirs({p} \cup Ancestors(p)))
  BY DEF CreateFolder
<1>3. Kinded(rows) /\ BinOK(bin)
  BY DEF TypeInv, Shaped
<1>4. Closed(tree') /\ Kinded(tree')
  BY <1>1, <1>2, AncestorsAdded
<1>5. Kinded(rows')
  BY <1>1, <1>2, <1>3, NewKinded, AddedKinded
<1> QED BY <1>2, <1>3, <1>4, <1>5 DEF Shaped

\* An upload and the PUT of WebDAV keep it.
LEMMA UploadShape ==
  ASSUME TypeInv, NEW p \in Paths, Upload(p) \/ DavPut(p)
  PROVE  Shaped(tree', rows', bin')
<1>1. p \in Places /\ Len(p) >= 1 /\ "file" \in Kinds
  BY PathFacts DEF Kinds
<1>2. PICK dirRows, dirs : /\ dirRows = Adding(rows, AllDirs(Ancestors(p)))
                           /\ dirs = Adding(tree, AllDirs(Ancestors(p)))
  OBVIOUS
<1>3. /\ bin' = bin /\ rows' \in {dirRows, Adding(dirRows, One(p, "file"))}
      /\ \/ tree' = tree
         \/ /\ ~Blocked(Ancestors(p))
            /\ tree' \in {dirs, Adding(dirs, One(p, "file"))}
  <2>1. CASE Upload(p)
    BY <1>2, <2>1 DEF Upload
  <2>2. CASE DavPut(p)
    BY <1>2, <2>2 DEF DavPut
  <2> QED BY <2>1, <2>2
<1>4. Closed(tree) /\ Kinded(tree) /\ Kinded(rows) /\ BinOK(bin)
  BY DEF TypeInv, Shaped
<1>5. Kinded(rows')
  <2>1. Kinded(dirRows)
    BY <1>2, <1>4, NewKinded, AddedKinded
  <2>2. Kinded(Adding(dirRows, One(p, "file")))
    BY <1>1, <2>1, NewKinded, AddedKinded
  <2> QED BY <1>3, <2>1, <2>2
<1>6. ASSUME ~Blocked(Ancestors(p))
      PROVE  /\ Closed(dirs) /\ Kinded(dirs)
             /\ Closed(Adding(dirs, One(p, "file"))) /\ Kinded(Adding(dirs, One(p, "file")))
  <2>1. Closed(dirs) /\ Kinded(dirs)
    BY <1>1, <1>2, <1>6, AncestorsAdded
  <2>2. Parent(p) = Root \/ (Parent(p) \in DOMAIN dirs /\ dirs[Parent(p)] = "dir")
    BY <1>1, <1>2, <1>6, ParentAdded
  <2> QED BY <1>1, <2>1, <2>2, EntryAdded
<1>7. Closed(tree') /\ Kinded(tree')
  BY <1>3, <1>4, <1>6
<1> QED BY <1>3, <1>4, <1>5, <1>7 DEF Shaped

\* MKCOL keeps it.
LEMMA DavMkcolShape ==
  ASSUME TypeInv, NEW p \in Paths, DavMkcol(p)
  PROVE  Shaped(tree', rows', bin')
<1>1. p \in Places /\ Len(p) >= 1 /\ "dir" \in Kinds
  BY PathFacts DEF Kinds
<1>2. Closed(tree) /\ Kinded(tree) /\ Kinded(rows) /\ BinOK(bin)
  BY DEF TypeInv, Shaped
<1>3. /\ tree' = Adding(tree, One(p, "dir")) /\ rows' = Adding(rows, One(p, "dir")) /\ bin' = bin
      /\ Parent(p) = Root \/ (Parent(p) \in DOMAIN tree /\ tree[Parent(p)] = "dir")
  BY DEF DavMkcol
<1>4. Closed(tree') /\ Kinded(tree')
  BY <1>1, <1>2, <1>3, EntryAdded
<1>5. Kinded(rows')
  BY <1>1, <1>2, <1>3, NewKinded, AddedKinded
<1> QED BY <1>2, <1>3, <1>4, <1>5 DEF Shaped

\* Where COPY puts something is a place.
LEMMA CopyOfPlaces ==
  ASSUME TypeInv, NEW src \in Places, NEW dst \in Paths, NEW q \in DOMAIN rows
  PROVE  CopyOf(q, src, dst) \in Places /\ Len(CopyOf(q, src, dst)) >= 1
<1>1. q \in Places /\ Len(q) \in Nat /\ Len(q) >= 1 /\ dst \in Places /\ Len(dst) >= 1
  BY TreePlaces, PathFacts
<1>2. CASE Within(src, q)
  <2>1. /\ Reroot(q, src, dst) \in Places
        /\ Len(Reroot(q, src, dst)) = Len(dst) + (Len(q) - Len(src))
    BY <1>1, <1>2, RerootFacts
  <2>2. Len(q) >= Len(src) /\ Len(src) \in Nat /\ Len(dst) \in Nat
    BY <1>1, <1>2, PlaceFacts DEF Within
  <2> QED BY <1>1, <1>2, <2>1, <2>2 DEF CopyOf
<1>3. CASE ~Within(src, q)
  BY <1>1, <1>3 DEF CopyOf
<1> QED BY <1>2, <1>3

\* COPY keeps it, whatever part of it succeeds.
LEMMA DavCopyShape ==
  ASSUME TypeInv, NEW src \in Places, NEW dst \in Paths, DavCopy(src, dst)
  PROVE  Shaped(tree', rows', bin')
<1> DEFINE hits  == CopiedRows(src)
           to    == [q \in hits |-> CopyOf(q, src, dst)]
           below == UNION {Ancestors(to[q]) : q \in hits}
           dirs  == below \cup {to[q] : q \in {q \in hits : rows[q] = "dir"}}
           files == {q \in hits : rows[q] = "file"}
           able  == {q \in files : q \in DOMAIN tree /\ tree[q] = "file" /\ to[q] \notin dirs}
           base  == Adding(tree, AllDirs(dirs))
           Copies(S) == Adding(base, [p \in {to[q] : q \in S} |-> "file"])
           new   == [p \in Range(to) |-> rows[CHOOSE q \in hits : to[q] = p]]
<1>1. ~Blocked(dirs) /\ bin' = bin
  BY DEF DavCopy
<1>2. \/ tree' = Copies(files) /\ rows' = Adding(rows, new)
      \/ (\E done \in SUBSET able : tree' = Copies(done)) /\ rows' = rows
  BY DEF DavCopy
<1>3. files \in SUBSET hits /\ SUBSET able \subseteq SUBSET hits
  OBVIOUS
<1>4. hits \subseteq DOMAIN rows /\ DOMAIN to = hits /\ \A q \in hits : to[q] = CopyOf(q, src, dst)
  BY DEF CopiedRows
<1>5. \A q \in hits : Ancestors(to[q]) \subseteq dirs
  OBVIOUS
<1>6. \A p \in dirs : \E q \in hits : p \in Ancestors(to[q]) \cup {to[q]}
  <2> SUFFICES ASSUME NEW p \in dirs PROVE \E q \in hits : p \in Ancestors(to[q]) \cup {to[q]}
    OBVIOUS
  <2>1. CASE p \in below
    BY <2>1
  <2>2. CASE p \notin below
    BY <2>2
  <2> QED BY <2>1, <2>2
<1>7. Closed(tree) /\ Kinded(tree) /\ Kinded(rows) /\ BinOK(bin)
  BY DEF TypeInv, Shaped
<1>8. DOMAIN new = Range(to) /\ \A p \in Range(to) : new[p] = rows[CHOOSE q \in hits : to[q] = p]
  OBVIOUS
<1> HIDE DEF hits, to, below, dirs, files, able, new
<1>9. \A q \in hits : to[q] \in Places /\ Len(to[q]) >= 1
  BY <1>4, CopyOfPlaces
<1>10. \A p \in dirs : Parent(p) = Root \/ Parent(p) \in dirs
  <2>1. \A q \in hits : \A p \in Ancestors(to[q]) \cup {to[q]} :
          Parent(p) = Root \/ Parent(p) \in Ancestors(to[q])
    BY <1>9, AncestorsChain
  <2> QED BY <1>5, <1>6, <2>1
<1>11. /\ Closed(base) /\ Kinded(base) /\ DOMAIN base = DOMAIN tree \cup dirs
       /\ \A p \in dirs : base[p] = "dir"
  <2>1. \A p \in dirs : p \in DOMAIN tree => tree[p] # "file"
    BY <1>1 DEF Blocked
  <2>2. /\ Closed(Adding(tree, AllDirs(dirs))) /\ Kinded(Adding(tree, AllDirs(dirs)))
        /\ DOMAIN Adding(tree, AllDirs(dirs)) = DOMAIN tree \cup dirs
        /\ \A p \in dirs : Adding(tree, AllDirs(dirs))[p] = "dir"
    BY <1>7, <1>10, <2>1, DirsAdded
  <2> QED BY <2>2
<1> HIDE DEF base
<1>12. ASSUME NEW q \in hits
       PROVE  Parent(to[q]) = Root \/ (Parent(to[q]) \in DOMAIN base /\ base[Parent(to[q])] = "dir")
  <2>1. Parent(to[q]) = Root \/ Parent(to[q]) \in Ancestors(to[q])
    BY <1>9, ParentOrRoot
  <2>2. Ancestors(to[q]) \subseteq dirs
    BY <1>5
  <2> QED BY <1>11, <2>1, <2>2
<1>13. Closed(tree') /\ Kinded(tree')
  <2>1. PICK S \in SUBSET hits : tree' = Adding(base, [p \in {to[q] : q \in S} |-> "file"])
    BY <1>2, <1>3
  <2>2. PICK leaves : leaves = [p \in {to[q] : q \in S} |-> "file"]
    OBVIOUS
  <2>3. DOMAIN leaves = {to[q] : q \in S} /\ Kinded(leaves)
    BY <2>2 DEF Kinded, Kinds
  <2>4. \A p \in DOMAIN leaves : \/ Parent(p) = Root
                                 \/ Parent(p) \in DOMAIN base /\ base[Parent(p)] = "dir"
    BY <1>12, <2>3
  <2> QED BY <1>11, <2>1, <2>2, <2>3, <2>4, LeavesAdded
<1>14. Kinded(rows')
  <2>1. ASSUME NEW p \in Range(to) PROVE new[p] \in Kinds
    <3>1. \E q \in hits : to[q] = p
      BY <1>4, <2>1 DEF Range
    <3>2. (CHOOSE q \in hits : to[q] = p) \in hits
      BY <3>1
    <3> QED BY <1>4, <1>7, <1>8, <2>1, <3>2 DEF Kinded
  <2>2. Kinded(new)
    BY <1>8, <2>1 DEF Kinded
  <2> QED BY <1>2, <1>7, <2>2, AddedKinded
<1> QED BY <1>1, <1>7, <1>13, <1>14 DEF Shaped

------------------------------------------------------------------------------
(* The steps, the types and what comes back from the trash.                *)

\* What only deletes rows keeps it.
LEMMA DropShape ==
  ASSUME TypeInv, NEW p, DeleteRows(p) \/ ListFiles(p)
  PROVE  Shaped(tree', rows', bin')
<1>1. Closed(tree) /\ Kinded(tree) /\ Kinded(rows) /\ BinOK(bin)
  BY DEF TypeInv, Shaped
<1>2. tree' = tree /\ bin' = bin
  BY DEF DeleteRows, ListFiles
<1>3. \E S : S \subseteq DOMAIN rows /\ rows' = Restrict(rows, S)
  BY DEF DeleteRows, ListFiles, DroppedRows
<1>4. Kinded(rows')
  BY <1>1, <1>3, RestrictFacts
<1> QED BY <1>1, <1>2, <1>4 DEF Shaped

\* Renames and moves name places.
LEMMA RelocateCases ==
  ASSUME TypeInv, NEW p \in DOMAIN tree
  PROVE  /\ \A name \in Names : RenameItem(p, name) =>
              /\ Append(Parent(p), name) \in Places /\ Len(Append(Parent(p), name)) >= 1
              /\ Relocate(p, Append(Parent(p), name))
         /\ \A dir \in Directories : MoveItem(p, dir) =>
              /\ Append(dir, NameOf(p)) \in Places /\ Len(Append(dir, NameOf(p))) >= 1
              /\ Relocate(p, Append(dir, NameOf(p)))
<1>1. p \in Places /\ Parent(p) \in Places /\ NameOf(p) \in Names
  BY TreePlaces, ParentFacts
<1>2. \A d \in Places, n \in Names : Append(d, n) \in Places /\ Len(Append(d, n)) >= 1
  BY AppendFacts, PlaceFacts
<1> QED BY <1>1, <1>2, DirectoryPlaces DEF RenameItem, MoveItem

\* Every step of Next but for its bounds.
Moves ==
  \/ \E src \in DOMAIN tree, dst \in Places : Len(dst) >= 1 /\ Relocate(src, dst)
  \/ \E dir, to \in Places, m, n \in Names : MoveBatch(dir, m, n, to)

Changes ==
  \/ \E u \in Slots, p \in DOMAIN tree : DeleteToTrash(u, p)
  \/ \E p \in Paths : DeleteRows(p) \/ DavMkcol(p) \/ CreateFolder(p) \/ Upload(p) \/ DavPut(p)
  \/ \E src \in Places, p \in Paths : DavCopy(src, p)
  \/ \E u \in Slots : Restore(u)
  \/ \E dir \in Places : ListFiles(dir)

\* Next allows no other step.
LEMMA NextCases ==
  ASSUME TypeInv, Next
  PROVE  (Moves \/ Changes) /\ Bounded
<1>1. Bounded
  BY DEF Next
<1>2. CASE \E p \in DOMAIN tree :
             \/ \E name \in Names : RenameItem(p, name)
             \/ \E dir \in Directories : MoveItem(p, dir)
             \/ \E u \in Slots : DeleteToTrash(u, p)
  <2>1. PICK p \in DOMAIN tree : \/ \E name \in Names : RenameItem(p, name)
                                 \/ \E dir \in Directories : MoveItem(p, dir)
                                 \/ \E u \in Slots : DeleteToTrash(u, p)
    BY <1>2
  <2>2. ASSUME NEW name \in Names, RenameItem(p, name) PROVE Moves
    BY <2>2, RelocateCases DEF Moves
  <2>3. ASSUME NEW dir \in Directories, MoveItem(p, dir) PROVE Moves
    BY <2>3, RelocateCases DEF Moves
  <2> QED BY <1>1, <2>1, <2>2, <2>3 DEF Changes
<1>3. CASE \E src \in UNION {Ancestors(q) \cup {q} : q \in DOMAIN rows}, p \in Room : DavCopy(src, p)
  <2>1. PICK src \in UNION {Ancestors(q) \cup {q} : q \in DOMAIN rows}, p \in Room : DavCopy(src, p)
    BY <1>3
  <2>2. src \in Places
    <3>1. PICK q \in DOMAIN rows : src \in Ancestors(q) \cup {q}
      BY <2>1
    <3> QED BY <3>1, TreePlaces, AncestorFacts
  <2>3. p \in Paths
    BY DEF Room
  <2> QED BY <1>1, <2>1, <2>2, <2>3 DEF Changes
<1>4. CASE \E dir \in {Parent(p) : p \in DOMAIN tree}, to \in Directories, m, n \in Names :
             MoveBatch(dir, m, n, to)
  <2>1. \A p \in DOMAIN tree : Parent(p) \in Places
    BY TreePlaces, ParentFacts
  <2> QED BY <1>1, <1>4, <2>1, DirectoryPlaces DEF Moves
<1>5. CASE \E dir \in Directories : ListFiles(dir)
  BY <1>1, <1>5, DirectoryPlaces DEF Changes
<1>6. CASE \E p \in Paths \ DOMAIN tree : DeleteRows(p) \/ DavMkcol(p)
  BY <1>1, <1>6 DEF Changes
<1>7. CASE \E p \in Paths : CreateFolder(p) \/ Upload(p) \/ DavPut(p)
  BY <1>1, <1>7 DEF Changes
<1>8. CASE \E u \in Slots : Restore(u)
  BY <1>1, <1>8 DEF Changes
<1> QED BY <1>1, <1>2, <1>3, <1>4, <1>5, <1>6, <1>7, <1>8 DEF Next

\* Every step keeps the types.
LEMMA TypeStep == TypeInv /\ [Next]_vars => TypeInv'
<1> SUFFICES ASSUME TypeInv, [Next]_vars PROVE TypeInv'
  OBVIOUS
<1>1. CASE UNCHANGED vars
  BY <1>1 DEF vars, TypeInv
<1>2. CASE Next
  <2>1. DOMAIN tree' \subseteq Paths /\ DOMAIN rows' \subseteq Paths
    BY <1>2, NextCases DEF Bounded
  <2>2. CASE Moves
    <3>1. \A p \in DOMAIN tree : p \in Places
      BY TreePlaces
    <3> QED BY <2>1, <2>2, <3>1, RelocateShape, MoveBatchShape DEF Moves, TypeInv
  <2>3. CASE Changes
    <3>1. Shaped(tree', rows', bin')
      BY <2>3, DeleteShape, DropShape, DavMkcolShape, CreateFolderShape, UploadShape, DavCopyShape,
         RestoreShape DEF Changes
    <3> QED BY <2>1, <3>1 DEF TypeInv
  <2> QED BY <1>2, <2>2, <2>3, NextCases
<1> QED BY <1>1, <1>2

\* They hold of the empty drive.
LEMMA TypeStart == Init => TypeInv
<1> SUFFICES ASSUME Init PROVE TypeInv
  OBVIOUS
<1>1. DOMAIN Empty = {}
  BY DEF Empty
<1> QED BY <1>1 DEF Init, TypeInv, Shaped, Closed, Kinded, BinOK

\* TypeOK for any names, depth and number of entries: whatever is moved, trashed, restored,
\* uploaded and copied, every entry lies in a directory, and what a slot of the trash holds
\* is one entry with what was below it.
THEOREM TypeCorrect == Spec => []TypeOK
<1>1. TypeInv => TypeOK
  <2> SUFFICES ASSUME TypeInv PROVE TypeOK
    OBVIOUS
  <2>1. IsForest(tree) /\ Closed(tree) /\ IsForest(rows)
    BY KindedRange DEF TypeInv, Shaped, IsForest
  <2>2. \A u \in Slots : bin[u] = Empty \/ Trashed(bin[u])
    BY DEF TypeInv, Shaped, BinOK
  <2> QED BY <2>1, <2>2 DEF TypeOK, Free, Trashed
<1> QED BY <1>1, TypeStart, TypeStep, PTL DEF Spec

\* RestoreRegistersAll: whatever comes back from the trash is in the table again, at any
\* depth, over whatever rows were left behind.  (trash.rs, restore_dir_recursive_tx)
THEOREM RestoresRegister == Spec => RestoreRegistersAll
<1>1. ASSUME TypeInv, [Next]_vars
      PROVE  [\A u \in Slots : ~Free(u) /\ bin'[u] = Empty =>
                DOMAIN bin[u].forest \subseteq DOMAIN tree' \cap DOMAIN rows']_vars
  <2> SUFFICES ASSUME Next, NEW u \in Slots, bin[u] # Empty, bin'[u] = Empty
               PROVE  DOMAIN bin[u].forest \subseteq DOMAIN tree' \cap DOMAIN rows'
    BY <1>1 DEF Free
  <2>1. bin = [v \in Slots |-> bin[v]]
    BY <1>1 DEF TypeInv, Shaped, BinOK
  <2>2. CASE Moves
    BY <2>2 DEF Moves, Relocate, MoveBatch
  <2>3. CASE \E v \in Slots, p \in DOMAIN tree : DeleteToTrash(v, p)
    <3>1. PICK v \in Slots : Free(v) /\ \A w \in Slots \ {v} : bin'[w] = bin[w]
      BY <2>1, <2>3 DEF DeleteToTrash
    <3> QED BY <3>1 DEF Free
  <2>4. CASE \E p \in Paths : \/ DeleteRows(p) \/ DavMkcol(p) \/ CreateFolder(p)
                              \/ Upload(p) \/ DavPut(p)
    BY <2>4 DEF DeleteRows, DavMkcol, CreateFolder, Upload, DavPut
  <2>5. CASE \E src \in Places, p \in Paths : DavCopy(src, p)
    BY <2>5 DEF DavCopy
  <2>6. CASE \E dir \in Places : ListFiles(dir)
    BY <2>6 DEF ListFiles
  <2>7. CASE \E v \in Slots : Restore(v)
    <3>1. PICK v \in Slots : Restore(v)
      BY <2>7
    <3>2. CASE bin' = [bin EXCEPT ![v] = Empty]
      <4>1. v = u
        BY <2>1, <3>2
      <4>2. PICK forest, parents : /\ forest = bin[u].forest
                                   /\ parents = Adding(tree, AllDirs(Ancestors(bin[u].path)))
        OBVIOUS
      <4>3. CASE tree' = Adding(parents, forest) /\ rows' = Adding(rows, forest)
        <5>1. DOMAIN tree' = DOMAIN parents \cup DOMAIN forest
          BY <4>3, AddingFacts
        <5>2. DOMAIN rows' = DOMAIN rows \cup DOMAIN forest
          BY <4>3, AddingFacts
        <5> QED BY <4>2, <5>1, <5>2
      <4>4. CASE bin' = bin
        BY <4>4
      <4>5. \/ tree' = Adding(parents, forest) /\ rows' = Adding(rows, forest)
            \/ bin' = bin
        BY <3>1, <4>1, <4>2 DEF Restore, RestoredRows
      <4> QED BY <4>3, <4>4, <4>5
    <3>3. CASE bin' = bin
      BY <3>3
    <3> QED BY <3>1, <3>2, <3>3 DEF Restore
  <2> QED BY <1>1, <2>2, <2>3, <2>4, <2>5, <2>6, <2>7, NextCases DEF Changes
<1> QED BY <1>1, TypeStart, TypeStep, PTL DEF Spec, RestoreRegistersAll

------------------------------------------------------------------------------
(* The rows of a rename: three UPDATEs one after the other.                *)

\* No two names differ only in what LIKE ignores.
NoTwinNames == \A m, n \in Names : Fold[m] = Fold[n] => m = n

\* Then LIKE finds what lies deeper than the children, and nothing else.
LEMMA LikeIsWithin ==
  ASSUME NoTwinNames, NEW d \in Places, NEW q \in Places, Len(q) >= 1
  PROVE  LikeBelow(d, Parent(q)) <=> Within(d, q) /\ Len(q) > Len(d) + 1
<1> DEFINE p == Parent(q)
<1>1. /\ p \in Places /\ Len(p) = Len(q) - 1 /\ Len(d) \in Nat /\ Len(q) \in Nat
      /\ \A k \in 1..Len(p) : p[k] \in Names
      /\ \A k \in 1..Len(d) : d[k] \in Names
  BY ParentFacts, PlaceFacts
<1>2. Within(d, p) <=> Len(p) >= Len(d) /\ \A k \in 1..Len(d) : p[k] = d[k]
  BY <1>1, WithinMeans
<1>3. Within(d, p) <=> Within(d, q) /\ Len(q) > Len(d)
  BY WithinParent
<1>4. LikeBelow(d, p) <=> Len(p) > Len(d) /\ \A k \in 1..Len(d) : p[k] = d[k]
  <2>1. ASSUME Len(p) > Len(d) PROVE \A k \in 1..Len(d) : Fold[p[k]] = Fold[d[k]] <=> p[k] = d[k]
    <3>1. \A k \in 1..Len(d) : k \in 1..Len(p)
      BY <1>1, <2>1
    <3> QED BY <1>1, <3>1 DEF NoTwinNames
  <2> QED BY <2>1 DEF LikeBelow
<1> HIDE DEF p
<1>5. LikeBelow(d, p) <=> Within(d, q) /\ Len(q) > Len(d) + 1
  BY <1>1, <1>2, <1>3, <1>4
<1> QED BY <1>5 DEF p

\* A table whose rows have paths.
Placed(r) == \A q \in DOMAIN r : q \in Places /\ Len(q) >= 1

\* Neither of two paths lies below the other.
Apart(src, dst) == ~Within(src, dst) /\ ~Within(dst, src)

\* No entry lies below both.
LEMMA ApartFacts ==
  ASSUME NEW src \in Places, NEW dst \in Places, Apart(src, dst), NEW q \in Places
  PROVE  ~(Within(src, q) /\ Within(dst, q))
<1>1. Len(src) \in Nat /\ Len(dst) \in Nat
  BY PlaceFacts
<1>2. Len(src) <= Len(dst) \/ Len(dst) <= Len(src)
  BY <1>1
<1> QED BY <1>2, WithinBoth DEF Apart

\* One UPDATE of a rename: some rows of the subtree get the paths of their new place.
Stage(r, key, src, dst) ==
  /\ DOMAIN key \subseteq DOMAIN r
  /\ \A q \in DOMAIN key : Within(src, q) /\ key[q] = Reroot(q, src, dst)

\* What it leaves alone, and what it gives.
Staged(r, key, src, dst, out) ==
  /\ Placed(out)
  /\ \A p \in DOMAIN r \ DOMAIN key : ~Within(dst, p) => p \in DOMAIN out /\ out[p] = r[p]
  /\ \A q \in DOMAIN key : Reroot(q, src, dst) \in DOMAIN out /\ out[Reroot(q, src, dst)] = r[q]
  /\ \A q \in Places : Within(src, q) /\ q \notin DOMAIN key /\ Reroot(q, src, dst) \in DOMAIN r =>
       /\ Reroot(q, src, dst) \in DOMAIN out
       /\ out[Reroot(q, src, dst)] = r[Reroot(q, src, dst)]

\* An UPDATE that re-keys part of a subtree does nothing else.
LEMMA StageFacts ==
  ASSUME NEW src \in Places, NEW dst \in Places, Len(dst) >= 1, Apart(src, dst),
         NEW r, Placed(r), NEW key, Stage(r, key, src, dst)
  PROVE  Staged(r, key, src, dst, Rekeyed(r, key))
<1> DEFINE out == Rekeyed(r, key)
<1>1. \A q \in DOMAIN key : /\ q \in DOMAIN r /\ q \in Places /\ Within(src, q)
                            /\ key[q] = Reroot(q, src, dst)
  BY DEF Stage, Placed
<1>2. \A q \in Places : Within(src, q) =>
        /\ Reroot(q, src, dst) \in Places /\ Within(dst, Reroot(q, src, dst))
        /\ Len(Reroot(q, src, dst)) >= 1
  <2> SUFFICES ASSUME NEW q \in Places, Within(src, q)
               PROVE  /\ Reroot(q, src, dst) \in Places /\ Within(dst, Reroot(q, src, dst))
                      /\ Len(Reroot(q, src, dst)) >= 1
    OBVIOUS
  <2>1. Reroot(q, src, dst) \in Places /\ Within(dst, Reroot(q, src, dst))
    BY RerootFacts, RerootWithin
  <2>2. Len(Reroot(q, src, dst)) >= Len(dst)
    BY <2>1, WithinMeans
  <2>3. Len(Reroot(q, src, dst)) \in Nat /\ Len(dst) \in Nat
    BY <2>1, PlaceFacts
  <2> QED BY <2>1, <2>2, <2>3
<1>3. \A p, q \in DOMAIN key : key[p] = key[q] => p = q
  BY <1>1, RerootInjective
<1>4. /\ DOMAIN out = (DOMAIN r \ DOMAIN key) \cup Range(key)
      /\ \A p \in DOMAIN r \ DOMAIN key : p \notin Range(key) => out[p] = r[p]
  BY RekeyedFacts
<1>5. \A z \in Range(key) : \E q \in DOMAIN key : z = Reroot(q, src, dst)
  BY <1>1 DEF Range
<1>6. \A q \in DOMAIN key : key[q] \in Range(key) /\ out[key[q]] = r[q]
  BY <1>3, RekeyedInjective
<1> HIDE DEF out
<1>7. Placed(out)
  BY <1>1, <1>2, <1>4, <1>5 DEF Placed
<1>8. \A p \in DOMAIN r \ DOMAIN key : ~Within(dst, p) => p \in DOMAIN out /\ out[p] = r[p]
  BY <1>1, <1>2, <1>4, <1>5
<1>9. \A q \in DOMAIN key : Reroot(q, src, dst) \in DOMAIN out /\ out[Reroot(q, src, dst)] = r[q]
  BY <1>1, <1>4, <1>6
<1>10. ASSUME NEW q \in Places, Within(src, q), q \notin DOMAIN key, Reroot(q, src, dst) \in DOMAIN r
       PROVE  /\ Reroot(q, src, dst) \in DOMAIN out
              /\ out[Reroot(q, src, dst)] = r[Reroot(q, src, dst)]
  <2>1. Reroot(q, src, dst) \notin DOMAIN key
    BY <1>1, <1>2, <1>10, ApartFacts
  <2>2. Reroot(q, src, dst) \notin Range(key)
    BY <1>1, <1>5, <1>10, RerootInjective
  <2> QED BY <1>4, <1>10, <2>1, <2>2
<1>11. Staged(r, key, src, dst, out)
  BY <1>7, <1>8, <1>9, <1>10 DEF Staged
<1> QED BY <1>11 DEF out

\* What the three UPDATEs make of the table together.
Carried(r, src, dst, out) ==
  /\ Placed(out)
  /\ \A p \in DOMAIN r : ~Within(src, p) /\ ~Within(dst, p) => p \in DOMAIN out /\ out[p] = r[p]
  /\ \A q \in DOMAIN r : Within(src, q) =>
       Reroot(q, src, dst) \in DOMAIN out /\ out[Reroot(q, src, dst)] = r[q]

\* Own row, children and deeper rows: each row of the subtree is re-keyed by one of the three.
LEMMA MoveTxCarries ==
  ASSUME NoTwinNames, NEW src \in Places, NEW dst \in Places, Len(src) >= 1, Len(dst) >= 1,
         Apart(src, dst), NEW r, Placed(r)
  PROVE  Carried(r, src, dst, MoveTx(r, src, dst).rows)
<1> DEFINE own   == OwnKey(r, src, dst)
           r1    == Rekeyed(r, own)
           child == ChildKeys(r1, src, dst)
           r2    == Rekeyed(r1, child)
           deep  == DeepKeys(r2, src, dst)
           r3    == Rekeyed(r2, deep)
<1>1. MoveTx(r, src, dst).rows = r3
  BY DEF MoveTx
<1>2. DOMAIN own = DOMAIN r \cap {src} /\ \A q \in DOMAIN own : own[q] = dst
  BY DEF OwnKey
<1>3. Stage(r, own, src, dst)
  BY <1>2, WithinSelf, RerootWithin DEF Stage
<1>4. Staged(r, own, src, dst, r1)
  BY <1>3, StageFacts
<1>5. /\ DOMAIN child = {q \in DOMAIN r1 : Parent(q) = src}
      /\ \A q \in DOMAIN child : child[q] = Append(dst, NameOf(q))
  BY DEF ChildKeys
<1>6. Placed(r1)
  BY <1>4 DEF Staged
<1> HIDE DEF own, r1, child
<1>7. \A q \in Places : Len(q) >= 1 => (Parent(q) = src <=> Within(src, q) /\ Len(q) = Len(src) + 1)
  <2> SUFFICES ASSUME NEW q \in Places, Len(q) >= 1
               PROVE  Parent(q) = src <=> Within(src, q) /\ Len(q) = Len(src) + 1
    OBVIOUS
  <2>1. /\ Parent(q) \in Places /\ Len(Parent(q)) = Len(q) - 1
        /\ Len(q) \in Nat /\ Len(src) \in Nat
    BY ParentFacts, PlaceFacts
  <2>2. Within(Parent(q), q) /\ (Within(src, Parent(q)) <=> Within(src, q) /\ Len(q) > Len(src))
    BY WithinParent
  <2>3. Within(src, Parent(q)) /\ Len(Parent(q)) <= Len(src) => Parent(q) = src
    BY <2>1, WithinEqual
  <2> QED BY <2>1, <2>2, <2>3
<1>8. ASSUME NEW q \in Places, Within(src, q), Len(q) = Len(src) + 1
      PROVE  Append(dst, NameOf(q)) = Reroot(q, src, dst)
  <2>1. Len(q) \in Nat /\ Len(src) \in Nat /\ Len(dst) \in Nat
    BY PlaceFacts
  <2>2. /\ Reroot(q, src, dst) \in Places /\ Len(Reroot(q, src, dst)) = Len(dst) + 1
        /\ \A k \in 1..Len(dst) : Reroot(q, src, dst)[k] = dst[k]
        /\ Reroot(q, src, dst)[Len(dst) + 1] = q[Len(src) + 1]
    <3>1. /\ Reroot(q, src, dst) \in Places
          /\ Len(Reroot(q, src, dst)) = Len(dst) + (Len(q) - Len(src))
          /\ \A k \in 1..Len(dst) : Reroot(q, src, dst)[k] = dst[k]
          /\ \A k \in 1..(Len(q) - Len(src)) : Reroot(q, src, dst)[Len(dst) + k] = q[Len(src) + k]
      BY <1>8, RerootFacts
    <3>2. PICK z : z = Reroot(q, src, dst)
      OBVIOUS
    <3>3. Len(q) - Len(src) = 1 /\ 1 \in 1..(Len(q) - Len(src))
      BY <1>8, <2>1
    <3> QED BY <3>1, <3>2, <3>3
  <2>3. NameOf(q) \in Names /\ NameOf(q) = q[Len(src) + 1]
    BY <1>8, <2>1, ParentFacts DEF NameOf
  <2>4. PICK z : z = Append(dst, NameOf(q))
    OBVIOUS
  <2>5. /\ z \in Places /\ Len(z) = Len(dst) + 1
        /\ \A k \in 1..Len(dst) : z[k] = dst[k]
        /\ z[Len(dst) + 1] = q[Len(src) + 1]
    BY <2>3, <2>4, AppendFacts
  <2>6. \A k \in 1..Len(z) : k \in 1..Len(dst) \/ k = Len(dst) + 1
    BY <2>1, <2>5
  <2>7. z = Reroot(q, src, dst)
    BY <2>2, <2>5, <2>6, PlacesEqual
  <2> QED BY <2>4, <2>7
<1>9. Stage(r1, child, src, dst)
  BY <1>5, <1>6, <1>7, <1>8 DEF Stage, Placed
<1>10. Staged(r1, child, src, dst, r2)
  BY <1>6, <1>9, StageFacts
<1>11. Placed(r2)
  BY <1>10 DEF Staged
<1> HIDE DEF r2
<1>12. /\ DOMAIN deep = {q \in DOMAIN r2 : LikeBelow(src, Parent(q))}
       /\ \A q \in DOMAIN deep : deep[q] = Reroot(q, src, dst)
  BY DEF DeepKeys
<1> HIDE DEF deep
<1>13. \A q \in DOMAIN r2 : q \in DOMAIN deep <=> Within(src, q) /\ Len(q) > Len(src) + 1
  BY <1>11, <1>12, LikeIsWithin DEF Placed
<1>14. Stage(r2, deep, src, dst)
  BY <1>12, <1>13 DEF Stage
<1>15. Staged(r2, deep, src, dst, r3)
  BY <1>11, <1>14, StageFacts
<1> HIDE DEF r3
<1>16. /\ \A q \in DOMAIN own : q = src
       /\ \A q \in DOMAIN child : Within(src, q) /\ Len(q) = Len(src) + 1
       /\ \A q \in DOMAIN deep : Within(src, q) /\ Len(q) > Len(src) + 1
  BY <1>2, <1>5, <1>6, <1>7, <1>12, <1>13 DEF Placed
<1>17. ASSUME NEW p \in DOMAIN r, ~Within(src, p), ~Within(dst, p)
       PROVE  p \in DOMAIN r3 /\ r3[p] = r[p]
  <2>1. p \in DOMAIN r1 /\ r1[p] = r[p]
    BY <1>4, <1>16, <1>17, WithinSelf DEF Staged
  <2>2. p \in DOMAIN r2 /\ r2[p] = r[p]
    BY <1>10, <1>16, <1>17, <2>1 DEF Staged
  <2> QED BY <1>15, <1>16, <1>17, <2>2 DEF Staged
<1>18. ASSUME NEW q \in DOMAIN r, Within(src, q)
       PROVE  Reroot(q, src, dst) \in DOMAIN r3 /\ r3[Reroot(q, src, dst)] = r[q]
  <2>1. q \in Places /\ Len(q) >= 1 /\ Len(q) \in Nat /\ Len(src) \in Nat /\ Len(q) >= Len(src)
    BY <1>18, WithinMeans, PlaceFacts DEF Placed
  <2>2. ~Within(dst, q)
    BY <1>18, <2>1, ApartFacts
  <2>3. CASE q = src
    <3>1. q \in DOMAIN own /\ q \notin DOMAIN child /\ q \notin DOMAIN deep
      BY <1>2, <1>16, <2>1, <2>3
    <3>2. Reroot(q, src, dst) \in DOMAIN r1 /\ r1[Reroot(q, src, dst)] = r[q]
      BY <1>4, <3>1 DEF Staged
    <3>3. Reroot(q, src, dst) \in DOMAIN r2 /\ r2[Reroot(q, src, dst)] = r[q]
      BY <1>10, <1>18, <2>1, <3>1, <3>2 DEF Staged
    <3> QED BY <1>15, <1>18, <2>1, <3>1, <3>3 DEF Staged
  <2>4. CASE Len(q) = Len(src) + 1
    <3>1. q # src /\ q \notin DOMAIN own /\ q \notin DOMAIN deep
      BY <1>16, <2>1, <2>4
    <3>2. q \in DOMAIN r1 /\ r1[q] = r[q]
      BY <1>4, <2>2, <3>1 DEF Staged
    <3>3. q \in DOMAIN child
      BY <1>5, <1>7, <1>18, <2>1, <2>4, <3>2
    <3>4. Reroot(q, src, dst) \in DOMAIN r2 /\ r2[Reroot(q, src, dst)] = r[q]
      BY <1>10, <3>2, <3>3 DEF Staged
    <3> QED BY <1>15, <1>18, <2>1, <3>1, <3>4 DEF Staged
  <2>5. CASE Len(q) > Len(src) + 1
    <3>1. q # src /\ q \notin DOMAIN own /\ q \notin DOMAIN child
      BY <1>16, <2>1, <2>5
    <3>2. q \in DOMAIN r1 /\ r1[q] = r[q]
      BY <1>4, <2>2, <3>1 DEF Staged
    <3>3. q \in DOMAIN r2 /\ r2[q] = r[q]
      BY <1>10, <2>2, <3>1, <3>2 DEF Staged
    <3>4. q \in DOMAIN deep
      BY <1>13, <1>18, <2>5, <3>3
    <3> QED BY <1>15, <3>3, <3>4 DEF Staged
  <2>6. Len(q) <= Len(src) => q = src
    BY <1>18, <2>1, WithinEqual
  <2> QED BY <2>1, <2>3, <2>4, <2>5, <2>6
<1>19. Placed(r3)
  BY <1>15 DEF Staged
<1>20. Carried(r, src, dst, r3)
  BY <1>17, <1>18, <1>19 DEF Carried
<1> QED BY <1>1, <1>20

------------------------------------------------------------------------------
(* The rows of what stays in place.                                        *)

\* The rows of the table have paths.
LEMMA RowsPlaced == TypeInv => Placed(rows)
BY TreePlaces DEF Placed

\* A rename goes to a path apart from its own.
LEMMA RenamesApart ==
  ASSUME TypeInv, NEW src \in Places, NEW dst \in Places, Len(src) >= 1, Len(dst) >= 1, Renames(src, dst)
  PROVE  /\ Apart(src, dst)
         /\ \A q \in DOMAIN tree : ~Within(dst, q)
<1>1. DOMAIN tree \subseteq Paths /\ Closed(tree)
  BY DEF TypeInv, Shaped
<1>2. src \in DOMAIN tree /\ dst \notin DOMAIN tree /\ ~Within(src, dst)
  BY DEF Renames
<1>3. \A q \in DOMAIN tree : ~Within(dst, q)
  BY <1>1, <1>2, AncestorsThere
<1> QED BY <1>2, <1>3 DEF Apart

\* The entries an operation leaves where they are keep their rows.
Bystanders ==
  \A p \in DOMAIN tree : Shown(p) /\ p \in DOMAIN tree' /\ tree'[p] = tree[p] => Shown(p)'

\* A rename or a move keeps the rows of the others.
LEMMA RelocateKeeps ==
  ASSUME NoTwinNames, TypeInv, NEW src \in Places, NEW dst \in Places, Len(dst) >= 1, Relocate(src, dst)
  PROVE  Bystanders
<1>1. /\ Renames(src, dst) /\ tree' = Rekeyed(tree, Moved(src, dst))
      /\ rows' = MoveTx(rows, src, dst).rows
  BY DEF Relocate
<1>2. Len(src) >= 1
  BY <1>1, TreePlaces DEF Renames
<1>3. Apart(src, dst) /\ \A q \in DOMAIN tree : ~Within(dst, q)
  BY <1>1, <1>2, RenamesApart
<1>4. Carried(rows, src, dst, rows')
  BY <1>1, <1>2, <1>3, RowsPlaced, MoveTxCarries
<1>5. MovesSubtree(Moved(src, dst), src, dst)
  BY <1>1, MovedFacts DEF TypeInv, Shaped
<1>6. \A p \in DOMAIN tree : Within(src, p) => p \notin DOMAIN tree'
  <2>1. PICK key : key = Moved(src, dst)
    OBVIOUS
  <2>2. DOMAIN tree' = (DOMAIN tree \ DOMAIN key) \cup Range(key)
    BY <1>1, <2>1, RekeyedFacts
  <2>3. \A z \in Range(key) : z \notin DOMAIN tree
    BY <1>5, <2>1 DEF MovesSubtree, Range
  <2> QED BY <1>5, <2>1, <2>2, <2>3 DEF MovesSubtree
<1> QED BY <1>3, <1>4, <1>6 DEF Carried, Bystanders, Shown

\* The UPDATEs for the second entry of a batch run on what those for the first leave.
LEMMA BatchRows ==
  ASSUME NoTwinNames, TypeInv, NEW dir \in Places, NEW to \in Places, NEW m \in Names, NEW n \in Names,
         MoveBatch(dir, m, n, to)
  PROVE  \E mid : /\ Carried(rows, Append(dir, m), Append(to, m), mid)
                  /\ Carried(mid, Append(dir, n), Append(to, n), rows')
<1>1. PICK s1, s2, d1, d2 : /\ s1 = Append(dir, m) /\ s2 = Append(dir, n)
                            /\ d1 = Append(to, m) /\ d2 = Append(to, n)
  OBVIOUS
<1>2. /\ m # n /\ Renames(s1, d1) /\ Renames(s2, d2)
      /\ rows' = MoveTx(MoveTx(rows, s1, d1).rows, s2, d2).rows
      /\ tree' = Rekeyed(tree, Adding(Moved(s1, d1), Moved(s2, d2)))
  BY <1>1 DEF MoveBatch
<1>3. \A p \in {s1, s2, d1, d2} : p \in Places /\ Len(p) >= 1
  <2>1. \A d \in Places, x \in Names : /\ Append(d, x) \in Places /\ Len(Append(d, x)) = Len(d) + 1
                                       /\ Len(d) \in Nat
    BY AppendFacts, PlaceFacts
  <2>2. \A d \in Places, x \in Names : Append(d, x) \in Places /\ Len(Append(d, x)) >= 1
    BY <2>1
  <2> QED BY <1>1, <2>2
<1>4. /\ Apart(s1, d1) /\ Apart(s2, d2)
      /\ \A q \in DOMAIN tree : ~Within(d1, q) /\ ~Within(d2, q)
  BY <1>2, <1>3, RenamesApart
<1>5. PICK mid : mid = MoveTx(rows, s1, d1).rows
  OBVIOUS
<1>6. Carried(rows, s1, d1, mid)
  BY <1>3, <1>4, <1>5, RowsPlaced, MoveTxCarries
<1>7. Carried(mid, s2, d2, rows')
  <2>1. Placed(mid)
    BY <1>6 DEF Carried
  <2>2. rows' = MoveTx(mid, s2, d2).rows
    BY <1>2, <1>5
  <2> QED BY <1>3, <1>4, <2>1, <2>2, MoveTxCarries
<1> QED BY <1>1, <1>6, <1>7

\* So does a batch of two.
LEMMA MoveBatchKeeps ==
  ASSUME NoTwinNames, TypeInv, NEW dir \in Places, NEW to \in Places, NEW m \in Names, NEW n \in Names,
         MoveBatch(dir, m, n, to)
  PROVE  Bystanders
<1>1. PICK s1, s2, d1, d2 : /\ s1 = Append(dir, m) /\ s2 = Append(dir, n)
                            /\ d1 = Append(to, m) /\ d2 = Append(to, n)
  OBVIOUS
<1>2. /\ m # n /\ Renames(s1, d1) /\ Renames(s2, d2)
      /\ rows' = MoveTx(MoveTx(rows, s1, d1).rows, s2, d2).rows
      /\ tree' = Rekeyed(tree, Adding(Moved(s1, d1), Moved(s2, d2)))
  BY <1>1 DEF MoveBatch
<1>3. \A p \in {s1, s2, d1, d2} : p \in Places /\ Len(p) >= 1
  <2>1. \A d \in Places, x \in Names : /\ Append(d, x) \in Places /\ Len(Append(d, x)) = Len(d) + 1
                                       /\ Len(d) \in Nat
    BY AppendFacts, PlaceFacts
  <2>2. \A d \in Places, x \in Names : Append(d, x) \in Places /\ Len(Append(d, x)) >= 1
    BY <2>1
  <2> QED BY <1>1, <2>2
<1>4. /\ Apart(s1, d1) /\ Apart(s2, d2)
      /\ \A q \in DOMAIN tree : ~Within(d1, q) /\ ~Within(d2, q)
  BY <1>2, <1>3, RenamesApart
<1>5. PICK mid : Carried(rows, s1, d1, mid) /\ Carried(mid, s2, d2, rows')
  BY <1>1, BatchRows
<1>6. \A p \in DOMAIN tree : Within(s1, p) \/ Within(s2, p) => p \notin DOMAIN tree'
  <2>1. PICK key : key = Adding(Moved(s1, d1), Moved(s2, d2))
    OBVIOUS
  <2>2. MovesTwo(key, dir, to, m, n)
    BY <1>1, <1>2, <2>1, BatchKeys
  <2>3. DOMAIN tree' = (DOMAIN tree \ DOMAIN key) \cup Range(key)
    BY <1>2, <2>1, RekeyedFacts
  <2>4. /\ DOMAIN key = {q \in DOMAIN tree : Within(s1, q) \/ Within(s2, q)}
        /\ \A q \in DOMAIN key : key[q] \notin DOMAIN tree
    BY <1>1, <2>2 DEF MovesTwo
  <2>5. \A z \in Range(key) : z \notin DOMAIN tree
    BY <2>4 DEF Range
  <2> QED BY <2>3, <2>4, <2>5
<1> QED BY <1>4, <1>5, <1>6 DEF Carried, Bystanders, Shown

\* So does a delete, of an entry or of rows alone.
LEMMA DropKeeps ==
  ASSUME NoTwinNames, TypeInv, NEW p \in Paths,
         (\E u \in Slots : DeleteToTrash(u, p)) \/ DeleteRows(p)
  PROVE  Bystanders
<1>1. p \in Places /\ Len(p) >= 1 /\ Len(p) \in Nat
  BY PathFacts, PlaceFacts
<1>2. \A q \in DOMAIN tree : q \in DOMAIN tree' => ~Within(p, q)
  <2>1. CASE \E u \in Slots : DeleteToTrash(u, p)
    <3>1. tree' = Restrict(tree, {q \in DOMAIN tree : ~Within(p, q)})
      BY <2>1 DEF DeleteToTrash
    <3> QED BY <3>1, RestrictFacts
  <2>2. CASE DeleteRows(p)
    <3>1. p \notin DOMAIN tree
      BY <2>2 DEF DeleteRows
    <3> QED BY <1>1, <3>1, AncestorsThere DEF TypeInv, Shaped
  <2> QED BY <2>1, <2>2
<1>3. PICK S : /\ S = {q \in DOMAIN rows : q # p /\ ~LikeBelow(p, Parent(q))}
               /\ rows' = Restrict(rows, S)
  BY DEF DeleteToTrash, DeleteRows, DroppedRows
<1>4. DOMAIN rows' = S /\ \A q \in S : rows'[q] = rows[q]
  BY <1>3, RestrictFacts
<1>5. \A q \in DOMAIN rows : ~Within(p, q) => q \in S
  BY <1>1, <1>3, LikeIsWithin, WithinSelf, TreePlaces
<1> QED BY <1>2, <1>4, <1>5 DEF Bystanders, Shown

\* What only adds rows keeps those that are there.
LEMMA AddedKeeps ==
  ASSUME TypeInv, NEW g, NEW h,
         rows' = rows \/ rows' = Adding(rows, g) \/ rows' = Adding(Adding(rows, g), h)
  PROVE  Bystanders
<1>1. \A f, k : DOMAIN f \subseteq DOMAIN Adding(f, k) /\ \A p \in DOMAIN f : Adding(f, k)[p] = f[p]
  <2> SUFFICES ASSUME NEW f, NEW k
               PROVE  DOMAIN f \subseteq DOMAIN Adding(f, k) /\ \A p \in DOMAIN f : Adding(f, k)[p] = f[p]
    OBVIOUS
  <2>1. /\ DOMAIN Adding(f, k) = DOMAIN f \cup DOMAIN k
        /\ \A p \in DOMAIN f : Adding(f, k)[p] = f[p]
    BY AddingFacts
  <2> QED BY <2>1
<1>2. DOMAIN rows \subseteq DOMAIN rows' /\ \A p \in DOMAIN rows : rows'[p] = rows[p]
  <2>1. CASE rows' = rows
    BY <2>1
  <2>2. CASE rows' = Adding(rows, g)
    BY <2>2, <1>1
  <2>3. CASE rows' = Adding(Adding(rows, g), h)
    <3>1. PICK k : k = Adding(rows, g)
      OBVIOUS
    <3>2. DOMAIN rows \subseteq DOMAIN k /\ \A p \in DOMAIN rows : k[p] = rows[p]
      BY <3>1, <1>1
    <3>3. DOMAIN k \subseteq DOMAIN rows' /\ \A p \in DOMAIN k : rows'[p] = k[p]
      BY <3>1, <2>3, <1>1
    <3> QED BY <3>2, <3>3
  <2> QED BY <2>1, <2>2, <2>3
<1> QED BY <1>2 DEF Bystanders, Shown

\* Everything else but a listing only adds rows.
LEMMA AddsRows ==
  ASSUME \/ \E p \in Paths : DavMkcol(p) \/ CreateFolder(p) \/ Upload(p) \/ DavPut(p)
         \/ \E src \in Places, p \in Paths : DavCopy(src, p)
         \/ \E u \in Slots : Restore(u)
  PROVE  \E g, h : rows' = rows \/ rows' = Adding(rows, g) \/ rows' = Adding(Adding(rows, g), h)
<1>1. ASSUME NEW p \in Paths, DavMkcol(p) \/ CreateFolder(p)
      PROVE  \E g : rows' = Adding(rows, g)
  BY <1>1 DEF DavMkcol, CreateFolder
<1>2. ASSUME NEW p \in Paths, Upload(p)
      PROVE  \E g, h : rows' = Adding(rows, g) \/ rows' = Adding(Adding(rows, g), h)
  BY <1>2 DEF Upload
<1>3. ASSUME NEW p \in Paths, DavPut(p)
      PROVE  \E g, h : rows' = Adding(rows, g) \/ rows' = Adding(Adding(rows, g), h)
  BY <1>3 DEF DavPut
<1>4. ASSUME NEW src \in Places, NEW p \in Paths, DavCopy(src, p)
      PROVE  \E g : rows' = rows \/ rows' = Adding(rows, g)
  BY <1>4 DEF DavCopy
<1>5. ASSUME NEW u \in Slots, Restore(u)
      PROVE  \E g : rows' = rows \/ rows' = Adding(rows, g)
  BY <1>5 DEF Restore, RestoredRows
<1> QED BY <1>1, <1>2, <1>3, <1>4, <1>5

\* A listing deletes rows that do not agree with the disk.
LEMMA ListFilesKeeps ==
  ASSUME NEW dir, ListFiles(dir)
  PROVE  Bystanders
<1>1. PICK gone : /\ gone = {q \in DOMAIN rows : /\ Parent(q) = dir
                                                 /\ q \notin DOMAIN tree \/ tree[q] # rows[q]}
                  /\ rows' = Restrict(rows, DOMAIN rows \ gone)
  BY DEF ListFiles
<1>2. DOMAIN rows' = DOMAIN rows \ gone /\ \A q \in DOMAIN rows \ gone : rows'[q] = rows[q]
  BY <1>1, RestrictFacts
<1> QED BY <1>1, <1>2 DEF Bystanders, Shown

\* BystandersKeepRows: no operation on one directory touches the rows of what stays in
\* place elsewhere, where no two names differ only in case.  (the LIKE patterns of
\* update_child_paths and db_delete_file_rows_tx, the DELETE of a listing)
THEOREM BystandersKeep ==
  ASSUME NoTwinNames
  PROVE  Spec => BystandersKeepRows
<1>1. ASSUME TypeInv, [Next]_vars
      PROVE  [Bystanders]_vars
  <2> SUFFICES ASSUME Next PROVE Bystanders
    BY <1>1
  <2>1. CASE Moves
    BY <1>1, <2>1, TreePlaces, RelocateKeeps, MoveBatchKeeps DEF Moves
  <2>2. CASE \E p \in Paths : \/ DeleteRows(p)
                              \/ \E u \in Slots : DeleteToTrash(u, p)
    BY <1>1, <2>2, DropKeeps
  <2>3. CASE \/ \E p \in Paths : DavMkcol(p) \/ CreateFolder(p) \/ Upload(p) \/ DavPut(p)
             \/ \E src \in Places, p \in Paths : DavCopy(src, p)
             \/ \E u \in Slots : Restore(u)
    BY <1>1, <2>3, AddsRows, AddedKeeps
  <2>4. CASE \E dir \in Places : ListFiles(dir)
    BY <2>4, ListFilesKeeps
  <2>5. \A p \in DOMAIN tree : p \in Paths
    BY <1>1 DEF TypeInv
  <2> QED BY <1>1, <2>1, <2>2, <2>3, <2>4, <2>5, NextCases DEF Changes
<1> QED BY <1>1, TypeStart, TypeStep, PTL DEF Spec, BystandersKeepRows, Bystanders

------------------------------------------------------------------------------
(* The rows of what moves.                                                 *)

\* What lies below dir/x goes to the same place whether dir or dir/x is what moves.
LEMMA RerootBelow ==
  ASSUME NEW dir \in Places, NEW to \in Places, NEW x \in Names, NEW q \in Places,
         Within(Append(dir, x), q)
  PROVE  Reroot(q, Append(dir, x), Append(to, x)) = Reroot(q, dir, to)
<1>1. PICK s, d : s = Append(dir, x) /\ d = Append(to, x)
  OBVIOUS
<1>2. /\ s \in Places /\ Len(s) = Len(dir) + 1 /\ s[Len(dir) + 1] = x
      /\ d \in Places /\ Len(d) = Len(to) + 1 /\ d[Len(to) + 1] = x
      /\ \A k \in 1..Len(to) : d[k] = to[k]
  BY <1>1, AppendFacts
<1>3. Within(dir, s) /\ Within(s, q)
  BY <1>1, SiblingFacts
<1>4. Within(dir, q)
  BY <1>2, <1>3, WithinTrans
<1>5. /\ Len(q) \in Nat /\ Len(dir) \in Nat /\ Len(to) \in Nat /\ Len(q) >= Len(s)
      /\ \A k \in 1..Len(s) : q[k] = s[k]
  BY <1>2, <1>3, PlaceFacts, WithinMeans
<1>6. /\ Reroot(q, s, d) \in Places
      /\ Len(Reroot(q, s, d)) = Len(d) + (Len(q) - Len(s))
      /\ \A k \in 1..Len(d) : Reroot(q, s, d)[k] = d[k]
      /\ \A k \in 1..(Len(q) - Len(s)) : Reroot(q, s, d)[Len(d) + k] = q[Len(s) + k]
  BY <1>2, <1>3, RerootFacts
<1>7. /\ Reroot(q, dir, to) \in Places
      /\ Len(Reroot(q, dir, to)) = Len(to) + (Len(q) - Len(dir))
      /\ \A k \in 1..Len(to) : Reroot(q, dir, to)[k] = to[k]
      /\ \A k \in 1..(Len(q) - Len(dir)) : Reroot(q, dir, to)[Len(to) + k] = q[Len(dir) + k]
  BY <1>4, RerootFacts
<1>8. PICK y, z : y = Reroot(q, s, d) /\ z = Reroot(q, dir, to)
  OBVIOUS
<1>9. Len(y) = Len(to) + (Len(q) - Len(dir)) /\ Len(z) = Len(y) /\ Len(s) = Len(dir) + 1
  <2>1. /\ Len(y) = Len(d) + (Len(q) - Len(s)) /\ Len(z) = Len(to) + (Len(q) - Len(dir))
        /\ Len(s) = Len(dir) + 1 /\ Len(d) = Len(to) + 1
    BY <1>2, <1>6, <1>7, <1>8
  <2>2. Len(q) \in Nat /\ Len(dir) \in Nat /\ Len(to) \in Nat
    BY <1>5
  <2> QED BY <2>1, <2>2
<1>10. ASSUME NEW k \in 1..Len(y) PROVE y[k] = z[k]
  <2>1. CASE k <= Len(to)
    <3>1. k \in 1..Len(to) /\ k \in 1..Len(d)
      BY <1>2, <1>5, <1>9, <2>1
    <3> QED BY <1>2, <1>6, <1>7, <1>8, <3>1
  <2>2. CASE k = Len(to) + 1
    <3>1. /\ k \in 1..Len(d) /\ 1 \in 1..(Len(q) - Len(dir)) /\ Len(dir) + 1 \in 1..Len(s)
      BY <1>2, <1>5, <2>2
    <3>2. y[k] = x /\ z[k] = q[Len(dir) + 1] /\ q[Len(dir) + 1] = x
      BY <1>2, <1>5, <1>6, <1>7, <1>8, <2>2, <3>1
    <3> QED BY <3>2
  <2>3. CASE k > Len(to) + 1
    <3>1. PICK j : j = k - Len(d)
      OBVIOUS
    <3>2. /\ j \in 1..(Len(q) - Len(s)) /\ k = Len(d) + j
          /\ j + 1 \in 1..(Len(q) - Len(dir)) /\ k = Len(to) + (j + 1)
          /\ Len(s) + j = Len(dir) + (j + 1)
      BY <1>2, <1>5, <1>9, <2>3, <3>1
    <3>3. y[k] = q[Len(s) + j] /\ z[k] = q[Len(dir) + (j + 1)]
      BY <1>6, <1>7, <1>8, <3>2
    <3> QED BY <3>2, <3>3
  <2> QED BY <1>5, <1>9, <2>1, <2>2, <2>3
<1>11. y = z
  BY <1>6, <1>7, <1>8, <1>9, <1>10, PlacesEqual
<1> QED BY <1>1, <1>8, <1>11

\* A whole subtree keeps its rows.
SubtreeCarried(src, dst) ==
  \A q \in DOMAIN tree : Within(src, q) /\ Shown(q) => Shown(Reroot(q, src, dst))'

\* A rename or a move carries the rows of its subtree.
LEMMA RelocateCarries ==
  ASSUME NoTwinNames, TypeInv, NEW src \in Places, NEW dst \in Places, Len(dst) >= 1, Relocate(src, dst)
  PROVE  SubtreeCarried(src, dst)
<1>1. /\ Renames(src, dst) /\ tree' = Rekeyed(tree, Moved(src, dst))
      /\ rows' = MoveTx(rows, src, dst).rows
  BY DEF Relocate
<1>2. Len(src) >= 1
  BY <1>1, TreePlaces DEF Renames
<1>3. Apart(src, dst)
  BY <1>1, <1>2, RenamesApart
<1>4. Carried(rows, src, dst, rows')
  BY <1>1, <1>2, <1>3, RowsPlaced, MoveTxCarries
<1>5. MovesSubtree(Moved(src, dst), src, dst)
  BY <1>1, MovedFacts DEF TypeInv, Shaped
<1>6. ASSUME NEW q \in DOMAIN tree, Within(src, q)
      PROVE  Reroot(q, src, dst) \in DOMAIN tree' /\ tree'[Reroot(q, src, dst)] = tree[q]
  <2>1. PICK key : key = Moved(src, dst)
    OBVIOUS
  <2>2. DOMAIN tree' = (DOMAIN tree \ DOMAIN key) \cup Range(key)
    BY <1>1, <2>1, RekeyedFacts
  <2>3. q \in DOMAIN key /\ key[q] = Reroot(q, src, dst) /\ \A a, b \in DOMAIN key : key[a] = key[b] => a = b
    BY <1>5, <1>6, <2>1 DEF MovesSubtree
  <2>4. key[q] \in Range(key) /\ tree'[key[q]] = tree[q]
    BY <1>1, <2>1, <2>3, RekeyedInjective
  <2> QED BY <2>2, <2>3, <2>4
<1> QED BY <1>4, <1>6 DEF Carried, SubtreeCarried, Shown

\* What the two entries of a batch leave and where they go lie apart.
LEMMA BatchApart ==
  ASSUME TypeInv, NEW dir \in Places, NEW to \in Places, NEW m \in Names, NEW n \in Names, m # n,
         Renames(Append(dir, m), Append(to, m)), Renames(Append(dir, n), Append(to, n))
  PROVE  /\ \A q \in Places : Within(Append(dir, m), q) => ~Within(Append(dir, n), q)
         /\ \A q \in Places : Within(Append(to, m), q) =>
              ~Within(Append(dir, n), q) /\ ~Within(Append(to, n), q)
<1>1. PICK s, d, e : s = Append(dir, n) /\ d = Append(to, m) /\ e = Append(to, n)
  OBVIOUS
<1>2. /\ s \in Places /\ Len(s) = Len(dir) + 1 /\ s[Len(dir) + 1] = n
      /\ d \in Places /\ Len(d) = Len(to) + 1 /\ d[Len(to) + 1] = m
      /\ e \in Places /\ Len(dir) \in Nat /\ Len(to) \in Nat
  BY <1>1, AppendFacts, PlaceFacts
<1>3. /\ s \in DOMAIN tree /\ d \notin DOMAIN tree /\ ~Within(s, e)
  BY <1>1 DEF Renames
<1>4. Within(to, d) /\ Within(to, e)
  BY <1>1, SiblingFacts
<1>5. ~Within(s, d)
  <2> SUFFICES ASSUME Within(s, d) PROVE FALSE
    OBVIOUS
  <2>1. Len(d) >= Len(s) /\ \A k \in 1..Len(s) : d[k] = s[k]
    BY <1>2, WithinMeans
  <2>2. CASE Len(s) <= Len(to)
    <3>1. Within(s, to)
      BY <1>2, <1>4, <2>2, WithinBoth
    <3> QED BY <1>2, <1>3, <1>4, <3>1, WithinTrans
  <2>3. CASE Len(s) = Len(to) + 1
    <3>1. Len(to) = Len(dir) /\ Len(dir) + 1 \in 1..Len(s)
      BY <1>2, <2>3
    <3>2. d[Len(dir) + 1] = n
      BY <1>2, <2>1, <3>1
    <3> QED BY <1>2, <3>1, <3>2
  <2> QED BY <1>2, <2>1, <2>2, <2>3
<1>6. ~Within(d, s)
  <2>1. Len(d) >= 1
    BY <1>2
  <2> QED BY <1>2, <1>3, <2>1, AncestorsThere DEF TypeInv, Shaped
<1>7. \A q \in Places : Within(d, q) => ~Within(s, q)
  BY <1>2, <1>5, <1>6, ApartFacts DEF Apart
<1> QED BY <1>1, <1>7, SiblingFacts

\* A batch carries those of both of its entries.
LEMMA MoveBatchCarries ==
  ASSUME NoTwinNames, TypeInv, NEW dir \in Places, NEW to \in Places, NEW m \in Names, NEW n \in Names,
         MoveBatch(dir, m, n, to)
  PROVE  \A x \in {m, n} : \A q \in DOMAIN tree :
           Within(Append(dir, x), q) /\ Shown(q) => Shown(Reroot(q, dir, to))'
<1>1. PICK s1, s2, d1, d2 : /\ s1 = Append(dir, m) /\ s2 = Append(dir, n)
                            /\ d1 = Append(to, m) /\ d2 = Append(to, n)
  OBVIOUS
<1>2. /\ m # n /\ Renames(s1, d1) /\ Renames(s2, d2)
      /\ rows' = MoveTx(MoveTx(rows, s1, d1).rows, s2, d2).rows
      /\ tree' = Rekeyed(tree, Adding(Moved(s1, d1), Moved(s2, d2)))
  BY <1>1 DEF MoveBatch
<1>3. \A p \in {s1, s2, d1, d2} : p \in Places /\ Len(p) >= 1
  <2>1. \A d \in Places, x \in Names : /\ Append(d, x) \in Places /\ Len(Append(d, x)) = Len(d) + 1
                                       /\ Len(d) \in Nat
    BY AppendFacts, PlaceFacts
  <2>2. \A d \in Places, x \in Names : Append(d, x) \in Places /\ Len(Append(d, x)) >= 1
    BY <2>1
  <2> QED BY <1>1, <2>2
<1>4. /\ Apart(s1, d1) /\ Apart(s2, d2)
      /\ \A q \in DOMAIN tree : ~Within(d1, q) /\ ~Within(d2, q)
  BY <1>2, <1>3, RenamesApart
<1>5. PICK mid : Carried(rows, s1, d1, mid) /\ Carried(mid, s2, d2, rows')
  BY <1>1, BatchRows
<1>6. /\ \A q \in Places : Within(s1, q) => ~Within(s2, q)
      /\ \A q \in Places : Within(d1, q) => ~Within(s2, q) /\ ~Within(d2, q)
  BY <1>1, <1>2, BatchApart
<1>7. ASSUME NEW q \in DOMAIN rows, q \in DOMAIN tree, Within(s1, q)
      PROVE  Reroot(q, s1, d1) \in DOMAIN rows' /\ rows'[Reroot(q, s1, d1)] = rows[q]
  <2>1. q \in Places
    BY TreePlaces
  <2>2. Reroot(q, s1, d1) \in DOMAIN mid /\ mid[Reroot(q, s1, d1)] = rows[q]
    BY <1>5, <1>7 DEF Carried
  <2>3. Reroot(q, s1, d1) \in Places /\ Within(d1, Reroot(q, s1, d1))
    BY <1>3, <1>7, <2>1, RerootFacts, RerootWithin
  <2> QED BY <1>5, <1>6, <2>2, <2>3 DEF Carried
<1>8. ASSUME NEW q \in DOMAIN rows, q \in DOMAIN tree, Within(s2, q)
       PROVE  Reroot(q, s2, d2) \in DOMAIN rows' /\ rows'[Reroot(q, s2, d2)] = rows[q]
  <2>1. q \in Places
    BY TreePlaces
  <2>2. ~Within(s1, q) /\ ~Within(d1, q)
    BY <1>4, <1>6, <1>8, <2>1
  <2>3. q \in DOMAIN mid /\ mid[q] = rows[q]
    BY <1>5, <2>2 DEF Carried
  <2> QED BY <1>5, <1>8, <2>3 DEF Carried
<1>9. ASSUME NEW x \in {m, n}, NEW q \in DOMAIN tree, Within(Append(dir, x), q)
       PROVE  /\ Reroot(q, Append(dir, x), Append(to, x)) \in DOMAIN tree'
              /\ tree'[Reroot(q, Append(dir, x), Append(to, x))] = tree[q]
  <2>1. PICK key : key = Adding(Moved(s1, d1), Moved(s2, d2))
    OBVIOUS
  <2>2. MovesTwo(key, dir, to, m, n)
    BY <1>1, <1>2, <2>1, BatchKeys
  <2>3. DOMAIN tree' = (DOMAIN tree \ DOMAIN key) \cup Range(key)
    BY <1>2, <2>1, RekeyedFacts
  <2>4. /\ q \in DOMAIN key /\ key[q] = Reroot(q, Append(dir, x), Append(to, x))
        /\ \A a, b \in DOMAIN key : key[a] = key[b] => a = b
    BY <1>9, <2>2 DEF MovesTwo
  <2>5. key[q] \in Range(key) /\ tree'[key[q]] = tree[q]
    BY <1>2, <2>1, <2>4, RekeyedInjective
  <2> QED BY <2>3, <2>4, <2>5
<1>10. ASSUME NEW x \in {m, n}, NEW q \in DOMAIN tree, Within(Append(dir, x), q), Shown(q)
       PROVE  Shown(Reroot(q, dir, to))'
  <2>1. q \in Places /\ x \in Names
    BY TreePlaces
  <2>2. Reroot(q, Append(dir, x), Append(to, x)) = Reroot(q, dir, to)
    BY <1>10, <2>1, RerootBelow
  <2>3. q \in DOMAIN rows /\ rows[q] = tree[q]
    BY <1>10 DEF Shown
  <2>4. /\ Reroot(q, Append(dir, x), Append(to, x)) \in DOMAIN rows'
        /\ rows'[Reroot(q, Append(dir, x), Append(to, x))] = rows[q]
    BY <1>1, <1>7, <1>8, <1>10, <2>3
  <2> QED BY <1>9, <1>10, <2>2, <2>3, <2>4 DEF Shown
<1> QED BY <1>10

\* MoveCarriesRows: a directory that is renamed or moved takes the rows of its subtree
\* along at any depth: the UPDATEs of update_child_paths find each row once, and none of
\* them moves what an earlier one has moved.  (db/queries.rs, file_ops/core.rs)
THEOREM MovesCarry ==
  ASSUME NoTwinNames
  PROVE  Spec => MoveCarriesRows
<1>1. ASSUME TypeInv, [Next]_vars
      PROVE  [\A src \in DOMAIN tree \ DOMAIN tree', dst \in DOMAIN tree' \ DOMAIN tree :
                Relocate(src, dst) => SubtreeCarried(src, dst)]_vars
  <2> SUFFICES ASSUME Next, NEW src \in DOMAIN tree, NEW dst \in DOMAIN tree', Relocate(src, dst)
               PROVE  SubtreeCarried(src, dst)
    BY <1>1
  <2>1. dst \in Paths /\ src \in Places
    BY <1>1, NextCases, TreePlaces DEF Bounded
  <2>2. dst \in Places /\ Len(dst) >= 1
    BY <2>1, PathFacts
  <2> QED BY <1>1, <2>1, <2>2, RelocateCarries
<1> QED BY <1>1, TypeStart, TypeStep, PTL DEF Spec, MoveCarriesRows, SubtreeCarried

\* BatchCarriesRows: the entries of a batch each take the rows of their subtrees along;
\* the rows that one of them moves are not taken for rows of the other.  (move_batch)
THEOREM BatchCarries ==
  ASSUME NoTwinNames
  PROVE  Spec => BatchCarriesRows
<1>1. ASSUME TypeInv, [Next]_vars
      PROVE  [\A dir \in {Parent(p) : p \in DOMAIN tree \ DOMAIN tree'},
                 to \in {Parent(p) : p \in DOMAIN tree' \ DOMAIN tree},
                 m, n \in Names : MoveBatch(dir, m, n, to) =>
                \A x \in {m, n} : \A q \in DOMAIN tree :
                  Within(Append(dir, x), q) /\ Shown(q) => Shown(Reroot(q, dir, to))']_vars
  <2> SUFFICES ASSUME Next, NEW dir \in {Parent(p) : p \in DOMAIN tree},
                      NEW to \in {Parent(p) : p \in DOMAIN tree'},
                      NEW m \in Names, NEW n \in Names, MoveBatch(dir, m, n, to)
               PROVE  \A x \in {m, n} : \A q \in DOMAIN tree :
                        Within(Append(dir, x), q) /\ Shown(q) => Shown(Reroot(q, dir, to))'
    BY <1>1
  <2>1. \A p \in DOMAIN tree : p \in Places /\ Len(p) >= 1
    BY <1>1, TreePlaces
  <2>2. \A p \in DOMAIN tree' : p \in Places /\ Len(p) >= 1
    BY <1>1, NextCases, PathFacts DEF Bounded
  <2>3. dir \in Places /\ to \in Places
    BY <2>1, <2>2, ParentFacts
  <2> QED BY <1>1, <2>3, MoveBatchCarries
<1> QED BY <1>1, TypeStart, TypeStep, PTL DEF Spec, BatchCarriesRows
==============================================================================
