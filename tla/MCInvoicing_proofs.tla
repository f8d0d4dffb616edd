------------------------- MODULE MCInvoicing_proofs -------------------------
(***************************************************************************)
(* Proofs about the invoices of Stripe and of the database (Invoicing), as *)
(* MCBilling instantiates them, for any number of sessions, days, runs and *)
(* faults, and for pages of any length.                                    *)
(***************************************************************************)
EXTENDS MCBilling, Integers, FiniteSetTheorems, WellFoundedInduction, TLAPS

-----------------------------------------------------------------------------
(* The pages of a list that is sorted by R, while members of it leave and  *)
(* others join.                                                            *)

IsOrder(R, L) ==
  /\ \A i \in L : <<i, i>> \notin R
  /\ \A i, j, k \in L : <<i, j>> \in R /\ <<j, k>> \in R => <<i, k>> \in R
  /\ \A i, j \in L : i = j \/ <<i, j>> \in R \/ <<j, i>> \in R

\* The members of a list before one of it, and those after.
Below(R, L, i) == {j \in L : <<j, i>> \in R}
Above(R, L, i) == {j \in L : <<i, j>> \in R}

\* done: members that were taken and are still listed; left: the rest of the
\* page; at: the position after the page once what left the list is deducted.
InPlace(R, list, scope, done, left, at) ==
  /\ \A d \in done, j \in list : <<j, d>> \in R => j \in done
  /\ \A f \in left, j \in list \cap scope : <<j, f>> \in R => j \in done \cup left
  /\ \/ at = Cardinality(done) + Cardinality(left)
     \/ at > Cardinality(done) + Cardinality(left) /\ list = done \cup left

\* A member that joined before that position is not reached any more.
Overrun(R, list, scope, left, at) ==
  \E j \in list \ scope :
    /\ j \notin left
    /\ at > Cardinality(Below(R, list, j)) + Cardinality(Above(R, left, j))

\* The part of a list from a position on.
Part(R, list, at, size) ==
  {i \in list : Cardinality(Below(R, list, i)) \in at .. at + size - 1}

\* Sets of a finite list are finite.
LEMMA PartsFinite ==
  ASSUME NEW L, IsFiniteSet(L)
  PROVE  \A U \in SUBSET L : IsFiniteSet(U) /\ Cardinality(U) \in Nat
  BY FS_Subset, FS_CardinalityType

\* Sets that have nothing in common.
LEMMA Disjoint ==
  ASSUME NEW L, IsFiniteSet(L), NEW LL, IsFiniteSet(LL), L \cap LL = {}
  PROVE  IsFiniteSet(L \cup LL) /\ Cardinality(L \cup LL) = Cardinality(L) + Cardinality(LL)
<1>1. Cardinality(L \cap LL) = 0
  BY FS_EmptySet
<1>2. /\ IsFiniteSet(L \cup LL)
      /\ Cardinality(L \cup LL) = Cardinality(L) + Cardinality(LL) - Cardinality(L \cap LL)
  BY FS_Union
<1>3. Cardinality(L) \in Nat /\ Cardinality(LL) \in Nat
  BY FS_CardinalityType
<1> QED BY <1>1, <1>2, <1>3

\* The position of a member comes after those of the members before it.
LEMMA Positions ==
  ASSUME NEW L, IsFiniteSet(L), NEW R, IsOrder(R, L)
  PROVE  /\ \A i \in L : Cardinality(Below(R, L, i)) \in 0 .. Cardinality(L) - 1
         /\ \A i, j \in L : <<i, j>> \in R => Cardinality(Below(R, L, i)) < Cardinality(Below(R, L, j))
<1>1. ASSUME NEW i \in L PROVE Cardinality(Below(R, L, i)) \in 0 .. Cardinality(L) - 1
  <2>1. Below(R, L, i) \subseteq L \ {i}
    BY <1>1 DEF Below, IsOrder
  <2>2. IsFiniteSet(L \ {i}) /\ Cardinality(L \ {i}) = Cardinality(L) - 1
    BY <1>1, FS_RemoveElement
  <2>3. Cardinality(Below(R, L, i)) <= Cardinality(L) - 1 /\ IsFiniteSet(Below(R, L, i))
    BY <2>1, <2>2, FS_Subset
  <2> QED BY <2>3, FS_CardinalityType
<1>2. ASSUME NEW i \in L, NEW j \in L, <<i, j>> \in R
      PROVE  Cardinality(Below(R, L, i)) < Cardinality(Below(R, L, j))
  <2>1. Below(R, L, i) \subseteq Below(R, L, j) /\ i \in Below(R, L, j) /\ i \notin Below(R, L, i)
    BY <1>2 DEF Below, IsOrder
  <2>2. IsFiniteSet(Below(R, L, j)) /\ Cardinality(Below(R, L, j)) \in Nat
        /\ Cardinality(Below(R, L, i)) \in Nat
    BY PartsFinite DEF Below
  <2>3. Cardinality(Below(R, L, i)) <= Cardinality(Below(R, L, j))
        /\ (Cardinality(Below(R, L, j)) = Cardinality(Below(R, L, i)) => Below(R, L, j) = Below(R, L, i))
    BY <2>1, <2>2, FS_Subset
  <2> QED BY <2>1, <2>2, <2>3
<1> QED BY <1>1, <1>2

\* Of some members there is a first one.
LEMMA First ==
  ASSUME NEW L, IsFiniteSet(L), NEW R, IsOrder(R, L), NEW U \in SUBSET L, U # {}
  PROVE  \E i \in U : \A j \in U : <<j, i>> \notin R
<1> DEFINE at(i) == Cardinality(Below(R, L, i))
           Ats == {at(i) : i \in U}
           Less == OpToRel(<, Nat)
<1>1. \A i \in L : at(i) \in Nat
  BY PartsFinite DEF Below
<1>2. Ats \subseteq Nat /\ Ats # {}
  BY <1>1
<1>3. IsWellFoundedOn(Less, Nat)
  BY NatLessThanWellFounded
<1>4. PICK n \in Ats : \A m \in Ats : <<m, n>> \notin Less
  <2> HIDE DEF Ats, Less
  <2> QED BY <1>2, <1>3, WFMin
<1>5. \A m \in Ats : ~(m < n)
  <2> SUFFICES ASSUME NEW m \in Ats, m < n PROVE FALSE
    OBVIOUS
  <2>1. m \in Nat /\ n \in Nat
    BY <1>2
  <2>2. <<m, n>> \in Less
    BY <2>1 DEF OpToRel
  <2> QED BY <1>4, <2>2
<1>6. PICK i \in U : n = at(i)
  OBVIOUS
<1>7. \A j \in U : ~(at(j) < at(i))
  BY <1>5, <1>6
<1>8. \A j \in U : <<j, i>> \in R => at(j) < at(i)
  BY Positions
<1> QED BY <1>7, <1>8

\* As many members are on a part of the list as it has room for, unless the list ends.
LEMMA PartSize ==
  ASSUME NEW L, IsFiniteSet(L), NEW R, IsOrder(R, L), NEW at \in Nat, NEW size \in Nat \ {0}
  PROVE  /\ Cardinality(Part(R, L, at, size)) \in 0 .. size
         /\ at + size <= Cardinality(L) => Cardinality(Part(R, L, at, size)) = size
         /\ Part(R, L, at, size) = {} => Cardinality(L) <= at
<1> DEFINE n == Cardinality(L)
           f == [i \in L |-> Cardinality(Below(R, L, i))]
           P == Part(R, L, at, size)
           g == [i \in P |-> f[i]]
           last == IF at + size <= n THEN at + size - 1 ELSE n - 1
<1>1. n \in Nat
  BY FS_CardinalityType
<1>2. IsFiniteSet(0 .. n - 1) /\ Cardinality(0 .. n - 1) = n
  BY <1>1, FS_Interval
<1>3. f \in Injection(L, 0 .. n - 1)
  <2>1. f \in [L -> 0 .. n - 1]
    BY Positions
  <2>2. ASSUME NEW i \in L, NEW j \in L, f[i] = f[j] PROVE i = j
    <3>1. <<i, j>> \in R => f[i] < f[j]
      BY Positions
    <3>2. <<j, i>> \in R => f[j] < f[i]
      BY Positions
    <3>3. f[i] \in 0 .. n - 1
      BY <2>1
    <3> QED BY <1>1, <2>2, <3>1, <3>2, <3>3 DEF IsOrder
  <2> HIDE DEF f
  <2> QED BY <2>1, <2>2 DEF Injection, IsInjective
<1>4. f \in Surjection(L, 0 .. n - 1)
  <2> HIDE DEF f, n
  <2>1. n = Cardinality(L)
    BY DEF n
  <2> QED BY <1>2, <1>3, <2>1, FS_Injection
<1>5. P \subseteq L /\ IsFiniteSet(P) /\ Cardinality(P) \in Nat
  BY PartsFinite DEF Part
<1>6. g \in Injection(P, at .. last) /\ g \in Surjection(P, at .. last)
  <2>1. \A i \in P : f[i] \in at .. at + size - 1 /\ f[i] \in 0 .. n - 1
    BY <1>3 DEF Part, Injection
  <2>2. g \in [P -> at .. last]
    BY <1>1, <2>1
  <2>3. \A i, j \in P : g[i] = g[j] => i = j
    BY <1>3, <1>5 DEF Injection, IsInjective
  <2>4. ASSUME NEW k \in at .. last PROVE \E i \in P : g[i] = k
    <3>1. k \in 0 .. n - 1 /\ k \in at .. at + size - 1
      BY <1>1
    <3>2. PICK i \in L : f[i] = k
      BY <1>4, <3>1 DEF Surjection
    <3>3. i \in P
      BY <3>1, <3>2 DEF Part
    <3> QED BY <3>2, <3>3
  <2> HIDE DEF g
  <2> QED BY <2>2, <2>3, <2>4 DEF Injection, Surjection, IsInjective
<1>7. last \in Int /\ IsFiniteSet(at .. last)
      /\ Cardinality(at .. last) = IF at > last THEN 0 ELSE last - at + 1
  <2>1. last \in Int
    BY <1>1
  <2> HIDE DEF last
  <2> QED BY <2>1, FS_Interval
<1>8. Cardinality(P) = Cardinality(at .. last)
  <2> HIDE DEF g, P, last
  <2> QED BY <1>6, <1>7, FS_Injection
<1>9. P = {} => Cardinality(P) = 0
  BY FS_EmptySet
<1> QED BY <1>1, <1>5, <1>7, <1>8, <1>9

\* One of the page is done and stays on the list.
LEMMA OneStays ==
  ASSUME NEW L, IsFiniteSet(L), NEW R, IsOrder(R, L), NEW scope, NEW done \in SUBSET L,
         NEW left \in SUBSET L, NEW at \in Int, NEW e \in left, e \notin done,
         \A j \in left : <<j, e>> \notin R
  PROVE  /\ InPlace(R, L, scope, done, left, at) =>
              \/ InPlace(R, L, scope, done \cup {e}, left \ {e}, at)
              \/ Overrun(R, L, scope, left \ {e}, at)
         /\ Overrun(R, L, scope, left, at) => Overrun(R, L, scope, left \ {e}, at)
<1> DEFINE late == {j \in L : <<j, e>> \in R /\ j \notin done \cup {e}}
<1>1. /\ IsFiniteSet(done) /\ IsFiniteSet(left) /\ IsFiniteSet(left \ {e})
      /\ Cardinality(done) \in Nat /\ Cardinality(left) \in Nat
      /\ Cardinality(done \cup {e}) = Cardinality(done) + 1
      /\ Cardinality(left \ {e}) = Cardinality(left) - 1
  BY PartsFinite, FS_AddElement, FS_RemoveElement
<1>2. ASSUME InPlace(R, L, scope, done, left, at), late = {}
      PROVE  InPlace(R, L, scope, done \cup {e}, left \ {e}, at)
  <2>1. \A d \in done \cup {e}, j \in L : <<j, d>> \in R => j \in done \cup {e}
    BY <1>2 DEF InPlace
  <2>2. \A f \in left \ {e}, j \in L \cap scope :
          <<j, f>> \in R => j \in (done \cup {e}) \cup (left \ {e})
    BY <1>2 DEF InPlace
  <2>3. (done \cup {e}) \cup (left \ {e}) = done \cup left
    OBVIOUS
  <2> QED BY <1>1, <1>2, <2>1, <2>2, <2>3 DEF InPlace
<1>3. ASSUME InPlace(R, L, scope, done, left, at), late # {}
      PROVE  Overrun(R, L, scope, left \ {e}, at)
  <2>1. PICK j \in late : \A k \in late : <<k, j>> \notin R
    BY <1>3, First
  <2>2. j \notin left /\ j \in L \ scope /\ L # done \cup left
    BY <1>3, <2>1 DEF InPlace
  <2>3. Below(R, L, j) \subseteq done
    <3> SUFFICES ASSUME NEW k \in L, <<k, j>> \in R PROVE k \in done
      BY DEF Below
    <3>1. <<k, e>> \in R
      BY <2>1 DEF IsOrder
    <3>2. k # e
      BY <3>1 DEF IsOrder
    <3> QED BY <2>1, <3>1, <3>2
  <2>4. Cardinality(Below(R, L, j)) <= Cardinality(done) /\ Cardinality(Below(R, L, j)) \in Nat
    BY <1>1, <2>3, FS_Subset, FS_CardinalityType
  <2>5. Above(R, left \ {e}, j) \subseteq left \ {e}
    BY DEF Above
  <2>6. /\ Cardinality(Above(R, left \ {e}, j)) <= Cardinality(left) - 1
        /\ Cardinality(Above(R, left \ {e}, j)) \in Nat
    <3> DEFINE a == Above(R, left \ {e}, j)
               rest == left \ {e}
    <3>1. a \in SUBSET rest /\ IsFiniteSet(rest) /\ Cardinality(rest) = Cardinality(left) - 1
      BY <1>1, <2>5
    <3> HIDE DEF a, rest
    <3>2. Cardinality(a) <= Cardinality(left) - 1 /\ Cardinality(a) \in Nat
      BY <3>1, FS_Subset, FS_CardinalityType
    <3> QED BY <3>2 DEF a, rest
  <2>7. at = Cardinality(done) + Cardinality(left)
    BY <1>3, <2>2 DEF InPlace
  <2>8. at > Cardinality(Below(R, L, j)) + Cardinality(Above(R, left \ {e}, j))
    BY <1>1, <2>4, <2>6, <2>7
  <2> QED BY <2>2, <2>8 DEF Overrun
<1>4. ASSUME Overrun(R, L, scope, left, at) PROVE Overrun(R, L, scope, left \ {e}, at)
  <2>1. PICK j \in L \ scope :
          /\ j \notin left
          /\ at > Cardinality(Below(R, L, j)) + Cardinality(Above(R, left, j))
    BY <1>4 DEF Overrun
  <2>2. Above(R, left \ {e}, j) \subseteq Above(R, left, j) /\ Above(R, left, j) \subseteq left
    BY DEF Above
  <2>3. IsFiniteSet(Above(R, left, j)) /\ Cardinality(Above(R, left, j)) \in Nat
    BY <1>1, <2>2, FS_Subset, FS_CardinalityType
  <2>4. /\ Cardinality(Above(R, left \ {e}, j)) <= Cardinality(Above(R, left, j))
        /\ Cardinality(Above(R, left \ {e}, j)) \in Nat
    BY <2>2, <2>3, FS_Subset, FS_CardinalityType
  <2>5. Cardinality(Below(R, L, j)) \in Nat
    BY PartsFinite DEF Below
  <2>6. at > Cardinality(Below(R, L, j)) + Cardinality(Above(R, left \ {e}, j))
    BY <2>1, <2>3, <2>4, <2>5
  <2> QED BY <2>1, <2>6 DEF Overrun
<1> QED BY <1>2, <1>3, <1>4

\* One of the page is done and leaves the list: the position goes back by one.
LEMMA OneLeaves ==
  ASSUME NEW L, IsFiniteSet(L), NEW R, IsOrder(R, L), NEW scope, NEW done \in SUBSET L,
         NEW left \in SUBSET L, NEW at \in Int, NEW e \in left, e \notin done
  PROVE  /\ InPlace(R, L, scope, done, left, at) =>
              InPlace(R, L \ {e}, scope, done, left \ {e}, at - 1)
         /\ Overrun(R, L, scope, left, at) => Overrun(R, L \ {e}, scope, left \ {e}, at - 1)
<1>1. /\ IsFiniteSet(done) /\ IsFiniteSet(left) /\ IsFiniteSet(left \ {e})
      /\ Cardinality(done) \in Nat /\ Cardinality(left) \in Nat
      /\ Cardinality(left \ {e}) = Cardinality(left) - 1
  BY PartsFinite, FS_RemoveElement
<1>2. ASSUME InPlace(R, L, scope, done, left, at)
      PROVE  InPlace(R, L \ {e}, scope, done, left \ {e}, at - 1)
  <2>1. \A d \in done, j \in L \ {e} : <<j, d>> \in R => j \in done
    BY <1>2 DEF InPlace
  <2>2. \A f \in left \ {e}, j \in (L \ {e}) \cap scope : <<j, f>> \in R => j \in done \cup (left \ {e})
    BY <1>2 DEF InPlace
  <2>3. L = done \cup left => L \ {e} = done \cup (left \ {e})
    OBVIOUS
  <2>4. \/ at = Cardinality(done) + Cardinality(left)
        \/ at > Cardinality(done) + Cardinality(left) /\ L = done \cup left
    BY <1>2 DEF InPlace
  <2>5. \/ at - 1 = Cardinality(done) + Cardinality(left \ {e})
        \/ at - 1 > Cardinality(done) + Cardinality(left \ {e}) /\ L \ {e} = done \cup (left \ {e})
    BY <1>1, <2>3, <2>4
  <2> QED BY <2>1, <2>2, <2>5 DEF InPlace
<1>3. ASSUME Overrun(R, L, scope, left, at) PROVE Overrun(R, L \ {e}, scope, left \ {e}, at - 1)
  <2>1. PICK j \in L \ scope :
          /\ j \notin left
          /\ at > Cardinality(Below(R, L, j)) + Cardinality(Above(R, left, j))
    BY <1>3 DEF Overrun
  <2> DEFINE b == Below(R, L, j)
             a == Above(R, left, j)
  <2>2. Below(R, L \ {e}, j) = b \ {e} /\ Above(R, left \ {e}, j) = a \ {e}
    BY DEF Below, Above
  <2>3. IsFiniteSet(b) /\ Cardinality(b) \in Nat /\ IsFiniteSet(a) /\ Cardinality(a) \in Nat
    BY PartsFinite DEF Below, Above
  <2>4. (e \in b /\ e \notin a) \/ (e \notin b /\ e \in a)
    BY <2>1 DEF Below, Above, IsOrder
  <2>5. /\ Cardinality(b \ {e}) = IF e \in b THEN Cardinality(b) - 1 ELSE Cardinality(b)
        /\ Cardinality(a \ {e}) = IF e \in a THEN Cardinality(a) - 1 ELSE Cardinality(a)
    BY <2>3, FS_RemoveElement
  <2>6. at - 1 > Cardinality(Below(R, L \ {e}, j)) + Cardinality(Above(R, left \ {e}, j))
    <3>1. at > Cardinality(b) + Cardinality(a)
      BY <2>1
    <3> HIDE DEF a, b
    <3>2. Cardinality(b \ {e}) + Cardinality(a \ {e}) = Cardinality(b) + Cardinality(a) - 1
      BY <2>3, <2>4, <2>5
    <3>3. at - 1 > Cardinality(b \ {e}) + Cardinality(a \ {e})
      BY <2>3, <3>1, <3>2
    <3> QED BY <2>2, <3>3
  <2> QED BY <2>1, <2>6 DEF Overrun
<1> QED BY <1>2, <1>3

\* One that was not on the list joins.
LEMMA OneJoins ==
  ASSUME NEW L, IsFiniteSet(L), NEW e, e \notin L, NEW R, IsOrder(R, L \cup {e}),
         NEW scope, e \notin scope, NEW done \in SUBSET L,
         NEW left \in SUBSET L, done \cap left = {}, NEW at \in Int
  PROVE  /\ InPlace(R, L, scope, done, left, at) =>
              \/ InPlace(R, L \cup {e}, scope, done, left, at)
              \/ Overrun(R, L \cup {e}, scope, left, at)
         /\ Overrun(R, L, scope, left, at) => Overrun(R, L \cup {e}, scope, left, at)
<1> DEFINE LL == L \cup {e}
           b == Below(R, LL, e)
           a == Above(R, left, e)
<1>1. /\ IsFiniteSet(LL) /\ IsFiniteSet(done) /\ IsFiniteSet(left)
      /\ Cardinality(done) \in Nat /\ Cardinality(left) \in Nat
  BY PartsFinite, FS_AddElement
<1>2. /\ IsFiniteSet(b) /\ Cardinality(b) \in Nat /\ b \subseteq L
      /\ IsFiniteSet(a) /\ Cardinality(a) \in Nat /\ a \subseteq left
  <2>1. b \subseteq L
    BY DEF Below, IsOrder
  <2>2. a \subseteq left
    BY DEF Above
  <2> HIDE DEF a, b
  <2> QED BY <1>1, <2>1, <2>2, FS_Subset, FS_CardinalityType
<1>3. b \cap a = {}
  BY DEF Below, Above, IsOrder
<1>4. IsFiniteSet(b \cup a) /\ Cardinality(b \cup a) = Cardinality(b) + Cardinality(a)
  <2> HIDE DEF a, b
  <2> QED BY <1>2, <1>3, Disjoint
<1>5. ASSUME Cardinality(b) + Cardinality(a) < at PROVE Overrun(R, LL, scope, left, at)
  <2>1. e \in LL \ scope /\ e \notin left
    OBVIOUS
  <2>2. at > Cardinality(b) + Cardinality(a)
    BY <1>2, <1>5
  <2> QED BY <2>1, <2>2 DEF Overrun
<1>6. ASSUME InPlace(R, L, scope, done, left, at), NEW d \in done, <<e, d>> \in R
      PROVE  Overrun(R, LL, scope, left, at)
  <2>1. b \subseteq done \ {d}
    <3> SUFFICES ASSUME NEW k \in L, <<k, e>> \in R PROVE k \in done /\ k # d
      BY <1>2 DEF Below
    <3>1. <<k, d>> \in R
      BY <1>6 DEF IsOrder
    <3>2. k # d
      BY <3>1 DEF IsOrder
    <3> QED BY <1>6, <3>1, <3>2 DEF InPlace
  <2>2. IsFiniteSet(done \ {d}) /\ Cardinality(done \ {d}) = Cardinality(done) - 1
    BY <1>1, <1>6, FS_RemoveElement
  <2>3. Cardinality(b) <= Cardinality(done) - 1 /\ Cardinality(a) <= Cardinality(left)
    <3> HIDE DEF a, b
    <3>1. Cardinality(b) <= Cardinality(done \ {d})
      BY <2>1, <2>2, FS_Subset
    <3>2. Cardinality(a) <= Cardinality(left)
      BY <1>1, <1>2, FS_Subset
    <3> QED BY <2>2, <3>1, <3>2
  <2>4. at >= Cardinality(done) + Cardinality(left)
    BY <1>1, <1>6 DEF InPlace
  <2>5. Cardinality(b) + Cardinality(a) < at
    <3> HIDE DEF a, b
    <3> QED BY <1>1, <1>2, <2>3, <2>4
  <2> QED BY <1>5, <2>5
<1>7. ASSUME InPlace(R, L, scope, done, left, at), \A d \in done : <<e, d>> \notin R,
             at = Cardinality(done) + Cardinality(left)
      PROVE  InPlace(R, LL, scope, done, left, at)
  BY <1>7 DEF InPlace
<1>8. ASSUME InPlace(R, L, scope, done, left, at), at # Cardinality(done) + Cardinality(left)
      PROVE  Overrun(R, LL, scope, left, at)
  <2>1. at > Cardinality(done) + Cardinality(left) /\ L = done \cup left
    BY <1>8 DEF InPlace
  <2>2. b \cup a \subseteq done \cup left
    BY <1>2, <2>1
  <2>3. IsFiniteSet(done \cup left) /\ Cardinality(done \cup left) = Cardinality(done) + Cardinality(left)
    BY <1>1, Disjoint
  <2>4. Cardinality(b \cup a) <= Cardinality(done \cup left)
    <3> HIDE DEF a, b
    <3> QED BY <2>2, <2>3, FS_Subset
  <2>5. Cardinality(b) + Cardinality(a) < at
    <3> HIDE DEF a, b
    <3> QED BY <1>1, <1>2, <1>4, <2>1, <2>3, <2>4
  <2> QED BY <1>5, <2>5
<1>9. ASSUME Overrun(R, L, scope, left, at) PROVE Overrun(R, LL, scope, left, at)
  <2>1. PICK j \in L \ scope :
          /\ j \notin left
          /\ at > Cardinality(Below(R, L, j)) + Cardinality(Above(R, left, j))
    BY <1>9 DEF Overrun
  <2> DEFINE bj == Below(R, L, j)
             aj == Above(R, left, j)
  <2>2. /\ IsFiniteSet(bj) /\ Cardinality(bj) \in Nat
        /\ IsFiniteSet(aj) /\ Cardinality(aj) \in Nat
    BY PartsFinite DEF Below, Above
  <2>3. CASE <<j, e>> \in R
    <3>1. <<e, j>> \notin R
      BY <2>3 DEF IsOrder
    <3>2. Below(R, LL, j) = bj
      BY <3>1 DEF Below
    <3> QED BY <2>1, <3>2 DEF Overrun
  <2>4. CASE <<e, j>> \in R
    <3>1. b \cup a \subseteq bj \cup aj
      <4>1. ASSUME NEW k \in b PROVE k \in bj
        BY <1>2, <2>4, <4>1 DEF Below, IsOrder
      <4>2. ASSUME NEW k \in a PROVE k \in bj \cup aj
        <5>1. k \in L /\ k # j
          BY <2>1, <4>2, <1>2
        <5> QED BY <4>2, <5>1 DEF Below, Above, IsOrder
      <4> QED BY <4>1, <4>2
    <3>2. bj \cap aj = {}
      BY DEF Below, Above, IsOrder
    <3> HIDE DEF a, b, aj, bj
    <3>4. IsFiniteSet(bj \cup aj) /\ Cardinality(bj \cup aj) = Cardinality(bj) + Cardinality(aj)
      BY <2>2, <3>2, Disjoint
    <3>5. Cardinality(b \cup a) <= Cardinality(bj \cup aj)
      BY <3>1, <3>4, FS_Subset
    <3>6. at > Cardinality(bj) + Cardinality(aj)
      BY <2>1 DEF aj, bj
    <3>7. Cardinality(b) + Cardinality(a) < at
      BY <1>2, <1>4, <2>2, <3>4, <3>5, <3>6
    <3> QED BY <1>5, <3>7 DEF a, b
  <2>5. <<j, e>> \in R \/ <<e, j>> \in R
    BY <2>1 DEF IsOrder
  <2> QED BY <2>3, <2>4, <2>5
<1> QED BY <1>6, <1>7, <1>8, <1>9

\* The next page is taken from the position on.
LEMMA PageRead ==
  ASSUME NEW L, IsFiniteSet(L), NEW R, IsOrder(R, L), NEW scope, NEW done \in SUBSET L,
         NEW at \in Int, NEW size \in Nat \ {0}
  PROVE  LET page == Part(R, L, at, size) IN
         /\ InPlace(R, L, scope, done, {}, at) =>
              /\ page \cap done = {}
              /\ InPlace(R, L, scope, done, page, at + size)
              /\ page = {} => L = done
         /\ Overrun(R, L, scope, {}, at) => Overrun(R, L, scope, page, at + size)
<1> DEFINE page == Part(R, L, at, size)
           pos(i) == Cardinality(Below(R, L, i))
<1>1. /\ IsFiniteSet(done) /\ Cardinality(done) \in Nat /\ Cardinality(L) \in Nat
      /\ Cardinality({}) = 0
      /\ page \subseteq L /\ IsFiniteSet(page) /\ Cardinality(page) \in Nat
  <2>1. page \subseteq L
    BY DEF Part
  <2> HIDE DEF page
  <2> QED BY <2>1, PartsFinite, FS_EmptySet
<1>2. \A i \in L : pos(i) \in 0 .. Cardinality(L) - 1
  BY Positions
<1>3. \A i \in L : i \in page <=> pos(i) >= at /\ pos(i) < at + size
  <2> SUFFICES ASSUME NEW i \in L PROVE i \in page <=> pos(i) >= at /\ pos(i) < at + size
    OBVIOUS
  <2>1. pos(i) \in Int
    BY <1>2
  <2>2. i \in page <=> pos(i) \in at .. at + size - 1
    BY DEF Part
  <2> HIDE DEF pos
  <2> QED BY <2>1, <2>2
<1>4. ASSUME InPlace(R, L, scope, done, {}, at)
      PROVE  /\ page \cap done = {}
             /\ InPlace(R, L, scope, done, page, at + size)
             /\ page = {} => L = done
  <2>1. /\ \A d \in done, j \in L : <<j, d>> \in R => j \in done
        /\ \/ at = Cardinality(done)
           \/ at > Cardinality(done) /\ L = done
    BY <1>1, <1>4 DEF InPlace
  <2>2. at \in Nat /\ Cardinality(done) <= at
    BY <1>1, <2>1
  <2>3. ASSUME NEW d \in done PROVE pos(d) < Cardinality(done)
    <3>1. Below(R, L, d) \subseteq done \ {d}
      BY <2>1, <2>3 DEF Below, IsOrder
    <3>2. IsFiniteSet(done \ {d}) /\ Cardinality(done \ {d}) = Cardinality(done) - 1
      BY <1>1, <2>3, FS_RemoveElement
    <3>3. pos(d) <= Cardinality(done) - 1
      BY <3>1, <3>2, FS_Subset
    <3> QED BY <1>1, <1>2, <3>3
  <2>4. ASSUME NEW i \in L \ done PROVE pos(i) >= Cardinality(done)
    <3>1. done \subseteq Below(R, L, i)
      BY <2>1, <2>4 DEF Below, IsOrder
    <3>2. IsFiniteSet(Below(R, L, i))
      BY PartsFinite DEF Below
    <3> QED BY <3>1, <3>2, FS_Subset
  <2>5. page \cap done = {}
    <3> SUFFICES ASSUME NEW d \in done, d \in page PROVE FALSE
      OBVIOUS
    <3>1. pos(d) < Cardinality(done) /\ pos(d) >= at /\ pos(d) \in Int
      BY <1>2, <1>3, <2>3
    <3> QED BY <1>1, <2>2, <3>1
  <2>6. ASSUME NEW f \in page, NEW j \in L, <<j, f>> \in R PROVE j \in done \cup page
    <3>1. pos(j) < pos(f) /\ pos(f) < at + size /\ pos(f) \in Int /\ pos(j) \in Int
      BY <1>1, <1>2, <1>3, <2>6, Positions
    <3>2. CASE j \in done
      BY <3>2
    <3>3. CASE j \notin done
      <4>1. at = Cardinality(done)
        BY <2>1, <3>3
      <4>2. pos(j) >= at
        BY <2>4, <3>3, <4>1
      <4>3. pos(j) < at + size
        <5> HIDE DEF pos
        <5> QED BY <3>1
      <4> QED BY <1>3, <4>2, <4>3
    <3> QED BY <3>2, <3>3
  <2>7. /\ Cardinality(page) \in 0 .. size
        /\ at + size <= Cardinality(L) => Cardinality(page) = size
        /\ page = {} => Cardinality(L) <= at
    BY <2>2, PartSize
  <2>8. \/ at + size = Cardinality(done) + Cardinality(page)
        \/ at + size > Cardinality(done) + Cardinality(page) /\ L = done \cup page
    <3>1. CASE L = done
      <4>1. page = {}
        BY <1>1, <2>5, <3>1
      <4>2. Cardinality(page) = 0
        BY <4>1, <1>1
      <4>3. at + size > Cardinality(done)
        BY <1>1, <2>2
      <4> QED BY <1>1, <3>1, <4>1, <4>2, <4>3
    <3>2. CASE L # done /\ at + size <= Cardinality(L)
      BY <2>1, <2>7, <3>2
    <3>3. CASE L # done /\ at + size > Cardinality(L)
      <4>1. at = Cardinality(done)
        BY <2>1, <3>3
      <4>2. ASSUME NEW i \in L, i \notin done PROVE i \in page
        <5>1. pos(i) >= at /\ pos(i) < Cardinality(L) /\ pos(i) \in Int
          BY <1>1, <1>2, <2>4, <4>1, <4>2
        <5>2. pos(i) < at + size
          <6> HIDE DEF pos
          <6> QED BY <1>1, <2>2, <3>3, <5>1
        <5> QED BY <1>3, <5>1, <5>2
      <4>3. L = done \cup page
        BY <1>1, <4>2
      <4>4. Cardinality(page) <= size
        BY <2>7
      <4> HIDE DEF page
      <4> QED BY <1>1, <2>2, <4>1, <4>3, <4>4
    <3>4. at + size <= Cardinality(L) \/ at + size > Cardinality(L)
      BY <1>1, <2>2
    <3> QED BY <3>1, <3>2, <3>3, <3>4
  <2>9. InPlace(R, L, scope, done, page, at + size)
    <3> HIDE DEF page
    <3> QED BY <2>1, <2>6, <2>8 DEF InPlace
  <2>10. page = {} => L = done
    <3> SUFFICES ASSUME page = {}, at = Cardinality(done) PROVE L = done
      BY <2>1
    <3>1. Cardinality(L) <= Cardinality(done) /\ Cardinality(done) <= Cardinality(L)
      BY <2>7, FS_Subset
    <3>2. Cardinality(L) = Cardinality(done)
      BY <1>1, <3>1
    <3> QED BY <3>2, FS_Subset
  <2> QED BY <2>5, <2>9, <2>10
<1>5. ASSUME Overrun(R, L, scope, {}, at) PROVE Overrun(R, L, scope, page, at + size)
  <2>1. PICK j \in L \ scope :
          at > pos(j) + Cardinality(Above(R, {}, j))
    BY <1>5 DEF Overrun
  <2>2. Above(R, {}, j) = {}
    BY DEF Above
  <2>3. pos(j) < at /\ pos(j) \in Nat
    BY <1>1, <1>2, <2>1, <2>2
  <2>4. at \in Nat
    <3> HIDE DEF pos
    <3> QED BY <2>3
  <2>5. j \notin page
    <3>1. ~(pos(j) >= at)
      <4> HIDE DEF pos
      <4> QED BY <2>3
    <3> QED BY <1>3, <3>1
  <2>6. Above(R, page, j) \subseteq page
    BY DEF Above
  <2>7. Cardinality(Above(R, page, j)) <= Cardinality(page) /\ Cardinality(Above(R, page, j)) \in Nat
    <3> HIDE DEF page
    <3> QED BY <1>1, <2>6, FS_Subset, FS_CardinalityType
  <2>8. Cardinality(page) <= size
    BY <2>4, PartSize
  <2>9. at + size > pos(j) + Cardinality(Above(R, page, j))
    <3> HIDE DEF pos, page
    <3> QED BY <1>1, <2>3, <2>4, <2>7, <2>8
  <2> HIDE DEF page
  <2> QED BY <2>1, <2>5, <2>9 DEF Overrun
<1> QED BY <1>4, <1>5

-----------------------------------------------------------------------------
(* The documents that the workers hold. *)

\* An invoice as it was at Stripe, which now has it as now: never ahead of it.
FromStripe(doc, now) ==
  /\ now # None
  /\ doc.status = "open" => now.status # "draft"
  /\ doc.status = "paid" => now.status = "paid"
  /\ doc.status = now.status => doc.on = now.on

\* A document of invoice i: it lists sessions that have their items there.
DocumentAt(i, doc, atStripe, onInvoice, data) ==
  /\ doc \in I!Invoice
  /\ FromStripe(doc, atStripe[i])
  /\ \A s \in Sessions : doc.sessions[s] > 0 => onInvoice[s] = i /\ data[s].status # "none"

DocumentOf(i, doc) == DocumentAt(i, doc, stripe, itemOn, tx)

OnInvoice == {"items", "charge", "refresh", "saveInvoice"}

BillRecord ==
  [pc : OnInvoice \cup {"invoice", "saveTx"}, s : Sessions,
   was : I!BillingData, data : I!BillingData, now : BOOLEAN, i : Sessions \cup {None},
   read : I!Invoice \cup {None}, doc : I!Invoice \cup {None}]

Handling == {"sync", "save", "readTx", "writeTx"}

ChargeRecord(Read) ==
  [pc : Handling \cup {"page", "end"}, unpaid : BOOLEAN, window : SUBSET Nat,
   skip : Int, page : SUBSET Sessions, i : Sessions \cup {None},
   read : Read, doc : I!Invoice \cup {None},
   scope : SUBSET Sessions, seen : [Sessions -> Nat]]

InvoicesTyped ==
  /\ I!TypeOK
  /\ bill = I!Idle \/ bill \in BillRecord
  /\ \/ charge = I!Idle
     \/ charge.pc = "writeTx" /\ charge \in ChargeRecord([Sessions -> I!BillingData])
     \/ charge.pc # "writeTx" /\ charge \in ChargeRecord(I!Invoice \cup {None})

LEMMA BillShape ==
  ASSUME InvoicesTyped
  PROVE  /\ bill.pc # "idle" => bill \in BillRecord
         /\ bill.pc = "idle" => bill = I!Idle
         /\ bill = I!Idle => bill.pc = "idle"
  BY DEF InvoicesTyped, BillRecord, OnInvoice, I!Idle

AnyRead == I!Invoice \cup {None} \cup [Sessions -> I!BillingData]

LEMMA ChargeShape ==
  ASSUME InvoicesTyped
  PROVE  /\ charge.pc # "idle" => charge \in ChargeRecord(AnyRead)
         /\ charge.pc \notin {"idle", "writeTx"} => charge \in ChargeRecord(I!Invoice \cup {None})
         /\ charge.pc = "writeTx" => charge \in ChargeRecord([Sessions -> I!BillingData])
         /\ charge.pc = "idle" => charge = I!Idle
         /\ charge = I!Idle => charge.pc = "idle"
<1>1. \A r \in ChargeRecord(I!Invoice \cup {None}) \cup ChargeRecord([Sessions -> I!BillingData]) :
        r.pc # "idle" /\ r \in ChargeRecord(AnyRead)
  BY DEF ChargeRecord, AnyRead, Handling
<1>2. I!Idle.pc = "idle"
  BY DEF I!Idle
<1> QED BY <1>1, <1>2 DEF InvoicesTyped

\* What each action leaves alone.
LEMMA Footprints ==
  /\ \A ready \in BOOLEAN : I!UpdateBillingSetting(ready) =>
       UNCHANGED <<day, stripe, itemOn, invoices, tx, tasks, bill, charge, count, stale, interrupted>>
  /\ \A s \in Sessions : I!EndTransaction(s) =>
       UNCHANGED <<day, settings, stripe, itemOn, invoices, bill, charge, count, stale, interrupted>>
  /\ \A s \in Sessions : I!PayOnline(s) =>
       UNCHANGED <<day, settings, itemOn, invoices, tx, tasks, bill, charge, count, stale, interrupted>>
  /\ I!Tick =>
       UNCHANGED <<settings, stripe, itemOn, invoices, tx, tasks, bill, charge, count, stale, interrupted>>
  /\ \A s \in Sessions : I!BillTransactionAsyncTask(s) =>
       UNCHANGED <<day, settings, stripe, itemOn, invoices, tx, charge, count, stale, interrupted>>
  /\ I!BillThrows =>
       UNCHANGED <<day, settings, stripe, itemOn, invoices, tx, charge, stale>>
  /\ I!BillFails =>
       UNCHANGED <<day, settings, stripe, itemOn, invoices, tx, tasks, charge, stale, interrupted>>
  /\ I!ChooseInvoice =>
       UNCHANGED <<day, settings, itemOn, invoices, tx, tasks, charge, count, stale, interrupted>>
  /\ I!CreateStripeInvoiceItems =>
       UNCHANGED <<day, settings, stripe, invoices, tx, tasks, charge, count, stale, interrupted>>
  /\ I!ChargeImmediately =>
       UNCHANGED <<day, settings, itemOn, invoices, tx, tasks, charge, count, stale, interrupted>>
  /\ I!Refresh =>
       UNCHANGED <<day, settings, stripe, itemOn, invoices, tx, tasks, charge, count, stale, interrupted>>
  /\ I!BillSavesInvoice =>
       UNCHANGED <<day, settings, stripe, itemOn, tx, tasks, charge, count, interrupted>>
  /\ I!BillSavesTransaction =>
       UNCHANGED <<day, settings, stripe, itemOn, invoices, charge, count, interrupted>>
  /\ \A unpaid \in BOOLEAN : I!ChargeInvoices(unpaid) =>
       UNCHANGED <<day, settings, stripe, itemOn, invoices, tx, tasks, bill, stale, interrupted>>
  /\ I!ReadPage =>
       UNCHANGED <<day, settings, stripe, itemOn, invoices, tx, tasks, bill, count, stale, interrupted>>
  /\ I!ChargeEnds =>
       UNCHANGED <<day, settings, stripe, itemOn, invoices, tx, tasks, bill, count, stale, interrupted>>
  /\ \A i \in Sessions : I!ChargeInvoice(i) =>
       UNCHANGED <<day, settings, itemOn, invoices, tx, tasks, bill, count, stale, interrupted>>
  /\ \A i \in Sessions : I!ChargeFails(i) =>
       UNCHANGED <<day, settings, stripe, itemOn, invoices, tx, tasks, bill, stale>>
  /\ I!Sync =>
       UNCHANGED <<day, settings, stripe, itemOn, invoices, tx, tasks, bill, count, stale, interrupted>>
  /\ I!ChargeSavesInvoice =>
       UNCHANGED <<day, settings, stripe, itemOn, tx, tasks, bill, count, interrupted>>
  /\ I!ReadTransactions =>
       UNCHANGED <<day, settings, stripe, itemOn, invoices, tx, tasks, bill, count, stale, interrupted>>
  /\ I!UpdateTransactionsBillingData =>
       UNCHANGED <<day, settings, stripe, itemOn, invoices, tasks, bill, count, interrupted>>
  /\ I!Crash =>
       UNCHANGED <<day, settings, stripe, itemOn, invoices, tx, tasks, stale>>
<1>1. \A ready \in BOOLEAN : I!UpdateBillingSetting(ready) =>
       UNCHANGED <<day, stripe, itemOn, invoices, tx, tasks, bill, charge, count, stale, interrupted>>
  BY DEF I!UpdateBillingSetting, I!billRest, I!chargeRest, I!history, I!SaveInvoice, I!Count
<1>2. \A s \in Sessions : I!EndTransaction(s) =>
       UNCHANGED <<day, settings, stripe, itemOn, invoices, bill, charge, count, stale, interrupted>>
  BY DEF I!EndTransaction, I!billRest, I!chargeRest, I!history, I!SaveInvoice, I!Count
<1>3. \A s \in Sessions : I!PayOnline(s) =>
       UNCHANGED <<day, settings, itemOn, invoices, tx, tasks, bill, charge, count, stale, interrupted>>
  BY DEF I!PayOnline, I!billRest, I!chargeRest, I!history, I!SaveInvoice, I!Count
<1>4. I!Tick =>
       UNCHANGED <<settings, stripe, itemOn, invoices, tx, tasks, bill, charge, count, stale, interrupted>>
  BY DEF I!Tick, I!billRest, I!chargeRest, I!history, I!SaveInvoice, I!Count
<1>5. \A s \in Sessions : I!BillTransactionAsyncTask(s) =>
       UNCHANGED <<day, settings, stripe, itemOn, invoices, tx, charge, count, stale, interrupted>>
  BY DEF I!BillTransactionAsyncTask, I!billRest, I!chargeRest, I!history, I!SaveInvoice, I!Count
<1>6. I!BillThrows =>
       UNCHANGED <<day, settings, stripe, itemOn, invoices, tx, charge, stale>>
  BY DEF I!BillThrows, I!billRest, I!chargeRest, I!history, I!SaveInvoice, I!Count
<1>7. I!BillFails =>
       UNCHANGED <<day, settings, stripe, itemOn, invoices, tx, tasks, charge, stale, interrupted>>
  BY DEF I!BillFails, I!billRest, I!chargeRest, I!history, I!SaveInvoice, I!Count
<1>8. I!ChooseInvoice =>
       UNCHANGED <<day, settings, itemOn, invoices, tx, tasks, charge, count, stale, interrupted>>
  BY DEF I!ChooseInvoice, I!billRest, I!chargeRest, I!history, I!SaveInvoice, I!Count
<1>9. I!CreateStripeInvoiceItems =>
       UNCHANGED <<day, settings, stripe, invoices, tx, tasks, charge, count, stale, interrupted>>
  BY DEF I!CreateStripeInvoiceItems, I!billRest, I!chargeRest, I!history, I!SaveInvoice, I!Count
<1>10. I!ChargeImmediately =>
       UNCHANGED <<day, settings, itemOn, invoices, tx, tasks, charge, count, stale, interrupted>>
  BY DEF I!ChargeImmediately, I!billRest, I!chargeRest, I!history, I!SaveInvoice, I!Count
<1>11. I!Refresh =>
       UNCHANGED <<day, settings, stripe, itemOn, invoices, tx, tasks, charge, count, stale, interrupted>>
  BY DEF I!Refresh, I!billRest, I!chargeRest, I!history, I!SaveInvoice, I!Count
<1>12. I!BillSavesInvoice =>
       UNCHANGED <<day, settings, stripe, itemOn, tx, tasks, charge, count, interrupted>>
  BY DEF I!BillSavesInvoice, I!billRest, I!chargeRest, I!history, I!SaveInvoice, I!Count
<1>13. I!BillSavesTransaction =>
       UNCHANGED <<day, settings, stripe, itemOn, invoices, charge, count, interrupted>>
  BY DEF I!BillSavesTransaction, I!billRest, I!chargeRest, I!history, I!SaveInvoice, I!Count
<1>14. \A unpaid \in BOOLEAN : I!ChargeInvoices(unpaid) =>
       UNCHANGED <<day, settings, stripe, itemOn, invoices, tx, tasks, bill, stale, interrupted>>
  BY DEF I!ChargeInvoices, I!billRest, I!chargeRest, I!history, I!SaveInvoice, I!Count
<1>15. I!ReadPage =>
       UNCHANGED <<day, settings, stripe, itemOn, invoices, tx, tasks, bill, count, stale, interrupted>>
  BY DEF I!ReadPage, I!billRest, I!chargeRest, I!history, I!SaveInvoice, I!Count
<1>16. I!ChargeEnds =>
       UNCHANGED <<day, settings, stripe, itemOn, invoices, tx, tasks, bill, count, stale, interrupted>>
  BY DEF I!ChargeEnds, I!billRest, I!chargeRest, I!history, I!SaveInvoice, I!Count
<1>17. \A i \in Sessions : I!ChargeInvoice(i) =>
       UNCHANGED <<day, settings, itemOn, invoices, tx, tasks, bill, count, stale, interrupted>>
  BY DEF I!ChargeInvoice, I!billRest, I!chargeRest, I!history, I!SaveInvoice, I!Count
<1>18. \A i \in Sessions : I!ChargeFails(i) =>
       UNCHANGED <<day, settings, stripe, itemOn, invoices, tx, tasks, bill, stale>>
  BY DEF I!ChargeFails, I!billRest, I!chargeRest, I!history, I!SaveInvoice, I!Count
<1>19. I!Sync =>
       UNCHANGED <<day, settings, stripe, itemOn, invoices, tx, tasks, bill, count, stale, interrupted>>
  BY DEF I!Sync, I!billRest, I!chargeRest, I!history, I!SaveInvoice, I!Count
<1>20. I!ChargeSavesInvoice =>
       UNCHANGED <<day, settings, stripe, itemOn, tx, tasks, bill, count, interrupted>>
  BY DEF I!ChargeSavesInvoice, I!billRest, I!chargeRest, I!history, I!SaveInvoice, I!Count
<1>21. I!ReadTransactions =>
       UNCHANGED <<day, settings, stripe, itemOn, invoices, tx, tasks, bill, count, stale, interrupted>>
  BY DEF I!ReadTransactions, I!billRest, I!chargeRest, I!history, I!SaveInvoice, I!Count
<1>22. I!UpdateTransactionsBillingData =>
       UNCHANGED <<day, settings, stripe, itemOn, invoices, tasks, bill, count, interrupted>>
  BY DEF I!UpdateTransactionsBillingData, I!billRest, I!chargeRest, I!history, I!SaveInvoice, I!Count
<1>23. I!Crash =>
       UNCHANGED <<day, settings, stripe, itemOn, invoices, tx, tasks, stale>>
  BY DEF I!Crash, I!billRest, I!chargeRest, I!history, I!SaveInvoice, I!Count
<1> QED BY <1>1, <1>2, <1>3, <1>4, <1>5, <1>6, <1>7, <1>8, <1>9, <1>10, <1>11, <1>12, <1>13, <1>14, <1>15, <1>16, <1>17, <1>18, <1>19, <1>20, <1>21, <1>22, <1>23

InvoicingStep == I!Next \/ UNCHANGED iVars

\* Who changes what.
LEMMA Changes ==
  ASSUME InvoicingStep
  PROVE  /\ stripe' = stripe \/ I!ChooseInvoice \/ I!ChargeImmediately
            \/ \E i \in Sessions : I!PayOnline(i) \/ I!ChargeInvoice(i)
         /\ itemOn' = itemOn \/ I!CreateStripeInvoiceItems
         /\ invoices' = invoices \/ I!BillSavesInvoice \/ I!ChargeSavesInvoice
         /\ tx' = tx \/ (\E s \in Sessions : I!EndTransaction(s))
            \/ I!BillSavesTransaction \/ I!UpdateTransactionsBillingData
         /\ tasks' = tasks \/ (\E s \in Sessions : I!EndTransaction(s) \/ I!BillTransactionAsyncTask(s))
            \/ I!BillThrows \/ I!BillSavesTransaction
         /\ bill' = bill \/ I!Bill \/ I!Crash
         /\ charge' = charge \/ I!Charge \/ I!Crash
         /\ stale' = stale \/ I!BillSavesInvoice \/ I!BillSavesTransaction
            \/ I!ChargeSavesInvoice \/ I!UpdateTransactionsBillingData
         /\ interrupted' = interrupted \/ I!BillThrows \/ I!Crash \/ \E i \in Sessions : I!ChargeFails(i)
         /\ day' = day \/ I!Tick
         /\ settings' = settings \/ \E ready \in BOOLEAN : I!UpdateBillingSetting(ready)
         /\ I!Bill => charge' = charge
         /\ I!Charge => bill' = bill
  BY Footprints DEF InvoicingStep, I!Next, I!Bill, I!Charge, iVars

Invoices == [status : I!InvoiceStatus, on : 0 .. MaxDay]

\* How an invoice goes on at Stripe.
GoesOn(before, after) ==
  \/ after.status = before.status /\ after.on = before.on
  \/ before.status = "draft" /\ after.status # "draft"
  \/ before.status = "open" /\ after.status = "paid" /\ after.on = before.on

LEMMA ChargedFacts ==
  ASSUME I!TypeOK, NEW i \in Sessions, stripe[i] # None, NEW result \in I!Charged(i)
  PROVE  result \in Invoices /\ result # None /\ GoesOn(stripe[i], result)
<1>1. stripe[i] \in Invoices /\ day \in 0 .. MaxDay
  BY DEF I!TypeOK, Invoices
<1>2. result = stripe[i] \/
        (stripe[i].status # "paid" /\
         \E status \in {"open", "paid"} :
           result = [status |-> status, on |-> IF stripe[i].status = "draft" THEN day ELSE stripe[i].on])
  BY DEF I!Charged
<1>3. result \in Invoices /\ GoesOn(stripe[i], result)
  BY <1>1, <1>2 DEF Invoices, I!InvoiceStatus, GoesOn
<1>4. None \notin Invoices
  BY MissingAssumption DEF Invoices
<1> QED BY <1>3, <1>4

\* Every stored document is one of its invoice.
StoredDocuments == \A i \in Sessions : invoices[i] # None => DocumentOf(i, invoices[i])

TasksLive == \A s \in tasks : tx[s].status \notin {"none", "UNBILLED"}

\* A document that was read, and what is written back over it.
Refreshed(read, doc) ==
  /\ doc.sessions = IF read = None THEN [s \in Sessions |-> 0] ELSE read.sessions
  /\ read # None /\ read.status = doc.status => read.on = doc.on

BillHolds ==
  bill.pc # "idle" =>
    /\ bill.s \in tasks
    /\ bill.pc = "saveTx" => bill.data.status \in {"BILLED", "FAILED"}
    /\ bill.pc # "saveTx" => bill.data.status # "BILLED"
    /\ bill.pc \in OnInvoice => bill.i \in Sessions /\ stripe[bill.i] # None
    /\ bill.pc \in OnInvoice \ {"items"} => itemOn[bill.s] = bill.i
    /\ bill.pc = "saveInvoice" =>
         /\ DocumentOf(bill.i, bill.doc) /\ Refreshed(bill.read, bill.doc)
         /\ bill.read # None => invoices[bill.i] # None /\ DocumentOf(bill.i, bill.read)

ChargeHolds ==
  charge.pc # "idle" =>
    /\ \A i \in charge.page : invoices[i] # None
    /\ charge.pc \in Handling => charge.i \in charge.page
    /\ charge.pc \notin Handling => charge.i = None
    /\ charge.pc \in {"save", "readTx", "writeTx"} => DocumentOf(charge.i, charge.doc)
    /\ charge.pc = "save" => DocumentOf(charge.i, charge.read) /\ Refreshed(charge.read, charge.doc)
    /\ charge.pc = "writeTx" =>
         \A s \in Sessions :
           /\ charge.doc.sessions[s] > 0 => charge.read[s].status # "none"
           /\ charge.read[s].status = "UNBILLED" => tx[s].status = "UNBILLED"

HoldsInv == InvoicesTyped /\ StoredDocuments /\ TasksLive /\ BillHolds /\ ChargeHolds

LEMMA StripeStep ==
  ASSUME HoldsInv, InvoicingStep
  PROVE  /\ stripe' \in [Sessions -> Invoices \cup {None}]
         /\ \A i \in Sessions : stripe[i] # None => stripe'[i] # None /\ GoesOn(stripe[i], stripe'[i])
<1>1. stripe \in [Sessions -> Invoices \cup {None}] /\ day \in 0 .. MaxDay /\ None \notin Invoices
  BY MissingAssumption DEF HoldsInv, InvoicesTyped, I!TypeOK, Invoices
<1> DEFINE Ok(f) == /\ f \in [Sessions -> Invoices \cup {None}]
                    /\ \A i \in Sessions : stripe[i] # None => f[i] # None /\ GoesOn(stripe[i], f[i])
<1>2. ASSUME NEW i \in Sessions, stripe[i] # None, NEW r \in I!Charged(i), stripe' = [stripe EXCEPT ![i] = r]
      PROVE  Ok(stripe')
  <2>1. r \in Invoices /\ r # None /\ GoesOn(stripe[i], r)
    BY <1>2, ChargedFacts DEF HoldsInv, InvoicesTyped
  <2> QED BY <1>1, <1>2, <2>1 DEF GoesOn
<1>3. CASE stripe' = stripe
  BY <1>1, <1>3 DEF GoesOn
<1>4. CASE I!ChooseInvoice
  <2>1. stripe' = stripe \/ stripe' = I!CreateStripeInvoice(bill.s)
    BY <1>4 DEF I!ChooseInvoice
  <2>2. [status |-> "draft", on |-> day] \in Invoices
    BY <1>1 DEF Invoices, I!InvoiceStatus
  <2> QED BY <1>1, <2>1, <2>2 DEF I!CreateStripeInvoice, GoesOn
<1>5. CASE I!ChargeImmediately
  <2>1. bill.i \in Sessions /\ stripe[bill.i] # None
    BY <1>5 DEF I!ChargeImmediately, HoldsInv, BillHolds, OnInvoice
  <2>2. PICK r \in I!Charged(bill.i) : stripe' = [stripe EXCEPT ![bill.i] = r]
    BY <1>5 DEF I!ChargeImmediately
  <2> QED BY <1>2, <2>1, <2>2
<1>6. ASSUME NEW i \in Sessions, I!PayOnline(i) PROVE Ok(stripe')
  <2>1. stripe[i] \in Invoices /\ stripe[i].status = "open"
        /\ stripe' = [stripe EXCEPT ![i].status = "paid"]
    BY <1>1, <1>6 DEF I!PayOnline
  <2>2. [stripe[i] EXCEPT !.status = "paid"] \in Invoices
        /\ GoesOn(stripe[i], [stripe[i] EXCEPT !.status = "paid"])
    BY <2>1 DEF Invoices, I!InvoiceStatus, GoesOn
  <2> QED BY <1>1, <2>1, <2>2 DEF GoesOn
<1>7. ASSUME NEW i \in Sessions, I!ChargeInvoice(i) PROVE Ok(stripe')
  <2>1. i \in charge.page /\ charge.pc = "page"
    BY <1>7 DEF I!ChargeInvoice, I!IsNext
  <2>2. stripe[i] # None
    BY <2>1 DEF HoldsInv, ChargeHolds, StoredDocuments, DocumentOf, DocumentAt, FromStripe
  <2>3. PICK r \in I!Charged(i) : stripe' = [stripe EXCEPT ![i] = r]
    BY <1>7 DEF I!ChargeInvoice
  <2> QED BY <1>2, <2>2, <2>3
<1> QED BY <1>3, <1>4, <1>5, <1>6, <1>7, Changes

LEMMA ItemsStep ==
  ASSUME HoldsInv, InvoicingStep
  PROVE  /\ itemOn' \in [Sessions -> Sessions \cup {None}]
         /\ \A s \in Sessions : itemOn[s] # None => itemOn'[s] = itemOn[s]
<1>1. itemOn \in [Sessions -> Sessions \cup {None}]
  BY DEF HoldsInv, InvoicesTyped, I!TypeOK
<1>2. CASE I!CreateStripeInvoiceItems
  <2>1. bill.i \in Sessions /\ bill.pc = "items"
    BY <1>2 DEF I!CreateStripeInvoiceItems, HoldsInv, BillHolds, OnInvoice
  <2>2. itemOn' = itemOn \/ (itemOn[bill.s] \in {None, bill.i} /\ itemOn' = [itemOn EXCEPT ![bill.s] = bill.i])
    BY <1>2 DEF I!CreateStripeInvoiceItems
  <2> QED BY <1>1, <2>1, <2>2
<1> QED BY <1>1, <1>2, Changes

LEMMA TxStep ==
  ASSUME HoldsInv, InvoicingStep
  PROVE  /\ tx' \in [Sessions -> I!BillingData] /\ tasks' \subseteq Sessions
         /\ \A s \in Sessions : tx[s].status # "none" => tx'[s].status # "none"
         /\ I!UpdateTransactionsBillingData
            \/ \A s \in Sessions : tx[s].status = "UNBILLED" => tx'[s].status = "UNBILLED"
         /\ TasksLive'
<1>1. tx \in [Sessions -> I!BillingData] /\ tasks \subseteq Sessions
  BY DEF HoldsInv, InvoicesTyped, I!TypeOK
<1>2. \A s \in tasks : tx[s].status \notin {"none", "UNBILLED"}
  BY DEF HoldsInv, TasksLive
<1>3. CASE tx' = tx /\ tasks' \subseteq tasks
  BY <1>1, <1>2, <1>3 DEF TasksLive
<1>4. ASSUME NEW s \in Sessions, I!EndTransaction(s)
      PROVE  /\ tx' \in [Sessions -> I!BillingData] /\ tasks' \subseteq Sessions
             /\ \A r \in Sessions : tx[r].status # "none" => tx'[r] = tx[r]
             /\ TasksLive'
  <2>1. PICK status \in {"PENDING", "UNBILLED"} :
          /\ tx[s].status = "none" /\ tx' = [tx EXCEPT ![s].status = status]
          /\ tasks' = IF status = "PENDING" THEN tasks \cup {s} ELSE tasks
    BY <1>4 DEF I!EndTransaction
  <2>2. [tx[s] EXCEPT !.status = status] \in I!BillingData
        /\ [tx[s] EXCEPT !.status = status].status = status
    BY <1>1 DEF I!BillingData
  <2>3. \A r \in Sessions : tx'[r] = IF r = s THEN [tx[s] EXCEPT !.status = status] ELSE tx[r]
    BY <1>1, <2>1
  <2>4. \A r \in tasks' : tx'[r].status \notin {"none", "UNBILLED"}
    BY <1>1, <1>2, <2>1, <2>2, <2>3
  <2>5. tx' \in [Sessions -> I!BillingData] /\ tasks' \subseteq Sessions
    BY <1>1, <2>1, <2>2
  <2> QED BY <2>1, <2>3, <2>4, <2>5 DEF TasksLive
<1>5. CASE I!BillSavesTransaction
  <2>1. bill \in BillRecord /\ bill.pc = "saveTx" /\ bill.data.status \in {"BILLED", "FAILED"}
    BY <1>5, BillShape DEF I!BillSavesTransaction, HoldsInv, BillHolds
  <2>2. tx' = [tx EXCEPT ![bill.s] = bill.data] /\ tasks' = tasks \ {bill.s}
    BY <1>5 DEF I!BillSavesTransaction
  <2>3. bill.s \in tasks /\ bill.data \in I!BillingData
    BY <2>1 DEF HoldsInv, BillHolds, BillRecord
  <2>4. tx[bill.s].status # "UNBILLED"
    BY <1>2, <2>3
  <2>5. \A s \in Sessions : tx'[s] = IF s = bill.s THEN bill.data ELSE tx[s]
    BY <1>1, <2>2
  <2>6. \A s \in tasks' : tx'[s].status \notin {"none", "UNBILLED"}
    BY <1>1, <1>2, <2>2, <2>5
  <2>7. tx' \in [Sessions -> I!BillingData] /\ tasks' \subseteq Sessions
    BY <1>1, <2>2, <2>3
  <2> QED BY <1>1, <2>1, <2>4, <2>5, <2>6, <2>7 DEF TasksLive
<1>6. CASE I!UpdateTransactionsBillingData
  <2>1. /\ charge.pc = "writeTx" /\ charge \in ChargeRecord([Sessions -> I!BillingData])
        /\ charge.doc \in I!Invoice
    BY <1>6, ChargeShape DEF I!UpdateTransactionsBillingData, HoldsInv, ChargeHolds, DocumentOf, DocumentAt
  <2>2. PICK on \in SUBSET {s \in Sessions : charge.read[s].status # "none"} :
          tx' = [s \in Sessions |-> IF s \in on THEN I!ShowStatus(charge.read[s], charge.doc.status) ELSE tx[s]]
    BY <1>6 DEF I!UpdateTransactionsBillingData
  <2>3. charge.read \in [Sessions -> I!BillingData] /\ charge.doc.status \in I!InvoiceStatus
    BY <2>1 DEF ChargeRecord, I!Invoice
  <2>4. \A s \in Sessions : I!ShowStatus(charge.read[s], charge.doc.status) \in I!BillingData
          /\ I!ShowStatus(charge.read[s], charge.doc.status).status = charge.read[s].status
    BY <2>3 DEF I!ShowStatus, I!BillingData
  <2>5. tx' \in [Sessions -> I!BillingData]
    BY <1>1, <2>2, <2>4
  <2>6. \A s \in Sessions : charge.read[s].status = "UNBILLED" => tx[s].status = "UNBILLED"
    BY <2>1 DEF HoldsInv, ChargeHolds
  <2>7. \A s \in Sessions : tx'[s].status # tx[s].status => tx'[s].status \notin {"none", "UNBILLED"}
    <3> SUFFICES ASSUME NEW s \in Sessions, tx'[s].status # tx[s].status
                 PROVE  tx'[s].status \notin {"none", "UNBILLED"}
      OBVIOUS
    <3>1. s \in on /\ tx'[s].status = charge.read[s].status
      BY <2>2, <2>4
    <3> QED BY <2>2, <2>6, <3>1
  <2>8. tasks' = tasks
    BY <1>6, Footprints
  <2> QED BY <1>1, <1>2, <1>6, <2>5, <2>7, <2>8 DEF TasksLive
<1>7. CASE I!BillThrows \/ \E s \in Sessions : I!BillTransactionAsyncTask(s)
  <2>1. tasks' \subseteq tasks
    BY <1>7 DEF I!BillThrows, I!BillTransactionAsyncTask
  <2>2. tx' = tx
    BY <1>7, Footprints
  <2> QED BY <1>3, <2>1, <2>2
<1>8. CASE tx' = tx /\ tasks' = tasks
  BY <1>3, <1>8
<1>9. \/ tx' = tx /\ tasks' = tasks
      \/ I!BillThrows \/ (\E s \in Sessions : I!BillTransactionAsyncTask(s))
      \/ (\E s \in Sessions : I!EndTransaction(s))
      \/ I!BillSavesTransaction \/ I!UpdateTransactionsBillingData
  BY Changes, Footprints
<1>10. CASE I!BillSavesTransaction \/ I!UpdateTransactionsBillingData \/ \E s \in Sessions : I!EndTransaction(s)
  BY <1>4, <1>5, <1>6, <1>10
<1> QED BY <1>3, <1>7, <1>8, <1>9, <1>10

\* A document of an invoice stays one, whatever the others do.
LEMMA DocumentsStay ==
  ASSUME HoldsInv, InvoicingStep
  PROVE  \A i \in Sessions : \A doc :
           DocumentOf(i, doc) => DocumentAt(i, doc, stripe', itemOn', tx')
<1> SUFFICES ASSUME NEW i \in Sessions, NEW doc, DocumentOf(i, doc)
             PROVE  DocumentAt(i, doc, stripe', itemOn', tx')
  OBVIOUS
<1>1. /\ doc \in I!Invoice /\ stripe[i] # None
      /\ doc.status = "open" => stripe[i].status # "draft"
      /\ doc.status = "paid" => stripe[i].status = "paid"
      /\ doc.status = stripe[i].status => doc.on = stripe[i].on
  BY DEF DocumentOf, DocumentAt, FromStripe
<1>2. stripe[i].status \in I!InvoiceStatus /\ doc.status \in I!InvoiceStatus
  BY <1>1 DEF HoldsInv, InvoicesTyped, I!TypeOK, I!Invoice
<1>3. stripe'[i] # None /\ GoesOn(stripe[i], stripe'[i])
  BY <1>1, StripeStep
<1>4. stripe'[i].status \in I!InvoiceStatus
  BY <1>3, StripeStep DEF Invoices
<1>5. FromStripe(doc, stripe'[i])
  BY <1>1, <1>2, <1>3, <1>4 DEF FromStripe, GoesOn, I!InvoiceStatus
<1>6. \A s \in Sessions : doc.sessions[s] > 0 => itemOn'[s] = i /\ tx'[s].status # "none"
  <2> SUFFICES ASSUME NEW s \in Sessions, doc.sessions[s] > 0
               PROVE  itemOn'[s] = i /\ tx'[s].status # "none"
    OBVIOUS
  <2>1. itemOn[s] = i /\ tx[s].status # "none" /\ itemOn[s] # None
    BY MissingAssumption, SessionsAssumption DEF DocumentOf, DocumentAt
  <2> QED BY <2>1, ItemsStep, TxStep
<1> QED BY <1>1, <1>5, <1>6 DEF DocumentAt

LEMMA EnrichedFacts ==
  ASSUME NEW doc \in I!Invoice, NEW s \in Sessions
  PROVE  /\ I!EnrichInvoice(doc, s) \in I!Invoice
         /\ I!EnrichInvoice(doc, s).status = doc.status /\ I!EnrichInvoice(doc, s).on = doc.on
         /\ \A r \in Sessions : I!EnrichInvoice(doc, s).sessions[r] =
                                IF r = s THEN doc.sessions[r] + 1 ELSE doc.sessions[r]
<1>1. PICK listed : listed = [doc.sessions EXCEPT ![s] = doc.sessions[s] + 1]
  OBVIOUS
<1>2. doc.sessions \in [Sessions -> Nat]
  BY DEF I!Invoice
<1>3. listed \in [Sessions -> Nat]
      /\ \A r \in Sessions : listed[r] = IF r = s THEN doc.sessions[r] + 1 ELSE doc.sessions[r]
  BY <1>1, <1>2
<1>4. I!EnrichInvoice(doc, s) = [doc EXCEPT !.sessions = listed]
  BY <1>1 DEF I!EnrichInvoice
<1> QED BY <1>3, <1>4 DEF I!Invoice

\* What is stored when a worker saves an invoice.
LEMMA InvoiceSaved ==
  ASSUME HoldsInv
  PROVE  /\ I!BillSavesInvoice =>
              /\ bill \in BillRecord /\ bill.i \in Sessions /\ bill.s \in Sessions /\ bill.doc \in I!Invoice
              /\ invoices' = [invoices EXCEPT ![bill.i] = I!EnrichInvoice(bill.doc, bill.s)]
         /\ I!ChargeSavesInvoice =>
              /\ charge \in ChargeRecord(I!Invoice \cup {None}) /\ charge.i \in Sessions
              /\ charge.doc \in I!Invoice /\ charge.read \in I!Invoice
              /\ invoices' = [invoices EXCEPT ![charge.i] = charge.doc]
<1>1. ASSUME I!BillSavesInvoice
      PROVE  /\ bill \in BillRecord /\ bill.i \in Sessions /\ bill.s \in Sessions /\ bill.doc \in I!Invoice
             /\ invoices' = [invoices EXCEPT ![bill.i] = I!EnrichInvoice(bill.doc, bill.s)]
  <2>1. bill.pc = "saveInvoice" /\ bill \in BillRecord
    BY <1>1, BillShape DEF I!BillSavesInvoice, HoldsInv
  <2>2. bill.i \in Sessions /\ bill.s \in Sessions /\ bill.doc \in I!Invoice
    BY <2>1 DEF HoldsInv, BillHolds, BillRecord, OnInvoice, DocumentOf, DocumentAt
  <2> QED BY <1>1, <2>1, <2>2 DEF I!BillSavesInvoice, I!SaveInvoice
<1>2. ASSUME I!ChargeSavesInvoice
      PROVE  /\ charge \in ChargeRecord(I!Invoice \cup {None}) /\ charge.i \in Sessions
             /\ charge.doc \in I!Invoice /\ charge.read \in I!Invoice
             /\ invoices' = [invoices EXCEPT ![charge.i] = charge.doc]
  <2>1. charge.pc = "save" /\ charge \in ChargeRecord(I!Invoice \cup {None})
    BY <1>2, ChargeShape DEF I!ChargeSavesInvoice, HoldsInv
  <2>2. charge.i \in charge.page /\ charge.page \subseteq Sessions
        /\ charge.doc \in I!Invoice /\ charge.read \in I!Invoice
    BY <2>1 DEF HoldsInv, ChargeHolds, ChargeRecord, Handling, DocumentOf, DocumentAt
  <2> QED BY <1>2, <2>1, <2>2 DEF I!ChargeSavesInvoice, I!SaveInvoice
<1> QED BY <1>1, <1>2

LEMMA InvoicesStep ==
  ASSUME HoldsInv, InvoicingStep
  PROVE  /\ invoices' \in [Sessions -> I!Invoice \cup {None}]
         /\ \A i \in Sessions : invoices[i] # None => invoices'[i] # None
         /\ StoredDocuments'
<1> DEFINE Later(i, doc) == DocumentAt(i, doc, stripe', itemOn', tx')
<1>1. invoices \in [Sessions -> I!Invoice \cup {None}] /\ None \notin I!Invoice
  BY MissingAssumption DEF HoldsInv, InvoicesTyped, I!TypeOK
<1>2. \A i \in Sessions : invoices[i] # None => Later(i, invoices[i])
  BY DocumentsStay DEF HoldsInv, StoredDocuments
<1>3. StoredDocuments' <=> \A i \in Sessions : invoices'[i] # None => Later(i, invoices'[i])
  BY DEF StoredDocuments, DocumentOf
<1> HIDE DEF Later
<1>4. CASE invoices' = invoices
  BY <1>1, <1>2, <1>3, <1>4
<1>5. ASSUME NEW i \in Sessions, NEW doc \in I!Invoice, Later(i, doc),
             invoices' = [invoices EXCEPT ![i] = doc]
      PROVE  /\ invoices' \in [Sessions -> I!Invoice \cup {None}]
             /\ \A j \in Sessions : invoices[j] # None => invoices'[j] # None
             /\ StoredDocuments'
  <2>1. \A j \in Sessions : invoices'[j] = IF j = i THEN doc ELSE invoices[j]
    BY <1>1, <1>5
  <2>2. \A j \in Sessions : invoices'[j] # None => Later(j, invoices'[j])
    BY <1>2, <1>5, <2>1
  <2> QED BY <1>1, <1>3, <1>5, <2>1, <2>2
<1>6. CASE I!BillSavesInvoice
  <2>1. /\ bill \in BillRecord /\ bill.i \in Sessions /\ bill.s \in Sessions /\ bill.doc \in I!Invoice
        /\ invoices' = [invoices EXCEPT ![bill.i] = I!EnrichInvoice(bill.doc, bill.s)]
    BY <1>6, InvoiceSaved
  <2>2. bill.pc = "saveInvoice"
    BY <1>6 DEF I!BillSavesInvoice
  <2>3. itemOn[bill.s] = bill.i /\ tx[bill.s].status # "none" /\ DocumentOf(bill.i, bill.doc)
    BY <2>2 DEF HoldsInv, BillHolds, OnInvoice, TasksLive
  <2> DEFINE doc == I!EnrichInvoice(bill.doc, bill.s)
  <2>4. doc \in I!Invoice /\ doc.status = bill.doc.status /\ doc.on = bill.doc.on
        /\ \A r \in Sessions : doc.sessions[r] > 0 => r = bill.s \/ bill.doc.sessions[r] > 0
    <3>1. bill.doc.sessions \in [Sessions -> Nat]
      BY <2>1 DEF I!Invoice
    <3> QED BY <2>1, <3>1, EnrichedFacts
  <2> HIDE DEF doc
  <2>5. DocumentOf(bill.i, doc)
    BY <2>3, <2>4 DEF DocumentOf, DocumentAt, FromStripe
  <2>6. Later(bill.i, doc)
    BY <2>1, <2>5, DocumentsStay DEF Later
  <2> QED BY <1>5, <2>1, <2>4, <2>6 DEF doc
<1>7. CASE I!ChargeSavesInvoice
  <2>1. charge.pc = "save"
    BY <1>7 DEF I!ChargeSavesInvoice
  <2>2. DocumentOf(charge.i, charge.doc)
    BY <2>1 DEF HoldsInv, ChargeHolds
  <2>3. /\ charge.i \in Sessions /\ charge.doc \in I!Invoice
        /\ invoices' = [invoices EXCEPT ![charge.i] = charge.doc]
    BY <1>7, InvoiceSaved
  <2>4. Later(charge.i, charge.doc)
    BY <2>2, <2>3, DocumentsStay DEF Later
  <2> QED BY <1>5, <2>3, <2>4
<1> QED BY <1>4, <1>6, <1>7, Changes

LEMMA ConvertFacts ==
  ASSUME HoldsInv, NEW i \in Sessions, stripe[i] # None
  PROVE  /\ I!ConvertToBillingInvoice(i) \in I!Invoice
         /\ DocumentOf(i, I!ConvertToBillingInvoice(i))
         /\ Refreshed(invoices[i], I!ConvertToBillingInvoice(i))
         /\ I!ConvertToBillingInvoice(i).status = stripe[i].status
<1> DEFINE listed == IF invoices[i] = None THEN [s \in Sessions |-> 0] ELSE invoices[i].sessions
           doc == [status |-> stripe[i].status, on |-> stripe[i].on, sessions |-> listed]
<1>1. /\ stripe[i] \in [status : I!InvoiceStatus, on : 0 .. MaxDay]
      /\ invoices[i] \in I!Invoice \cup {None}
      /\ invoices[i] # None => DocumentOf(i, invoices[i])
  BY DEF HoldsInv, InvoicesTyped, I!TypeOK, StoredDocuments
<1>2. listed \in [Sessions -> Nat]
  BY <1>1 DEF I!Invoice
<1>3. \A s \in Sessions : listed[s] > 0 => itemOn[s] = i /\ tx[s].status # "none"
  BY <1>1 DEF DocumentOf, DocumentAt
<1>4. invoices[i] # None /\ invoices[i].status = stripe[i].status => invoices[i].on = stripe[i].on
  BY <1>1 DEF DocumentOf, DocumentAt, FromStripe
<1>5. I!ConvertToBillingInvoice(i) = doc
  BY DEF I!ConvertToBillingInvoice
<1>6. Refreshed(invoices[i], doc)
  BY <1>4 DEF Refreshed
<1> HIDE DEF listed
<1>7. doc \in I!Invoice /\ doc.status = stripe[i].status /\ doc.on = stripe[i].on /\ doc.sessions = listed
  BY <1>1, <1>2 DEF I!Invoice
<1>8. DocumentOf(i, doc)
  <2> HIDE DEF doc
  <2> QED BY <1>1, <1>3, <1>7 DEF DocumentOf, DocumentAt, FromStripe, I!InvoiceStatus
<1> HIDE DEF doc
<1> QED BY <1>5, <1>6, <1>7, <1>8

\* What is said of the task of a session.
BillFacts(b, waiting, atStripe, onInvoice, docs, data) ==
  /\ b \in BillRecord /\ b.s \in waiting
  /\ b.pc = "saveTx" => b.data.status \in {"BILLED", "FAILED"}
  /\ b.pc # "saveTx" => b.data.status # "BILLED"
  /\ b.pc \in OnInvoice => b.i \in Sessions /\ atStripe[b.i] # None
  /\ b.pc \in OnInvoice \ {"items"} => onInvoice[b.s] = b.i
  /\ b.pc = "saveInvoice" =>
       /\ DocumentAt(b.i, b.doc, atStripe, onInvoice, data) /\ Refreshed(b.read, b.doc)
       /\ b.read # None => docs[b.i] # None /\ DocumentAt(b.i, b.read, atStripe, onInvoice, data)

LEMMA BillStep ==
  ASSUME HoldsInv, InvoicingStep
  PROVE  /\ bill' = I!Idle \/ bill' \in BillRecord
         /\ BillHolds'
<1> DEFINE Goal == (bill' = I!Idle \/ bill' \in BillRecord) /\ BillHolds'
           Holds == BillFacts(bill', tasks', stripe', itemOn', invoices', tx')
<1>1. ASSUME bill' = I!Idle PROVE Goal
  BY <1>1 DEF BillHolds, I!Idle
<1>2. ASSUME Holds PROVE Goal
  BY <1>2 DEF BillFacts, BillHolds, DocumentOf
<1>3. bill.pc # "idle" => BillFacts(bill, tasks, stripe, itemOn, invoices, tx)
  BY BillShape DEF HoldsInv, BillHolds, BillFacts, DocumentOf
<1>4. /\ \A i \in Sessions : stripe[i] # None => stripe'[i] # None
      /\ \A s \in Sessions : itemOn[s] # None => itemOn'[s] = itemOn[s]
      /\ \A i \in Sessions : invoices[i] # None => invoices'[i] # None
  BY StripeStep, ItemsStep, InvoicesStep
<1>5. None \notin Sessions
  BY MissingAssumption, SessionsAssumption
<1> HIDE DEF Goal, Holds
<1>6. ASSUME bill' = bill PROVE Goal
  <2>1. CASE bill.pc = "idle"
    BY <1>1, <1>6, <2>1, BillShape DEF HoldsInv
  <2>2. CASE bill.pc # "idle"
    <3>1. bill \in BillRecord /\ bill.s \in Sessions /\ bill.s \in tasks
      BY <1>3, <2>2 DEF BillFacts, BillRecord
    <3>2. bill.s \in tasks'
      <4>1. ~ \E s \in Sessions : I!BillTransactionAsyncTask(s)
        BY <2>2, BillShape DEF I!BillTransactionAsyncTask, HoldsInv
      <4>2. ~I!BillThrows /\ ~I!BillSavesTransaction
        BY <1>6, <2>2 DEF I!BillThrows, I!BillSavesTransaction, I!Idle
      <4>3. \A s \in Sessions : I!EndTransaction(s) => tasks \subseteq tasks'
        BY DEF I!EndTransaction
      <4> QED BY <3>1, <4>1, <4>2, <4>3, Changes
    <3>3. bill.pc \in OnInvoice => bill.i \in Sessions /\ stripe'[bill.i] # None
      BY <1>3, <1>4, <2>2 DEF BillFacts
    <3>4. bill.pc \in OnInvoice \ {"items"} => itemOn'[bill.s] = bill.i
      BY <1>3, <1>4, <1>5, <2>2, <3>1, <3>3 DEF BillFacts
    <3>5. bill.pc = "saveInvoice" =>
            /\ DocumentAt(bill.i, bill.doc, stripe', itemOn', tx')
            /\ Refreshed(bill.read, bill.doc)
            /\ bill.read # None => invoices'[bill.i] # None
                                   /\ DocumentAt(bill.i, bill.read, stripe', itemOn', tx')
      BY <1>3, <1>4, <2>2, <3>3, DocumentsStay DEF BillFacts, DocumentOf, OnInvoice
    <3> QED BY <1>2, <1>3, <1>6, <2>2, <3>1, <3>2, <3>3, <3>4, <3>5 DEF BillFacts, Holds
  <2> QED BY <2>1, <2>2
<1>7. ASSUME NEW s \in Sessions, I!BillTransactionAsyncTask(s), bill' # bill PROVE Goal
  <2>1. /\ bill' = [pc |-> "invoice", s |-> s, was |-> tx[s], data |-> tx[s],
                    now |-> settings.immediate, i |-> None, read |-> None, doc |-> None]
        /\ tasks' = tasks /\ s \in tasks /\ tx[s].status = "PENDING"
    BY <1>7 DEF I!BillTransactionAsyncTask
  <2>2. tx[s] \in I!BillingData /\ settings.immediate \in BOOLEAN
    BY DEF HoldsInv, InvoicesTyped, I!TypeOK
  <2>3. Holds
    BY <2>1, <2>2 DEF Holds, BillFacts, BillRecord, OnInvoice
  <2> QED BY <1>2, <2>3
<1>8. ASSUME I!BillFails PROVE Goal
  <2>1. bill.pc # "idle" /\ tasks' = tasks
    BY <1>8, Footprints DEF I!BillFails
  <2>2. PICK data : data = [bill.data EXCEPT !.status = "FAILED"]
    OBVIOUS
  <2>3. bill \in BillRecord /\ bill.s \in tasks /\ bill' = [bill EXCEPT !.pc = "saveTx", !.data = data]
    BY <1>3, <1>8, <2>1, <2>2 DEF I!BillFails, BillFacts
  <2>4. data \in I!BillingData /\ data.status = "FAILED"
    BY <2>2, <2>3 DEF BillRecord, I!BillingData
  <2>5. Holds
    BY <2>1, <2>3, <2>4 DEF Holds, BillFacts, BillRecord, OnInvoice
  <2> QED BY <1>2, <2>5
<1>9. ASSUME I!ChooseInvoice PROVE Goal
  <2>1. bill.pc = "invoice" /\ tasks' = tasks /\ invoices' = invoices
    BY <1>9, Footprints DEF I!ChooseInvoice
  <2>2. bill \in BillRecord /\ bill.s \in tasks /\ bill.s \in Sessions /\ bill.data.status # "BILLED"
    BY <1>3, <2>1 DEF BillFacts, BillRecord
  <2>3. \E i \in Sessions : bill' = [bill EXCEPT !.pc = "items", !.i = i] /\ stripe'[i] # None
    <3>1. CASE stripe' = stripe /\ \E i \in I!DraftsOfTheMonth : bill' = [bill EXCEPT !.pc = "items", !.i = i]
      BY <3>1 DEF I!DraftsOfTheMonth
    <3>2. CASE stripe' = I!CreateStripeInvoice(bill.s) /\ bill' = [bill EXCEPT !.pc = "items", !.i = bill.s]
      <4>1. stripe \in [Sessions -> Invoices \cup {None}] /\ day \in 0 .. MaxDay
        BY DEF HoldsInv, InvoicesTyped, I!TypeOK, Invoices
      <4>2. [status |-> "draft", on |-> day] # None
        BY <4>1, MissingAssumption, InvoicingAssumption DEF I!InvoiceStatus
      <4>3. stripe'[bill.s] # None
        BY <2>2, <3>2, <4>1, <4>2 DEF I!CreateStripeInvoice
      <4> QED BY <2>2, <3>2, <4>3
    <3> QED BY <1>9, <3>1, <3>2 DEF I!ChooseInvoice
  <2>4. Holds
    BY <2>1, <2>2, <2>3 DEF Holds, BillFacts, BillRecord, OnInvoice
  <2> QED BY <1>2, <2>4
<1>10. ASSUME I!CreateStripeInvoiceItems PROVE Goal
  <2>1. bill.pc = "items" /\ tasks' = tasks /\ stripe' = stripe
    BY <1>10, Footprints DEF I!CreateStripeInvoiceItems
  <2>2. /\ bill \in BillRecord /\ bill.s \in tasks /\ bill.s \in Sessions /\ bill.data.status # "BILLED"
        /\ bill.i \in Sessions /\ stripe[bill.i] # None
    BY <1>3, <2>1 DEF BillFacts, BillRecord, OnInvoice
  <2>3. CASE itemOn' = [itemOn EXCEPT ![bill.s] = bill.i]
             /\ bill' = [bill EXCEPT !.pc = IF bill.now THEN "charge" ELSE "refresh"]
    <3>1. itemOn \in [Sessions -> Sessions \cup {None}]
      BY DEF HoldsInv, InvoicesTyped, I!TypeOK
    <3>2. itemOn'[bill.s] = bill.i
      BY <2>2, <2>3, <3>1
    <3>3. PICK pc \in {"charge", "refresh"} : bill' = [bill EXCEPT !.pc = pc]
      BY <2>3
    <3>4. Holds
      BY <2>1, <2>2, <3>2, <3>3 DEF Holds, BillFacts, BillRecord, OnInvoice
    <3> QED BY <1>2, <3>4
  <2>4. CASE bill' = [bill EXCEPT !.pc = "saveTx", !.data.status = "FAILED"]
    <3>1. PICK data : data = [bill.data EXCEPT !.status = "FAILED"]
      OBVIOUS
    <3>2. bill' = [bill EXCEPT !.pc = "saveTx", !.data = data]
      BY <2>4, <3>1
    <3>3. data \in I!BillingData /\ data.status = "FAILED"
      BY <2>2, <3>1 DEF BillRecord, I!BillingData
    <3>4. Holds
      BY <2>1, <2>2, <3>2, <3>3 DEF Holds, BillFacts, BillRecord, OnInvoice
    <3> QED BY <1>2, <3>4
  <2> QED BY <1>10, <2>3, <2>4 DEF I!CreateStripeInvoiceItems
<1>11. ASSUME I!ChargeImmediately PROVE Goal
  <2>1. bill.pc = "charge" /\ tasks' = tasks /\ itemOn' = itemOn /\ bill' = [bill EXCEPT !.pc = "refresh"]
    BY <1>11, Footprints DEF I!ChargeImmediately
  <2>2. /\ bill \in BillRecord /\ bill.s \in tasks /\ bill.data.status # "BILLED"
        /\ bill.i \in Sessions /\ stripe'[bill.i] # None /\ itemOn[bill.s] = bill.i
    BY <1>3, <1>4, <2>1 DEF BillFacts, BillRecord, OnInvoice
  <2>3. Holds
    BY <2>1, <2>2 DEF Holds, BillFacts, BillRecord, OnInvoice
  <2> QED BY <1>2, <2>3
<1>12. ASSUME I!Refresh PROVE Goal
  <2>1. /\ bill.pc = "refresh" /\ tasks' = tasks /\ itemOn' = itemOn /\ stripe' = stripe
        /\ invoices' = invoices /\ tx' = tx
        /\ bill' = [bill EXCEPT !.pc = "saveInvoice", !.read = invoices[bill.i],
                                !.doc = I!ConvertToBillingInvoice(bill.i)]
    BY <1>12, Footprints DEF I!Refresh
  <2>2. /\ bill \in BillRecord /\ bill.s \in tasks /\ bill.data.status # "BILLED"
        /\ bill.i \in Sessions /\ stripe[bill.i] # None /\ itemOn[bill.s] = bill.i
    BY <1>3, <2>1 DEF BillFacts, BillRecord, OnInvoice
  <2>3. PICK read, doc : read = invoices[bill.i] /\ doc = I!ConvertToBillingInvoice(bill.i)
    OBVIOUS
  <2>4. /\ doc \in I!Invoice /\ DocumentOf(bill.i, doc) /\ Refreshed(read, doc)
        /\ read \in I!Invoice \cup {None}
        /\ read # None => DocumentOf(bill.i, read) /\ invoices[bill.i] # None
    BY <2>2, <2>3, ConvertFacts DEF HoldsInv, StoredDocuments, InvoicesTyped, I!TypeOK
  <2>5. bill' = [bill EXCEPT !.pc = "saveInvoice", !.read = read, !.doc = doc]
    BY <2>1, <2>3
  <2>6. /\ bill' \in BillRecord /\ bill'.pc = "saveInvoice" /\ bill'.read = read /\ bill'.doc = doc
        /\ bill'.i = bill.i /\ bill'.s = bill.s /\ bill'.data = bill.data
    BY <2>2, <2>4, <2>5 DEF BillRecord, OnInvoice
  <2>7. Holds
    BY <2>1, <2>2, <2>4, <2>6 DEF Holds, BillFacts, DocumentOf
  <2> QED BY <1>2, <2>7
<1>13. ASSUME I!BillSavesInvoice PROVE Goal
  <2>1. /\ bill.pc = "saveInvoice" /\ tasks' = tasks
        /\ bill' = [bill EXCEPT !.pc = "saveTx", !.read = None, !.doc = None,
                      !.data = [status |-> "BILLED", invoice |-> bill.i, shown |-> bill.doc.status]]
    BY <1>13, Footprints DEF I!BillSavesInvoice
  <2>2. bill \in BillRecord /\ bill.s \in tasks /\ bill.i \in Sessions /\ bill.doc \in I!Invoice
    BY <1>3, <2>1 DEF BillFacts, BillRecord, OnInvoice, DocumentAt
  <2>3. PICK data : data = [status |-> "BILLED", invoice |-> bill.i, shown |-> bill.doc.status]
    OBVIOUS
  <2>4. data \in I!BillingData /\ data.status = "BILLED"
    BY <2>2, <2>3 DEF I!BillingData, I!Invoice
  <2>5. bill' = [bill EXCEPT !.pc = "saveTx", !.read = None, !.doc = None, !.data = data]
    BY <2>1, <2>3
  <2>6. Holds
    BY <2>1, <2>2, <2>4, <2>5 DEF Holds, BillFacts, BillRecord, OnInvoice
  <2> QED BY <1>2, <2>6
<1>14. I!BillThrows \/ I!BillSavesTransaction \/ I!Crash => bill' = I!Idle \/ bill' = bill
  <2>1. I!BillThrows \/ I!BillSavesTransaction => bill' = I!Idle
    BY DEF I!BillThrows, I!BillSavesTransaction
  <2>2. I!Crash => bill' = I!Idle \/ UNCHANGED bill
    BY Zenon DEF I!Crash
  <2> QED BY <2>1, <2>2
<1>15. ASSUME bill' = bill \/ bill' = I!Idle PROVE Goal
  BY <1>1, <1>6, <1>15
<1>16. bill' = bill \/ I!Bill \/ I!Crash
  BY Changes
<1> QED BY <1>7, <1>8, <1>9, <1>10, <1>11, <1>12, <1>13, <1>14, <1>15, <1>16 DEF I!Bill, Goal

\* What is said of a run of the periodic operation.
ChargeTyped(c) ==
  \/ c.pc = "writeTx" /\ c \in ChargeRecord([Sessions -> I!BillingData])
  \/ c.pc # "writeTx" /\ c \in ChargeRecord(I!Invoice \cup {None})

ChargeFacts(c, atStripe, onInvoice, docs, data) ==
  /\ \A i \in c.page : docs[i] # None
  /\ c.pc \in Handling => c.i \in c.page
  /\ c.pc \notin Handling => c.i = None
  /\ c.pc \in {"save", "readTx", "writeTx"} => DocumentAt(c.i, c.doc, atStripe, onInvoice, data)
  /\ c.pc = "save" => DocumentAt(c.i, c.read, atStripe, onInvoice, data) /\ Refreshed(c.read, c.doc)
  /\ c.pc = "writeTx" =>
       \A s \in Sessions :
         /\ c.doc.sessions[s] > 0 => c.read[s].status # "none"
         /\ c.read[s].status = "UNBILLED" => data[s].status = "UNBILLED"

\* The invoices of a page are stored ones of the user.
LEMMA PageFacts ==
  ASSUME NEW c, NEW from
  PROVE  I!GetInvoices(c, from) \subseteq {i \in Sessions : I!Match(c, i)}
  BY DEF I!GetInvoices

LEMMA ChargeStep ==
  ASSUME HoldsInv, InvoicingStep
  PROVE  /\ charge' = I!Idle \/ ChargeTyped(charge')
         /\ ChargeHolds'
<1> DEFINE Goal == (charge' = I!Idle \/ ChargeTyped(charge')) /\ ChargeHolds'
           Holds == ChargeTyped(charge') /\ ChargeFacts(charge', stripe', itemOn', invoices', tx')
<1>1. ASSUME charge' = I!Idle PROVE Goal
  BY <1>1 DEF ChargeHolds, I!Idle
<1>2. ASSUME Holds PROVE Goal
  BY <1>2 DEF ChargeFacts, ChargeHolds, DocumentOf
<1>3. charge.pc # "idle" => ChargeTyped(charge) /\ ChargeFacts(charge, stripe, itemOn, invoices, tx)
  BY ChargeShape DEF HoldsInv, ChargeHolds, ChargeFacts, ChargeTyped, DocumentOf
<1>4. /\ \A i \in Sessions : stripe[i] # None => stripe'[i] # None
      /\ \A i \in Sessions : invoices[i] # None => invoices'[i] # None
  BY StripeStep, InvoicesStep
<1>5. None \notin Sessions /\ None \notin I!Invoice
  BY MissingAssumption, SessionsAssumption
<1>6. charge.pc # "idle" =>
        /\ charge.page \in SUBSET Sessions /\ charge.seen \in [Sessions -> Nat] /\ charge.skip \in Int
        /\ charge.scope \in SUBSET Sessions /\ charge.window \in SUBSET Nat /\ charge.unpaid \in BOOLEAN
  BY ChargeShape DEF HoldsInv, ChargeRecord
<1> HIDE DEF Goal, Holds
<1>7. ASSUME charge' = charge PROVE Goal
  <2>1. CASE charge.pc = "idle"
    BY <1>1, <1>7, <2>1, ChargeShape DEF HoldsInv
  <2>2. CASE charge.pc # "idle"
    <3>1. charge.pc \in Handling => charge.i \in Sessions
      BY <1>3, <1>6, <2>2 DEF ChargeFacts
    <3>2. charge.pc \in {"save", "readTx", "writeTx"} =>
            DocumentAt(charge.i, charge.doc, stripe', itemOn', tx')
      BY <1>3, <2>2, <3>1, DocumentsStay DEF ChargeFacts, DocumentOf, Handling
    <3>3. charge.pc = "save" => DocumentAt(charge.i, charge.read, stripe', itemOn', tx')
      BY <1>3, <2>2, <3>1, DocumentsStay DEF ChargeFacts, DocumentOf, Handling
    <3>4. \A i \in charge.page : invoices'[i] # None
      BY <1>3, <1>4, <1>6, <2>2 DEF ChargeFacts
    <3>5. charge.pc = "writeTx" =>
            \A s \in Sessions : charge.read[s].status = "UNBILLED" => tx'[s].status = "UNBILLED"
      <4>1. charge.pc = "writeTx" => ~I!UpdateTransactionsBillingData
        <5> SUFFICES ASSUME charge.pc = "writeTx", I!UpdateTransactionsBillingData PROVE FALSE
          OBVIOUS
        <5>1. charge'.pc = "page"
          <6>1. charge \in ChargeRecord(AnyRead)
            BY ChargeShape DEF HoldsInv
          <6>2. PICK page, skip : charge' = [charge EXCEPT !.pc = "page", !.page = page, !.i = None,
                                    !.read = None, !.doc = None, !.skip = skip]
            BY DEF I!UpdateTransactionsBillingData
          <6> QED BY <6>1, <6>2 DEF ChargeRecord
        <5> QED BY <1>7, <5>1
      <4> QED BY <1>3, <2>2, <4>1, TxStep DEF ChargeFacts
    <3> QED BY <1>2, <1>3, <1>7, <2>2, <3>2, <3>3, <3>4, <3>5 DEF ChargeFacts, Holds
  <2> QED BY <2>1, <2>2
<1>8. ASSUME NEW unpaid \in BOOLEAN, I!ChargeInvoices(unpaid) PROVE Goal
  <2>1. PICK window, scope :
          /\ window = IF unpaid THEN I!RetryWindow ELSE I!PeriodicWindow
          /\ scope = {i \in Sessions : I!Match([pc |-> "page", unpaid |-> unpaid, window |-> window,
                 skip |-> 0, page |-> {}, i |-> None, read |-> None, doc |-> None,
                 scope |-> {}, seen |-> [j \in Sessions |-> 0]], i)}
    OBVIOUS
  <2>2. charge' = [pc |-> "page", unpaid |-> unpaid, window |-> window,
                   skip |-> 0, page |-> {}, i |-> None, read |-> None, doc |-> None,
                   scope |-> scope, seen |-> [i \in Sessions |-> 0]]
    BY <1>8, <2>1 DEF I!ChargeInvoices
  <2>3. window \in SUBSET Nat /\ scope \in SUBSET Sessions
    <3>1. 0 .. day \subseteq Nat
      BY DEF HoldsInv, InvoicesTyped, I!TypeOK
    <3> QED BY <2>1, <3>1 DEF I!RetryWindow, I!PeriodicWindow
  <2>4. [i \in Sessions |-> 0] \in [Sessions -> Nat]
    OBVIOUS
  <2>5. /\ charge' \in ChargeRecord(I!Invoice \cup {None}) /\ charge'.pc = "page"
        /\ charge'.page = {} /\ charge'.i = None
    BY <2>2, <2>3, <2>4 DEF ChargeRecord, Handling
  <2>6. Holds
    BY <2>5 DEF Holds, ChargeTyped, ChargeFacts, Handling
  <2> QED BY <1>2, <2>6
<1>9. ASSUME I!ReadPage PROVE Goal
  <2>1. PICK page : page = I!GetInvoices(charge, charge.skip)
    OBVIOUS
  <2>2. /\ charge.pc = "page"
        /\ charge' = IF page = {} THEN [charge EXCEPT !.pc = "end"]
                     ELSE [charge EXCEPT !.page = page, !.skip = charge.skip + PageSize]
    BY <1>9, <2>1 DEF I!ReadPage
  <2>3. page \in SUBSET Sessions /\ \A i \in page : invoices[i] # None
    BY <2>1, PageFacts DEF I!Match
  <2>4. charge \in ChargeRecord(I!Invoice \cup {None}) /\ charge.i = None /\ invoices' = invoices
    BY <1>9, <2>2, ChargeShape, Footprints DEF HoldsInv, ChargeHolds, Handling
  <2>5. PageSize \in Int /\ charge.skip + PageSize \in Int
    BY <1>6, <2>2, InvoicingAssumption
  <2>6. /\ charge' \in ChargeRecord(I!Invoice \cup {None}) /\ charge'.pc \in {"page", "end"}
        /\ charge'.page \in {page, charge.page} /\ charge'.i = None
    BY <2>2, <2>3, <2>4, <2>5 DEF ChargeRecord, Handling
  <2>7. \A i \in charge.page : invoices[i] # None
    BY <1>3, <2>2 DEF ChargeFacts
  <2>8. Holds
    BY <2>3, <2>4, <2>6, <2>7 DEF Holds, ChargeTyped, ChargeFacts, Handling
  <2> QED BY <1>2, <2>8
<1>10. ASSUME NEW i \in Sessions, I!ChargeInvoice(i) PROVE Goal
  <2>1. PICK seen : seen = [charge.seen EXCEPT ![i] = charge.seen[i] + 1]
    OBVIOUS
  <2>2. /\ charge.pc = "page" /\ i \in charge.page /\ invoices' = invoices
        /\ charge' = [charge EXCEPT !.pc = "sync", !.i = i, !.seen = seen]
    BY <1>10, <2>1, Footprints DEF I!ChargeInvoice, I!IsNext
  <2>3. seen \in [Sessions -> Nat] /\ charge \in ChargeRecord(I!Invoice \cup {None})
    BY <1>6, <2>1, <2>2, ChargeShape DEF HoldsInv
  <2>4. /\ charge' \in ChargeRecord(I!Invoice \cup {None}) /\ charge'.pc = "sync"
        /\ charge'.page = charge.page /\ charge'.i = i
    BY <2>2, <2>3 DEF ChargeRecord, Handling
  <2>5. Holds
    BY <1>3, <2>2, <2>4 DEF Holds, ChargeTyped, ChargeFacts, Handling
  <2> QED BY <1>2, <2>5
<1>11. ASSUME NEW i \in Sessions, I!ChargeFails(i) PROVE Goal
  <2>1. PICK seen, page :
          seen \in {charge.seen, [charge.seen EXCEPT ![i] = charge.seen[i] + 1]} /\ page = charge.page \ {i}
          /\ charge' = [charge EXCEPT !.pc = "page", !.page = page, !.i = None, !.seen = seen]
    <3>1. CASE charge.pc = "page" /\ charge' = [charge EXCEPT !.page = @ \ {i}, !.seen[i] = @ + 1]
      <4>1. charge \in ChargeRecord(I!Invoice \cup {None}) /\ charge.i = None
        BY <3>1, ChargeShape DEF HoldsInv, ChargeHolds, Handling
      <4>2. PICK seen : seen = [charge.seen EXCEPT ![i] = charge.seen[i] + 1]
        OBVIOUS
      <4>3. PICK page : page = charge.page \ {i}
        OBVIOUS
      <4>4. charge' = [charge EXCEPT !.page = page, !.seen = seen]
        BY <3>1, <4>2, <4>3
      <4>5. charge' = [charge EXCEPT !.pc = "page", !.page = page, !.i = None, !.seen = seen]
        BY <3>1, <4>1, <4>4 DEF ChargeRecord
      <4> QED BY <4>2, <4>3, <4>5
    <3>2. CASE charge.pc = "sync" /\ charge' = [charge EXCEPT !.pc = "page", !.page = @ \ {i}, !.i = None]
      <4>1. charge \in ChargeRecord(I!Invoice \cup {None})
        BY <3>2, ChargeShape DEF HoldsInv
      <4>2. PICK page : page = charge.page \ {i}
        OBVIOUS
      <4>3. charge' = [charge EXCEPT !.pc = "page", !.page = page, !.i = None, !.seen = charge.seen]
        BY <3>2, <4>1, <4>2 DEF ChargeRecord
      <4> QED BY <4>2, <4>3
    <3> QED BY <1>11, <3>1, <3>2 DEF I!ChargeFails
  <2>2. charge.pc \in {"page", "sync"} /\ invoices' = invoices
    BY <1>11, Footprints DEF I!ChargeFails
  <2>3. /\ charge \in ChargeRecord(I!Invoice \cup {None})
        /\ seen \in [Sessions -> Nat] /\ page \in SUBSET Sessions /\ page \subseteq charge.page
    BY <1>6, <2>1, <2>2, ChargeShape DEF HoldsInv
  <2>4. /\ charge' \in ChargeRecord(I!Invoice \cup {None}) /\ charge'.pc = "page"
        /\ charge'.page = page /\ charge'.i = None
    BY <2>1, <2>3 DEF ChargeRecord, Handling
  <2>5. Holds
    BY <1>3, <2>2, <2>3, <2>4 DEF Holds, ChargeTyped, ChargeFacts, Handling
  <2> QED BY <1>2, <2>5
<1>12. ASSUME I!Sync PROVE Goal
  <2>1. PICK read, doc : read = invoices[charge.i] /\ doc = I!ConvertToBillingInvoice(charge.i)
    OBVIOUS
  <2>2. /\ charge.pc = "sync" /\ invoices' = invoices /\ stripe' = stripe /\ itemOn' = itemOn /\ tx' = tx
        /\ charge' = [charge EXCEPT !.pc = "save", !.read = read, !.doc = doc]
    BY <1>12, <2>1, Footprints DEF I!Sync
  <2>3. /\ charge \in ChargeRecord(I!Invoice \cup {None}) /\ charge.i \in charge.page
        /\ charge.i \in Sessions /\ invoices[charge.i] # None
    BY <1>3, <1>6, <2>2, ChargeShape DEF HoldsInv, ChargeFacts, Handling
  <2>4. DocumentOf(charge.i, read) /\ read \in I!Invoice /\ stripe[charge.i] # None
    BY <2>1, <2>3 DEF HoldsInv, StoredDocuments, DocumentOf, DocumentAt, FromStripe
  <2>5. DocumentOf(charge.i, doc) /\ doc \in I!Invoice /\ Refreshed(read, doc)
    BY <2>1, <2>3, <2>4, ConvertFacts
  <2>6. /\ charge' \in ChargeRecord(I!Invoice \cup {None}) /\ charge'.pc = "save"
        /\ charge'.page = charge.page /\ charge'.i = charge.i /\ charge'.read = read /\ charge'.doc = doc
    BY <2>2, <2>3, <2>4, <2>5 DEF ChargeRecord, Handling
  <2>7. Holds
    BY <1>3, <2>2, <2>3, <2>4, <2>5, <2>6 DEF Holds, ChargeTyped, ChargeFacts, Handling, DocumentOf
  <2> QED BY <1>2, <2>7
<1>13. ASSUME I!ChargeSavesInvoice PROVE Goal
  <2>1. /\ charge.pc = "save" /\ stripe' = stripe /\ itemOn' = itemOn /\ tx' = tx
        /\ charge' = [charge EXCEPT !.pc = "readTx", !.read = None]
    BY <1>13, Footprints DEF I!ChargeSavesInvoice
  <2>2. /\ charge \in ChargeRecord(I!Invoice \cup {None}) /\ charge.i \in charge.page
        /\ \A i \in charge.page : invoices'[i] # None
        /\ DocumentOf(charge.i, charge.doc)
    BY <1>3, <1>4, <1>6, <2>1, ChargeShape DEF HoldsInv, ChargeHolds, ChargeFacts, Handling
  <2>3. /\ charge' \in ChargeRecord(I!Invoice \cup {None}) /\ charge'.pc = "readTx"
        /\ charge'.page = charge.page /\ charge'.i = charge.i /\ charge'.doc = charge.doc
    BY <2>1, <2>2 DEF ChargeRecord, Handling
  <2>4. Holds
    BY <2>1, <2>2, <2>3 DEF Holds, ChargeTyped, ChargeFacts, Handling, DocumentOf
  <2> QED BY <1>2, <2>4
<1>14. ASSUME I!ReadTransactions PROVE Goal
  <2>1. /\ charge.pc = "readTx" /\ stripe' = stripe /\ itemOn' = itemOn /\ tx' = tx /\ invoices' = invoices
        /\ charge' = [charge EXCEPT !.pc = "writeTx", !.read = tx]
    BY <1>14, Footprints DEF I!ReadTransactions
  <2>2. /\ charge \in ChargeRecord(I!Invoice \cup {None}) /\ charge.i \in charge.page
        /\ DocumentOf(charge.i, charge.doc) /\ tx \in [Sessions -> I!BillingData]
    BY <1>3, <2>1, ChargeShape DEF HoldsInv, ChargeHolds, ChargeFacts, Handling, InvoicesTyped, I!TypeOK
  <2>3. /\ charge' \in ChargeRecord([Sessions -> I!BillingData]) /\ charge'.pc = "writeTx"
        /\ charge'.page = charge.page /\ charge'.i = charge.i /\ charge'.doc = charge.doc
        /\ charge'.read = tx
    BY <2>1, <2>2 DEF ChargeRecord, Handling
  <2>4. \A s \in Sessions : charge.doc.sessions[s] > 0 => tx[s].status # "none"
    BY <2>2 DEF DocumentOf, DocumentAt
  <2>5. Holds
    BY <1>3, <2>1, <2>2, <2>3, <2>4 DEF Holds, ChargeTyped, ChargeFacts, Handling, DocumentOf
  <2> QED BY <1>2, <2>5
<1>15. ASSUME I!UpdateTransactionsBillingData PROVE Goal
  <2>1. PICK page, skip : page = charge.page \ {charge.i} /\ skip = charge.skip - I!OutOfScope(charge)
    OBVIOUS
  <2>2. /\ charge.pc = "writeTx" /\ invoices' = invoices
        /\ charge' = [charge EXCEPT !.pc = "page", !.page = page, !.i = None, !.read = None, !.doc = None,
                                    !.skip = skip]
    BY <1>15, <2>1, Footprints DEF I!UpdateTransactionsBillingData
  <2>3. /\ charge \in ChargeRecord([Sessions -> I!BillingData]) /\ page \in SUBSET Sessions
        /\ page \subseteq charge.page /\ skip \in Int
    BY <1>6, <2>1, <2>2, ChargeShape DEF HoldsInv, I!OutOfScope
  <2>4. /\ charge' \in ChargeRecord(I!Invoice \cup {None}) /\ charge'.pc = "page"
        /\ charge'.page = page /\ charge'.i = None
    BY <2>2, <2>3 DEF ChargeRecord, Handling
  <2>5. Holds
    BY <1>3, <2>2, <2>3, <2>4 DEF Holds, ChargeTyped, ChargeFacts, Handling
  <2> QED BY <1>2, <2>5
<1>16. ASSUME I!ChargeEnds \/ I!Crash PROVE Goal
  <2>1. I!ChargeEnds => charge' = I!Idle
    BY DEF I!ChargeEnds
  <2>2. I!Crash => charge' = I!Idle \/ UNCHANGED charge
    BY Zenon DEF I!Crash
  <2> QED BY <1>1, <1>7, <1>16, <2>1, <2>2
<1>17. Goal
  BY <1>7, <1>8, <1>9, <1>10, <1>11, <1>12, <1>13, <1>14, <1>15, <1>16, Changes DEF I!Charge
<1> QED BY <1>17 DEF Goal

LEMMA HoldsPreserved ==
  ASSUME HoldsInv, InvoicingStep
  PROVE  HoldsInv'
<1>1. I!TypeOK'
  <2>1. day' \in 0 .. MaxDay
    <3>1. day \in 0 .. MaxDay /\ MaxDay \in Nat
      BY InvoicingAssumption DEF HoldsInv, InvoicesTyped, I!TypeOK
    <3>2. day' = day \/ (day < MaxDay /\ day' = day + 1)
      BY Changes DEF I!Tick
    <3> QED BY <3>1, <3>2
  <2>2. settings' \in [activated : BOOLEAN, immediate : BOOLEAN, periodic : BOOLEAN]
    BY Changes DEF I!UpdateBillingSetting, HoldsInv, InvoicesTyped, I!TypeOK
  <2>3. stripe' \in [Sessions -> [status : I!InvoiceStatus, on : 0 .. MaxDay] \cup {None}]
    BY StripeStep DEF Invoices
  <2> QED BY <2>1, <2>2, <2>3, ItemsStep, TxStep, InvoicesStep DEF I!TypeOK
<1>2. InvoicesTyped'
  BY <1>1, BillStep, ChargeStep DEF InvoicesTyped, ChargeTyped
<1> QED BY <1>2, TxStep, InvoicesStep, BillStep, ChargeStep DEF HoldsInv

-----------------------------------------------------------------------------
(* What a session shows, and what is stored of it. *)

\* The data of a session that is billed: its invoice is stored and lists it.
InvoicedAs(s, data, onInvoice, docs, over) ==
  data.status = "BILLED" =>
    /\ data.invoice \in Sessions /\ onInvoice[s] = data.invoice
    /\ docs[data.invoice] # None
    /\ docs[data.invoice].sessions[s] > 0 \/ <<"invoice", data.invoice>> \in over

InvoicedNow(s, data) == InvoicedAs(s, data, itemOn, invoices, stale)

InvoicedInv ==
  /\ \A s \in Sessions : InvoicedNow(s, tx[s])
  /\ bill.pc # "idle" => InvoicedNow(bill.s, bill.data)
  /\ charge.pc = "writeTx" => \A s \in Sessions : InvoicedNow(s, charge.read[s])

\* What the histories say is never taken back.
LEMMA HistoryStays ==
  ASSUME InvoicingStep
  PROVE  stale \subseteq stale' /\ interrupted \subseteq interrupted'
<1>1. stale \subseteq stale'
  <2>1. I!BillSavesInvoice \/ I!ChargeSavesInvoice => stale \subseteq stale'
    BY DEF I!BillSavesInvoice, I!ChargeSavesInvoice, I!SaveInvoice
  <2>2. I!BillSavesTransaction => stale \subseteq stale'
    BY DEF I!BillSavesTransaction
  <2>3. I!UpdateTransactionsBillingData => stale \subseteq stale'
    BY DEF I!UpdateTransactionsBillingData
  <2> QED BY <2>1, <2>2, <2>3, Changes
<1>2. interrupted \subseteq interrupted'
  <2>1. I!Crash => interrupted \subseteq interrupted'
    BY DEF I!Crash
  <2>2. I!BillThrows => interrupted \subseteq interrupted'
    BY DEF I!BillThrows
  <2>3. \A i \in Sessions : I!ChargeFails(i) => interrupted \subseteq interrupted'
    BY DEF I!ChargeFails
  <2> QED BY <2>1, <2>2, <2>3, Changes
<1> QED BY <1>1, <1>2

\* A worker writes an invoice over the document that it read, or the history
\* says that it did not.
LEMMA SavedOver ==
  ASSUME HoldsInv
  PROVE  /\ I!BillSavesInvoice /\ <<"invoice", bill.i>> \notin stale' =>
              /\ invoices[bill.i] = bill.read
              /\ bill.read # None => bill.read.status = bill.doc.status /\ bill.read.on = bill.doc.on
                                     /\ bill.doc.sessions = bill.read.sessions
         /\ I!ChargeSavesInvoice /\ <<"invoice", charge.i>> \notin stale' =>
              /\ invoices[charge.i] = charge.read
              /\ charge.doc.sessions = charge.read.sessions
              /\ charge.doc.status = charge.read.status => charge.doc.on = charge.read.on
<1>1. ASSUME I!BillSavesInvoice, <<"invoice", bill.i>> \notin stale'
      PROVE  /\ invoices[bill.i] = bill.read
             /\ bill.read # None => bill.read.status = bill.doc.status /\ bill.read.on = bill.doc.on
                                    /\ bill.doc.sessions = bill.read.sessions
  <2>1. /\ bill.pc = "saveInvoice" /\ invoices[bill.i] = bill.read
        /\ bill.read # None => bill.read.status = bill.doc.status
    BY <1>1 DEF I!BillSavesInvoice, I!SaveInvoice
  <2>2. Refreshed(bill.read, bill.doc)
    BY <2>1 DEF HoldsInv, BillHolds
  <2> QED BY <2>1, <2>2 DEF Refreshed
<1>2. ASSUME I!ChargeSavesInvoice, <<"invoice", charge.i>> \notin stale'
      PROVE  /\ invoices[charge.i] = charge.read
             /\ charge.doc.sessions = charge.read.sessions
             /\ charge.doc.status = charge.read.status => charge.doc.on = charge.read.on
  <2>1. charge.pc = "save" /\ invoices[charge.i] = charge.read
    BY <1>2 DEF I!ChargeSavesInvoice, I!SaveInvoice
  <2>2. Refreshed(charge.read, charge.doc) /\ charge.read # None
    BY <1>2, <2>1, InvoiceSaved, MissingAssumption DEF HoldsInv, ChargeHolds
  <2> QED BY <2>1, <2>2 DEF Refreshed
<1> QED BY <1>1, <1>2

\* A session stays on a stored invoice that lists it.
LEMMA ListedStays ==
  ASSUME HoldsInv, InvoicingStep, NEW i \in Sessions, NEW s \in Sessions,
         invoices[i] # None, invoices[i].sessions[s] > 0
  PROVE  invoices'[i].sessions[s] > 0 \/ <<"invoice", i>> \in stale'
<1> SUFFICES ASSUME <<"invoice", i>> \notin stale' PROVE invoices'[i].sessions[s] > 0
  OBVIOUS
<1>1. invoices \in [Sessions -> I!Invoice \cup {None}] /\ None \notin I!Invoice
  BY MissingAssumption DEF HoldsInv, InvoicesTyped, I!TypeOK
<1>2. CASE I!BillSavesInvoice
  <2>1. /\ bill.i \in Sessions /\ bill.s \in Sessions /\ bill.doc \in I!Invoice
        /\ invoices' = [invoices EXCEPT ![bill.i] = I!EnrichInvoice(bill.doc, bill.s)]
    BY <1>2, InvoiceSaved
  <2>2. CASE bill.i = i
    <3>1. bill.doc.sessions = invoices[i].sessions
      BY <1>2, <2>2, SavedOver
    <3>2. invoices'[i] = I!EnrichInvoice(bill.doc, bill.s)
      BY <1>1, <2>1, <2>2
    <3>3. bill.doc.sessions \in [Sessions -> Nat]
      BY <2>1 DEF I!Invoice
    <3>4. invoices'[i].sessions[s] = IF s = bill.s THEN bill.doc.sessions[s] + 1 ELSE bill.doc.sessions[s]
      <4>1. \A r \in Sessions : I!EnrichInvoice(bill.doc, bill.s).sessions[r] =
                                IF r = bill.s THEN bill.doc.sessions[r] + 1 ELSE bill.doc.sessions[r]
        BY <2>1, EnrichedFacts
      <4> QED BY <3>2, <4>1
    <3>5. bill.doc.sessions[s] > 0 /\ bill.doc.sessions[s] \in Nat
      BY <3>1, <3>3
    <3> QED BY <3>4, <3>5
  <2> QED BY <1>1, <2>1, <2>2
<1>3. CASE I!ChargeSavesInvoice
  <2>1. charge.i \in Sessions /\ invoices' = [invoices EXCEPT ![charge.i] = charge.doc]
    BY <1>3, InvoiceSaved
  <2>2. charge.i = i => charge.doc.sessions = invoices[i].sessions
    BY <1>3, SavedOver
  <2> QED BY <1>1, <2>1, <2>2
<1> QED BY <1>2, <1>3, Changes

LEMMA InvoicedStays ==
  ASSUME HoldsInv, InvoicingStep
  PROVE  \A s \in Sessions : \A data :
           InvoicedNow(s, data) => InvoicedAs(s, data, itemOn', invoices', stale')
<1> SUFFICES ASSUME NEW s \in Sessions, NEW data, InvoicedNow(s, data), data.status = "BILLED"
             PROVE  InvoicedAs(s, data, itemOn', invoices', stale')
  BY DEF InvoicedAs
<1>1. /\ data.invoice \in Sessions /\ itemOn[s] = data.invoice
      /\ invoices[data.invoice] # None
      /\ invoices[data.invoice].sessions[s] > 0 \/ <<"invoice", data.invoice>> \in stale
  BY DEF InvoicedNow, InvoicedAs
<1>2. itemOn'[s] = data.invoice
  BY <1>1, ItemsStep, MissingAssumption, SessionsAssumption
<1>3. invoices'[data.invoice] # None
  BY <1>1, InvoicesStep
<1>4. invoices'[data.invoice].sessions[s] > 0 \/ <<"invoice", data.invoice>> \in stale'
  BY <1>1, ListedStays, HistoryStays
<1> QED BY <1>1, <1>2, <1>3, <1>4 DEF InvoicedAs

\* How the sessions are written.
LEMMA TxSaved ==
  ASSUME HoldsInv
  PROVE  /\ I!BillSavesTransaction =>
              /\ bill \in BillRecord /\ bill.pc = "saveTx" /\ bill.s \in Sessions
              /\ \A s \in Sessions : tx'[s] = IF s = bill.s THEN bill.data ELSE tx[s]
              /\ tx[bill.s] # bill.was => <<"session", bill.s>> \in stale'
         /\ I!UpdateTransactionsBillingData =>
              /\ charge.pc = "writeTx" /\ charge \in ChargeRecord([Sessions -> I!BillingData])
              /\ charge.i \in Sessions /\ charge.doc \in I!Invoice
              /\ invoices[charge.i] # charge.doc => <<"invoice", charge.i>> \in stale'
              /\ \A s \in Sessions :
                   \/ /\ charge.doc.sessions[s] > 0
                      /\ tx'[s] = [charge.read[s] EXCEPT !.shown = charge.doc.status]
                      /\ tx[s] # charge.read[s] => <<"session", s>> \in stale'
                   \/ charge.doc.sessions[s] = 0 /\ tx'[s] = tx[s]
<1>1. tx \in [Sessions -> I!BillingData]
  BY DEF HoldsInv, InvoicesTyped, I!TypeOK
<1>2. ASSUME I!BillSavesTransaction
      PROVE  /\ bill \in BillRecord /\ bill.pc = "saveTx" /\ bill.s \in Sessions
             /\ \A s \in Sessions : tx'[s] = IF s = bill.s THEN bill.data ELSE tx[s]
             /\ tx[bill.s] # bill.was => <<"session", bill.s>> \in stale'
  <2>1. bill.pc = "saveTx" /\ bill \in BillRecord
    BY <1>2, BillShape DEF I!BillSavesTransaction, HoldsInv
  <2>2. tx' = [tx EXCEPT ![bill.s] = bill.data]
        /\ (tx[bill.s] # bill.was => <<"session", bill.s>> \in stale')
    BY <1>2 DEF I!BillSavesTransaction
  <2>3. bill.s \in Sessions
    BY <2>1 DEF BillRecord
  <2> QED BY <1>1, <2>1, <2>2, <2>3
<1>3. ASSUME I!UpdateTransactionsBillingData
      PROVE  /\ charge.pc = "writeTx" /\ charge \in ChargeRecord([Sessions -> I!BillingData])
             /\ charge.i \in Sessions /\ charge.doc \in I!Invoice
             /\ invoices[charge.i] # charge.doc => <<"invoice", charge.i>> \in stale'
             /\ \A s \in Sessions :
                  \/ /\ charge.doc.sessions[s] > 0
                     /\ tx'[s] = [charge.read[s] EXCEPT !.shown = charge.doc.status]
                     /\ tx[s] # charge.read[s] => <<"session", s>> \in stale'
                  \/ charge.doc.sessions[s] = 0 /\ tx'[s] = tx[s]
  <2>1. charge.pc = "writeTx" /\ charge \in ChargeRecord([Sessions -> I!BillingData])
    BY <1>3, ChargeShape DEF I!UpdateTransactionsBillingData, HoldsInv
  <2>2. charge.i \in Sessions /\ charge.doc \in I!Invoice
    BY <2>1 DEF HoldsInv, ChargeHolds, ChargeRecord, Handling, DocumentOf, DocumentAt
  <2>3. PICK on \in SUBSET Sessions :
          /\ on = {s \in Sessions : charge.doc.sessions[s] > 0 /\ charge.read[s].status \notin {"none"}}
          /\ tx' = [s \in Sessions |-> IF s \in on THEN I!ShowStatus(charge.read[s], charge.doc.status) ELSE tx[s]]
          /\ \A s \in on : tx[s] # charge.read[s] => <<"session", s>> \in stale'
          /\ invoices[charge.i] # charge.doc => <<"invoice", charge.i>> \in stale'
    BY <1>3 DEF I!UpdateTransactionsBillingData
  <2>4. \A s \in Sessions : charge.doc.sessions[s] > 0 => charge.read[s].status # "none"
    BY <2>1 DEF HoldsInv, ChargeHolds
  <2>5. charge.doc.sessions \in [Sessions -> Nat]
    BY <2>2 DEF I!Invoice
  <2>6. ASSUME NEW s \in Sessions
        PROVE  \/ /\ charge.doc.sessions[s] > 0
                  /\ tx'[s] = [charge.read[s] EXCEPT !.shown = charge.doc.status]
                  /\ tx[s] # charge.read[s] => <<"session", s>> \in stale'
               \/ charge.doc.sessions[s] = 0 /\ tx'[s] = tx[s]
    <3>1. CASE charge.doc.sessions[s] > 0
      <4>1. s \in on
        BY <2>3, <2>4, <3>1
      <4>2. tx'[s] = I!ShowStatus(charge.read[s], charge.doc.status)
        BY <2>3, <4>1
      <4> QED BY <2>3, <3>1, <4>1, <4>2 DEF I!ShowStatus
    <3>2. CASE ~(charge.doc.sessions[s] > 0)
      BY <2>3, <2>5, <3>2
    <3> QED BY <3>1, <3>2
  <2> QED BY <2>1, <2>2, <2>3, <2>6
<1> QED BY <1>2, <1>3

\* The steps of a run, field by field.
SameRun == charge'.unpaid = charge.unpaid /\ charge'.window = charge.window /\ charge'.scope = charge.scope

LEMMA ChargeMoves ==
  ASSUME HoldsInv
  PROVE  /\ I!ReadPage =>
              /\ charge.pc = "page" /\ charge.page = {} /\ SameRun
              /\ charge'.seen = charge.seen /\ charge'.i = charge.i
              /\ \/ /\ I!GetInvoices(charge, charge.skip) = {}
                    /\ charge'.pc = "end" /\ charge'.page = {} /\ charge'.skip = charge.skip
                 \/ /\ charge'.page = I!GetInvoices(charge, charge.skip)
                    /\ charge'.pc = "page" /\ charge'.skip = charge.skip + PageSize
         /\ \A i \in Sessions : I!ChargeInvoice(i) =>
              /\ charge.pc = "page" /\ I!IsNext(i) /\ SameRun
              /\ charge'.pc = "sync" /\ charge'.i = i /\ charge'.page = charge.page
              /\ charge'.skip = charge.skip
              /\ charge'.seen = [charge.seen EXCEPT ![i] = charge.seen[i] + 1]
         /\ \A i \in Sessions : I!ChargeFails(i) =>
              /\ \/ charge.pc = "page" /\ I!IsNext(i)
                    /\ charge'.seen = [charge.seen EXCEPT ![i] = charge.seen[i] + 1]
                 \/ charge.pc = "sync" /\ i = charge.i /\ charge'.seen = charge.seen
              /\ SameRun /\ charge'.pc = "page" /\ charge'.i = None
              /\ charge'.page = charge.page \ {i} /\ charge'.skip = charge.skip
         /\ I!Sync =>
              /\ charge.pc = "sync" /\ charge'.pc = "save" /\ SameRun /\ charge'.i = charge.i
              /\ charge'.page = charge.page /\ charge'.skip = charge.skip /\ charge'.seen = charge.seen
              /\ charge'.read = invoices[charge.i]
              /\ charge'.doc = I!ConvertToBillingInvoice(charge.i)
         /\ I!ChargeSavesInvoice =>
              /\ charge.pc = "save" /\ charge'.pc = "readTx" /\ SameRun /\ charge'.i = charge.i
              /\ charge'.page = charge.page /\ charge'.skip = charge.skip /\ charge'.seen = charge.seen
              /\ charge'.doc = charge.doc
         /\ I!ReadTransactions =>
              /\ charge.pc = "readTx" /\ charge'.pc = "writeTx" /\ SameRun /\ charge'.i = charge.i
              /\ charge'.page = charge.page /\ charge'.skip = charge.skip /\ charge'.seen = charge.seen
              /\ charge'.doc = charge.doc /\ charge'.read = tx
         /\ I!UpdateTransactionsBillingData =>
              /\ charge.pc = "writeTx" /\ charge'.pc = "page" /\ SameRun /\ charge'.i = None
              /\ charge'.page = charge.page \ {charge.i} /\ charge'.seen = charge.seen
              /\ charge'.skip = charge.skip - I!OutOfScope(charge)
<1>1. charge.pc # "idle" => charge \in ChargeRecord(AnyRead)
  BY ChargeShape DEF HoldsInv
<1>2. ASSUME I!ReadPage
      PROVE  /\ charge.pc = "page" /\ charge.page = {} /\ SameRun
             /\ charge'.seen = charge.seen /\ charge'.i = charge.i
             /\ \/ /\ I!GetInvoices(charge, charge.skip) = {}
                   /\ charge'.pc = "end" /\ charge'.page = {} /\ charge'.skip = charge.skip
                \/ /\ charge'.page = I!GetInvoices(charge, charge.skip)
                   /\ charge'.pc = "page" /\ charge'.skip = charge.skip + PageSize
  <2>1. PICK page : page = I!GetInvoices(charge, charge.skip)
    OBVIOUS
  <2>2. /\ charge.pc = "page" /\ charge.page = {}
        /\ charge' = IF page = {} THEN [charge EXCEPT !.pc = "end"]
                     ELSE [charge EXCEPT !.page = page, !.skip = charge.skip + PageSize]
    BY <1>2, <2>1 DEF I!ReadPage
  <2>3. CASE page = {}
    BY <1>1, <2>1, <2>2, <2>3 DEF ChargeRecord, SameRun
  <2>4. CASE page # {}
    BY <1>1, <2>1, <2>2, <2>4 DEF ChargeRecord, SameRun
  <2> QED BY <2>3, <2>4
<1>3. ASSUME NEW i \in Sessions, I!ChargeInvoice(i)
      PROVE  /\ charge.pc = "page" /\ I!IsNext(i) /\ SameRun
             /\ charge'.pc = "sync" /\ charge'.i = i /\ charge'.page = charge.page
             /\ charge'.skip = charge.skip
             /\ charge'.seen = [charge.seen EXCEPT ![i] = charge.seen[i] + 1]
  <2>1. PICK seen : seen = [charge.seen EXCEPT ![i] = charge.seen[i] + 1]
    OBVIOUS
  <2>2. charge.pc = "page" /\ I!IsNext(i)
        /\ charge' = [charge EXCEPT !.pc = "sync", !.i = i, !.seen = seen]
    BY <1>3, <2>1 DEF I!ChargeInvoice
  <2>3. charge'.seen = seen /\ charge'.pc = "sync" /\ charge'.i = i /\ charge'.page = charge.page
        /\ charge'.skip = charge.skip /\ SameRun
    BY <1>1, <2>2 DEF ChargeRecord, SameRun
  <2> QED BY <2>1, <2>2, <2>3
<1>4. ASSUME NEW i \in Sessions, I!ChargeFails(i)
      PROVE  /\ \/ charge.pc = "page" /\ I!IsNext(i)
                   /\ charge'.seen = [charge.seen EXCEPT ![i] = charge.seen[i] + 1]
                \/ charge.pc = "sync" /\ i = charge.i /\ charge'.seen = charge.seen
             /\ SameRun /\ charge'.pc = "page" /\ charge'.i = None
             /\ charge'.page = charge.page \ {i} /\ charge'.skip = charge.skip
  <2>1. PICK seen, page : /\ seen = [charge.seen EXCEPT ![i] = charge.seen[i] + 1]
                          /\ page = charge.page \ {i}
    OBVIOUS
  <2>2. CASE charge.pc = "page" /\ I!IsNext(i) /\ charge' = [charge EXCEPT !.page = page, !.seen = seen]
    <3>1. charge.i = None
      BY <2>2 DEF HoldsInv, ChargeHolds, Handling
    <3>2. charge'.seen = seen /\ charge'.page = page /\ charge'.pc = "page" /\ charge'.i = charge.i
          /\ charge'.skip = charge.skip /\ SameRun
      BY <1>1, <2>2 DEF ChargeRecord, SameRun
    <3> QED BY <2>1, <2>2, <3>1, <3>2
  <2>3. CASE charge.pc = "sync" /\ i = charge.i
             /\ charge' = [charge EXCEPT !.pc = "page", !.page = page, !.i = None]
    <3>1. charge'.seen = charge.seen /\ charge'.page = page /\ charge'.pc = "page" /\ charge'.i = None
          /\ charge'.skip = charge.skip /\ SameRun
      BY <1>1, <2>3 DEF ChargeRecord, SameRun
    <3> QED BY <2>1, <2>3, <3>1
  <2> QED BY <1>4, <2>1, <2>2, <2>3 DEF I!ChargeFails
<1>5. ASSUME I!Sync
      PROVE  /\ charge.pc = "sync" /\ charge'.pc = "save" /\ SameRun /\ charge'.i = charge.i
             /\ charge'.page = charge.page /\ charge'.skip = charge.skip /\ charge'.seen = charge.seen
             /\ charge'.read = invoices[charge.i]
             /\ charge'.doc = I!ConvertToBillingInvoice(charge.i)
  <2>1. PICK read, doc : read = invoices[charge.i] /\ doc = I!ConvertToBillingInvoice(charge.i)
    OBVIOUS
  <2>2. charge.pc = "sync" /\ charge' = [charge EXCEPT !.pc = "save", !.read = read, !.doc = doc]
    BY <1>5, <2>1 DEF I!Sync
  <2> QED BY <1>1, <2>1, <2>2 DEF ChargeRecord, SameRun
<1>6. ASSUME I!ChargeSavesInvoice
      PROVE  /\ charge.pc = "save" /\ charge'.pc = "readTx" /\ SameRun /\ charge'.i = charge.i
             /\ charge'.page = charge.page /\ charge'.skip = charge.skip /\ charge'.seen = charge.seen
             /\ charge'.doc = charge.doc
  <2>1. charge.pc = "save" /\ charge' = [charge EXCEPT !.pc = "readTx", !.read = None]
    BY <1>6 DEF I!ChargeSavesInvoice
  <2> QED BY <1>1, <2>1 DEF ChargeRecord, SameRun
<1>7. ASSUME I!ReadTransactions
      PROVE  /\ charge.pc = "readTx" /\ charge'.pc = "writeTx" /\ SameRun /\ charge'.i = charge.i
             /\ charge'.page = charge.page /\ charge'.skip = charge.skip /\ charge'.seen = charge.seen
             /\ charge'.doc = charge.doc /\ charge'.read = tx
  <2>1. charge.pc = "readTx" /\ charge' = [charge EXCEPT !.pc = "writeTx", !.read = tx]
    BY <1>7 DEF I!ReadTransactions
  <2> QED BY <1>1, <2>1 DEF ChargeRecord, SameRun
<1>8. ASSUME I!UpdateTransactionsBillingData
      PROVE  /\ charge.pc = "writeTx" /\ charge'.pc = "page" /\ SameRun /\ charge'.i = None
             /\ charge'.page = charge.page \ {charge.i} /\ charge'.seen = charge.seen
             /\ charge'.skip = charge.skip - I!OutOfScope(charge)
  <2>1. PICK page, skip : page = charge.page \ {charge.i} /\ skip = charge.skip - I!OutOfScope(charge)
    OBVIOUS
  <2>2. charge.pc = "writeTx"
        /\ charge' = [charge EXCEPT !.pc = "page", !.page = page, !.i = None, !.read = None, !.doc = None,
                                    !.skip = skip]
    BY <1>8, <2>1 DEF I!UpdateTransactionsBillingData
  <2> QED BY <1>1, <2>1, <2>2 DEF ChargeRecord, SameRun
<1> QED BY <1>2, <1>3, <1>4, <1>5, <1>6, <1>7, <1>8

\* Between two steps of it, a run stays as it is, or it ends.
LEMMA ChargeChanges ==
  ASSUME InvoicingStep, charge' # charge
  PROVE  \/ charge' = I!Idle /\ (I!ChargeEnds \/ I!Crash)
         \/ \E unpaid \in BOOLEAN : I!ChargeInvoices(unpaid)
         \/ \E i \in Sessions : I!ChargeInvoice(i) \/ I!ChargeFails(i)
         \/ I!ReadPage \/ I!Sync \/ I!ChargeSavesInvoice \/ I!ReadTransactions
         \/ I!UpdateTransactionsBillingData
<1>1. I!Crash => charge' = I!Idle \/ UNCHANGED charge
  BY Zenon DEF I!Crash
<1>2. I!ChargeEnds => charge' = I!Idle
  BY DEF I!ChargeEnds
<1> QED BY <1>1, <1>2, Changes DEF I!Charge

\* What bill holds, and what comes of it.
LEMMA DataMoves ==
  ASSUME HoldsInv, InvoicingStep, bill'.pc # "idle"
  PROVE  \/ bill'.data = bill.data /\ bill'.s = bill.s /\ bill.pc # "idle" /\ ~I!BillSavesInvoice
         \/ bill'.data.status # "BILLED"
         \/ /\ I!BillSavesInvoice /\ bill'.s = bill.s /\ bill'.pc = "saveTx"
            /\ bill'.data = [status |-> "BILLED", invoice |-> bill.i, shown |-> bill.doc.status]
<1>1. CASE bill'.pc # "saveTx"
  BY <1>1, BillStep DEF BillHolds
<1>2. CASE I!BillSavesInvoice
  <2>1. bill \in BillRecord
    BY <1>2, InvoiceSaved
  <2>2. PICK data : data = [status |-> "BILLED", invoice |-> bill.i, shown |-> bill.doc.status]
    OBVIOUS
  <2>3. bill' = [bill EXCEPT !.pc = "saveTx", !.read = None, !.doc = None, !.data = data]
    BY <1>2, <2>2 DEF I!BillSavesInvoice
  <2>4. bill'.pc = "saveTx" /\ bill'.s = bill.s /\ bill'.data = data
    BY <2>1, <2>3 DEF BillRecord
  <2> QED BY <1>2, <2>2, <2>4
<1>3. CASE bill'.data.status = "FAILED"
  BY <1>3
<1>4. ASSUME I!BillFails \/ I!CreateStripeInvoiceItems, bill'.pc = "saveTx" PROVE bill'.data.status = "FAILED"
  <2>1. bill \in BillRecord
    BY <1>4, BillShape DEF HoldsInv, I!BillFails, I!CreateStripeInvoiceItems
  <2>2. PICK data : data = [bill.data EXCEPT !.status = "FAILED"]
    OBVIOUS
  <2>3. bill.data \in I!BillingData
    BY <2>1 DEF BillRecord
  <2>4. data.status = "FAILED"
    BY <2>2, <2>3 DEF I!BillingData
  <2>5. bill' = [bill EXCEPT !.pc = "saveTx", !.data = data]
        \/ bill' = [bill EXCEPT !.pc = "charge"] \/ bill' = [bill EXCEPT !.pc = "refresh"]
    BY <1>4, <2>2 DEF I!BillFails, I!CreateStripeInvoiceItems
  <2> QED BY <1>4, <2>1, <2>4, <2>5 DEF BillRecord
<1>5. CASE bill' = bill /\ ~I!BillSavesInvoice
  BY <1>5
<1>6. ASSUME NEW s \in Sessions, I!BillTransactionAsyncTask(s), bill' # bill PROVE bill'.pc = "invoice"
  BY <1>6 DEF I!BillTransactionAsyncTask
<1>7. ASSUME I!ChooseInvoice \/ I!ChargeImmediately \/ I!Refresh PROVE bill'.pc # "saveTx"
  <2>1. bill \in BillRecord
    BY <1>7, BillShape DEF HoldsInv, I!ChooseInvoice, I!ChargeImmediately, I!Refresh
  <2>2. ASSUME NEW i, bill' = [bill EXCEPT !.pc = "items", !.i = i] PROVE bill'.pc # "saveTx"
    BY <2>1, <2>2 DEF BillRecord
  <2>3. ASSUME bill' = [bill EXCEPT !.pc = "refresh"] PROVE bill'.pc # "saveTx"
    BY <2>1, <2>3 DEF BillRecord
  <2>4. ASSUME NEW read, NEW doc, bill' = [bill EXCEPT !.pc = "saveInvoice", !.read = read, !.doc = doc]
        PROVE  bill'.pc # "saveTx"
    BY <2>1, <2>4 DEF BillRecord
  <2>5. I!ChooseInvoice => \E i : bill' = [bill EXCEPT !.pc = "items", !.i = i]
    BY DEF I!ChooseInvoice
  <2>6. I!ChargeImmediately => bill' = [bill EXCEPT !.pc = "refresh"]
    BY DEF I!ChargeImmediately
  <2>7. I!Refresh => \E read, doc : bill' = [bill EXCEPT !.pc = "saveInvoice", !.read = read, !.doc = doc]
    BY DEF I!Refresh
  <2> QED BY <1>7, <2>2, <2>3, <2>4, <2>5, <2>6, <2>7
<1>8. ASSUME I!BillThrows \/ I!BillSavesTransaction \/ (I!Crash /\ bill' # bill) PROVE bill'.pc = "idle"
  <2>1. I!Crash => bill' = I!Idle \/ UNCHANGED bill
    BY Zenon DEF I!Crash
  <2> QED BY <1>8, <2>1 DEF I!BillThrows, I!BillSavesTransaction, I!Idle
<1> QED
  BY <1>1, <1>2, <1>3, <1>4, <1>5, <1>6, <1>7, <1>8, Changes DEF I!Bill

LEMMA InvoicedPreserved ==
  ASSUME HoldsInv, InvoicedInv, InvoicingStep
  PROVE  InvoicedInv'
<1> DEFINE Later(s, data) == InvoicedAs(s, data, itemOn', invoices', stale')
<1>1. \A s \in Sessions : \A data : InvoicedNow(s, data) => Later(s, data)
  BY InvoicedStays
<1>2. \A s \in Sessions : \A data : data.status # "BILLED" => Later(s, data)
  BY DEF InvoicedAs
<1>3. tx \in [Sessions -> I!BillingData]
  BY DEF HoldsInv, InvoicesTyped, I!TypeOK
<1> HIDE DEF Later
<1>4. \A s \in Sessions : Later(s, tx'[s])
  <2>1. CASE tx' = tx
    BY <1>1, <2>1 DEF InvoicedInv
  <2>2. ASSUME NEW r \in Sessions, I!EndTransaction(r) PROVE \A s \in Sessions : Later(s, tx'[s])
    <3>1. PICK status \in {"PENDING", "UNBILLED"} : tx' = [tx EXCEPT ![r].status = status]
      BY <2>2 DEF I!EndTransaction
    <3>2. tx'[r].status # "BILLED" /\ \A s \in Sessions : s # r => tx'[s] = tx[s]
      BY <1>3, <3>1 DEF I!BillingData
    <3> QED BY <1>1, <1>2, <3>2 DEF InvoicedInv
  <2>3. CASE I!BillSavesTransaction
    BY <1>1, <2>3, TxSaved DEF InvoicedInv
  <2>4. CASE I!UpdateTransactionsBillingData
    <3> SUFFICES ASSUME NEW s \in Sessions PROVE Later(s, tx'[s])
      OBVIOUS
    <3>1. charge.pc = "writeTx" /\ charge \in ChargeRecord([Sessions -> I!BillingData])
      BY <2>4, TxSaved
    <3>2. charge.read[s] \in I!BillingData
      BY <3>1 DEF ChargeRecord
    <3>3. CASE tx'[s] = tx[s]
      BY <1>1, <3>3 DEF InvoicedInv
    <3>4. CASE tx'[s] = [charge.read[s] EXCEPT !.shown = charge.doc.status]
      <4>1. tx'[s].status = charge.read[s].status /\ tx'[s].invoice = charge.read[s].invoice
        BY <3>2, <3>4 DEF I!BillingData
      <4>2. Later(s, charge.read[s])
        BY <1>1, <3>1 DEF InvoicedInv
      <4> QED BY <4>1, <4>2 DEF Later, InvoicedAs
    <3> QED BY <2>4, <3>3, <3>4, TxSaved
  <2> QED BY <2>1, <2>2, <2>3, <2>4, Changes
<1>5. bill'.pc # "idle" => Later(bill'.s, bill'.data)
  <2> SUFFICES ASSUME bill'.pc # "idle" PROVE Later(bill'.s, bill'.data)
    OBVIOUS
  <2>1. bill'.s \in Sessions
    BY BillStep DEF BillHolds, BillRecord, I!Idle
  <2>2. CASE bill'.data = bill.data /\ bill'.s = bill.s /\ bill.pc # "idle"
    BY <1>1, <2>1, <2>2 DEF InvoicedInv
  <2>3. CASE bill'.data.status # "BILLED"
    BY <1>2, <2>1, <2>3
  <2>4. CASE /\ I!BillSavesInvoice /\ bill'.s = bill.s
             /\ bill'.data = [status |-> "BILLED", invoice |-> bill.i, shown |-> bill.doc.status]
    <3>1. /\ bill.i \in Sessions /\ bill.s \in Sessions /\ bill.doc \in I!Invoice
          /\ invoices' = [invoices EXCEPT ![bill.i] = I!EnrichInvoice(bill.doc, bill.s)]
      BY <2>4, InvoiceSaved
    <3>2. itemOn[bill.s] = bill.i /\ itemOn' = itemOn
      BY <2>4, Footprints DEF I!BillSavesInvoice, HoldsInv, BillHolds, OnInvoice
    <3>3. invoices \in [Sessions -> I!Invoice \cup {None}]
      BY DEF HoldsInv, InvoicesTyped, I!TypeOK
    <3>4. invoices'[bill.i] = I!EnrichInvoice(bill.doc, bill.s)
      BY <3>1, <3>3
    <3>5. invoices'[bill.i] # None /\ invoices'[bill.i].sessions[bill.s] > 0
      <4>1. bill.doc.sessions[bill.s] \in Nat
        BY <3>1 DEF I!Invoice
      <4>2. I!EnrichInvoice(bill.doc, bill.s) \in I!Invoice
            /\ I!EnrichInvoice(bill.doc, bill.s).sessions[bill.s] = bill.doc.sessions[bill.s] + 1
        BY <3>1, EnrichedFacts
      <4> QED BY <3>4, <4>1, <4>2, MissingAssumption
    <3> QED BY <2>4, <3>1, <3>2, <3>5 DEF Later, InvoicedAs
  <2> QED BY <2>2, <2>3, <2>4, DataMoves
<1>6. charge'.pc = "writeTx" => \A s \in Sessions : Later(s, charge'.read[s])
  <2> SUFFICES ASSUME charge'.pc = "writeTx", NEW s \in Sessions PROVE Later(s, charge'.read[s])
    OBVIOUS
  <2>1. charge' = charge \/ (I!ReadTransactions /\ charge'.read = tx)
    <3>1. \A unpaid \in BOOLEAN : I!ChargeInvoices(unpaid) => charge'.pc = "page"
      BY DEF I!ChargeInvoices
    <3>2. I!Idle.pc = "idle"
      BY DEF I!Idle
    <3> QED BY <3>1, <3>2, ChargeChanges, ChargeMoves
  <2> QED BY <1>1, <2>1 DEF InvoicedInv
<1> QED BY <1>4, <1>5, <1>6 DEF InvoicedInv, InvoicedNow, Later

\* A session whose items are on an invoice is billed or about to be, unless a
\* job met a failure or wrote over it.
PaidInv ==
  \A s \in Sessions :
    itemOn[s] # None =>
      \/ tx[s].status \in {"BILLED", "FAILED"}
      \/ s \in tasks
      \/ <<"session", s>> \in stale \/ <<"task", s>> \in interrupted

LEMMA PaidPreserved ==
  ASSUME HoldsInv, PaidInv, InvoicingStep
  PROVE  PaidInv'
<1> SUFFICES ASSUME NEW s \in Sessions, itemOn'[s] # None, <<"session", s>> \notin stale',
                    <<"task", s>> \notin interrupted'
             PROVE  tx'[s].status \in {"BILLED", "FAILED"} \/ s \in tasks'
  BY DEF PaidInv
<1>1. <<"session", s>> \notin stale /\ <<"task", s>> \notin interrupted
  BY HistoryStays
<1>2. tx \in [Sessions -> I!BillingData]
  BY DEF HoldsInv, InvoicesTyped, I!TypeOK
<1>3. CASE I!CreateStripeInvoiceItems
  <2>1. bill.s \in tasks /\ tasks' = tasks /\ tx' = tx
    BY <1>3, Footprints DEF I!CreateStripeInvoiceItems, HoldsInv, BillHolds
  <2>2. s = bill.s \/ itemOn[s] # None
    BY <1>3 DEF I!CreateStripeInvoiceItems, HoldsInv, InvoicesTyped, I!TypeOK
  <2> QED BY <1>1, <2>1, <2>2 DEF PaidInv
<1>4. CASE itemOn' = itemOn
  <2>1. tx[s].status \in {"BILLED", "FAILED"} \/ s \in tasks
    BY <1>1, <1>4 DEF PaidInv
  <2>2. ASSUME tx[s].status \in {"BILLED", "FAILED"} PROVE tx'[s].status \in {"BILLED", "FAILED"}
    <3>1. ASSUME NEW r \in Sessions, I!EndTransaction(r) PROVE tx'[s] = tx[s]
      <4>1. tx[r].status = "none" /\ \E status : tx' = [tx EXCEPT ![r].status = status]
        BY <3>1 DEF I!EndTransaction
      <4> QED BY <1>2, <2>2, <4>1
    <3>2. CASE I!BillSavesTransaction
      <4>1. bill.data.status \in {"BILLED", "FAILED"}
        BY <3>2, TxSaved DEF HoldsInv, BillHolds
      <4> QED BY <2>2, <3>2, <4>1, TxSaved
    <3>3. CASE I!UpdateTransactionsBillingData
      <4>1. tx'[s] = tx[s] \/ tx'[s] = [tx[s] EXCEPT !.shown = charge.doc.status]
        BY <3>3, TxSaved
      <4> QED BY <1>2, <2>2, <4>1 DEF I!BillingData
    <3> QED BY <2>2, <3>1, <3>2, <3>3, Changes
  <2>3. ASSUME s \in tasks, s \notin tasks' PROVE tx'[s].status \in {"BILLED", "FAILED"}
    <3>1. ASSUME NEW r \in Sessions, I!BillTransactionAsyncTask(r)
          PROVE  tx'[s].status \in {"BILLED", "FAILED"}
      <4>1. r = s /\ tx[s].status # "PENDING" /\ tx' = tx
        BY <2>3, <3>1 DEF I!BillTransactionAsyncTask
      <4>2. tx[s].status \notin {"none", "UNBILLED"}
        BY <2>3 DEF HoldsInv, TasksLive
      <4> QED BY <1>2, <4>1, <4>2 DEF I!BillingData
    <3>2. ~I!BillThrows
      <4> SUFFICES ASSUME I!BillThrows PROVE FALSE
        OBVIOUS
      <4>1. bill.s = s /\ <<"task", bill.s>> \in interrupted'
        BY <2>3 DEF I!BillThrows
      <4> QED BY <4>1
    <3>3. CASE I!BillSavesTransaction
      <4>1. bill.s = s
        BY <2>3, <3>3 DEF I!BillSavesTransaction
      <4>2. bill.data.status \in {"BILLED", "FAILED"} /\ tx'[s] = bill.data
        BY <3>3, <4>1, TxSaved DEF HoldsInv, BillHolds
      <4> QED BY <4>2
    <3>4. \A r \in Sessions : ~I!EndTransaction(r)
      BY <2>3 DEF I!EndTransaction
    <3> QED BY <2>3, <3>1, <3>2, <3>3, <3>4, Changes
  <2> QED BY <2>1, <2>2, <2>3
<1> QED BY <1>3, <1>4, Changes

\* No task will bill a session again.
Free(s) == s \notin tasks \/ (bill.pc = "saveTx" /\ bill.s = s)

\* A document lists a session once, if no crash made its task run again.
Once(s, doc) ==
  <<"session", s>> \notin interrupted =>
    doc.sessions[s] <= 1 /\ (doc.sessions[s] > 0 => Free(s))

OnceInv ==
  \A s \in Sessions :
    /\ \A i \in Sessions : invoices[i] # None => Once(s, invoices[i])
    /\ bill.pc = "saveInvoice" => Once(s, bill.doc)
    /\ charge.pc \in {"save", "readTx", "writeTx"} => Once(s, charge.doc)

LEMMA FreeStays ==
  ASSUME HoldsInv, InvoicingStep, NEW s \in Sessions, tx[s].status # "none", Free(s),
         <<"session", s>> \notin interrupted'
  PROVE  Free(s)'
<1>1. CASE s \notin tasks
  <2>1. \A r \in Sessions : I!EndTransaction(r) => s \notin tasks'
    BY <1>1 DEF I!EndTransaction
  <2>2. \A r \in Sessions : I!BillTransactionAsyncTask(r) => s \notin tasks'
    BY <1>1 DEF I!BillTransactionAsyncTask
  <2>3. I!BillThrows \/ I!BillSavesTransaction => s \notin tasks'
    BY <1>1 DEF I!BillThrows, I!BillSavesTransaction
  <2> QED BY <1>1, <2>1, <2>2, <2>3, Changes DEF Free
<1>2. CASE bill.pc = "saveTx" /\ bill.s = s
  <2>1. I!Crash => UNCHANGED bill \/ <<"session", bill.s>> \in interrupted'
    <3>1. I!Crash => UNCHANGED bill
                     \/ interrupted' = interrupted \cup {<<"session", bill.s>>}
      BY Zenon DEF I!Crash
    <3> QED BY <3>1
  <2>2. I!BillSavesTransaction => s \notin tasks'
    BY <1>2 DEF I!BillSavesTransaction
  <2>3. \A r \in Sessions : ~(I!BillTransactionAsyncTask(r) /\ bill' # bill)
    BY <1>2 DEF I!BillTransactionAsyncTask, I!Idle
  <2>4. ~I!BillThrows /\ ~I!BillFails /\ ~I!ChooseInvoice /\ ~I!CreateStripeInvoiceItems
        /\ ~I!ChargeImmediately /\ ~I!Refresh /\ ~I!BillSavesInvoice
    BY <1>2 DEF I!BillThrows, I!BillFails, I!ChooseInvoice, I!CreateStripeInvoiceItems,
       I!ChargeImmediately, I!Refresh, I!BillSavesInvoice
  <2> QED BY <1>2, <2>1, <2>2, <2>3, <2>4, Changes DEF I!Bill, Free
<1> QED BY <1>1, <1>2 DEF Free

\* A document that is kept goes on listing a session once.
LEMMA OnceStays ==
  ASSUME HoldsInv, InvoicingStep, NEW s \in Sessions, NEW i \in Sessions, NEW doc,
         DocumentOf(i, doc), Once(s, doc), <<"session", s>> \notin interrupted'
  PROVE  doc.sessions[s] <= 1 /\ (doc.sessions[s] > 0 => Free(s)')
<1>1. <<"session", s>> \notin interrupted
  BY HistoryStays
<1> QED BY <1>1, FreeStays DEF Once, DocumentOf, DocumentAt

LEMMA ListingPreserved ==
  ASSUME HoldsInv, OnceInv, InvoicingStep
  PROVE  OnceInv'
<1> SUFFICES ASSUME NEW s \in Sessions
             PROVE  /\ \A i \in Sessions : invoices'[i] # None => Once(s, invoices[i])'
                    /\ bill'.pc = "saveInvoice" => Once(s, bill.doc)'
                    /\ charge'.pc \in {"save", "readTx", "writeTx"} => Once(s, charge.doc)'
  BY DEF OnceInv
<1> DEFINE Later(doc) == <<"session", s>> \notin interrupted' =>
                           doc.sessions[s] <= 1 /\ (doc.sessions[s] > 0 => Free(s)')
<1>1. \A i \in Sessions : \A doc : DocumentOf(i, doc) /\ Once(s, doc) => Later(doc)
  BY OnceStays
<1>2. invoices \in [Sessions -> I!Invoice \cup {None}]
  BY DEF HoldsInv, InvoicesTyped, I!TypeOK
<1>3. \A i \in Sessions : invoices[i] # None => Later(invoices[i])
  BY <1>1 DEF HoldsInv, StoredDocuments, OnceInv
<1>4. bill.pc = "saveInvoice" => bill.i \in Sessions /\ Later(bill.doc)
  BY <1>1 DEF HoldsInv, BillHolds, OnInvoice, OnceInv
<1>5. charge.pc \in {"save", "readTx", "writeTx"} => charge.i \in Sessions /\ Later(charge.doc)
  <2>1. charge.pc \in {"save", "readTx", "writeTx"} => charge.i \in Sessions /\ DocumentOf(charge.i, charge.doc)
    BY ChargeShape DEF HoldsInv, ChargeHolds, ChargeRecord, Handling
  <2> QED BY <1>1, <2>1 DEF OnceInv
<1>6. \A i \in Sessions : stripe[i] # None => Later(I!ConvertToBillingInvoice(i))
  <2> SUFFICES ASSUME NEW i \in Sessions, stripe[i] # None PROVE Later(I!ConvertToBillingInvoice(i))
    OBVIOUS
  <2>1. I!ConvertToBillingInvoice(i).sessions =
          IF invoices[i] = None THEN [r \in Sessions |-> 0] ELSE invoices[i].sessions
    BY DEF I!ConvertToBillingInvoice
  <2> HIDE DEF Later
  <2>2. CASE invoices[i] = None
    <3>1. I!ConvertToBillingInvoice(i).sessions[s] = 0
      BY <2>1, <2>2
    <3> QED BY <3>1 DEF Later
  <2>3. CASE invoices[i] # None
    BY <1>3, <2>1, <2>3 DEF Later
  <2> QED BY <2>2, <2>3
<1> HIDE DEF Later
<1>7. \A i \in Sessions : invoices'[i] # None => Later(invoices'[i])
  <2>1. CASE I!BillSavesInvoice
    <3>1. /\ bill \in BillRecord /\ bill.i \in Sessions /\ bill.s \in Sessions /\ bill.doc \in I!Invoice
          /\ invoices' = [invoices EXCEPT ![bill.i] = I!EnrichInvoice(bill.doc, bill.s)]
      BY <2>1, InvoiceSaved
    <3>2. \A i \in Sessions :
            invoices'[i] = IF i = bill.i THEN I!EnrichInvoice(bill.doc, bill.s) ELSE invoices[i]
      BY <1>2, <3>1
    <3>3. bill.pc = "saveInvoice" /\ bill.s \in tasks
      BY <2>1 DEF I!BillSavesInvoice, HoldsInv, BillHolds
    <3>4. Later(I!EnrichInvoice(bill.doc, bill.s))
      <4>1. bill.doc.sessions[s] \in Nat /\ Later(bill.doc)
        BY <1>4, <3>1, <3>3 DEF I!Invoice
      <4>2. I!EnrichInvoice(bill.doc, bill.s).sessions[s] =
              IF s = bill.s THEN bill.doc.sessions[s] + 1 ELSE bill.doc.sessions[s]
        BY <3>1, EnrichedFacts
      <4>3. CASE s # bill.s
        BY <4>1, <4>2, <4>3 DEF Later
      <4>4. CASE s = bill.s
        <5> SUFFICES ASSUME <<"session", s>> \notin interrupted'
                     PROVE  I!EnrichInvoice(bill.doc, bill.s).sessions[s] <= 1 /\ Free(s)'
          BY DEF Later
        <5>1. Once(s, bill.doc) /\ ~Free(s) /\ <<"session", s>> \notin interrupted
          BY <3>3, <4>4, HistoryStays DEF OnceInv, Free
        <5>2. bill.doc.sessions[s] = 0
          BY <4>1, <5>1 DEF Once
        <5>3. bill'.pc = "saveTx" /\ bill'.s = bill.s
          <6>1. PICK data : bill' = [bill EXCEPT !.pc = "saveTx", !.read = None, !.doc = None, !.data = data]
            BY <2>1 DEF I!BillSavesInvoice
          <6> QED BY <3>1, <6>1 DEF BillRecord
        <5> QED BY <4>2, <4>4, <5>2, <5>3 DEF Free
      <4> QED BY <4>3, <4>4
    <3> QED BY <1>3, <3>2, <3>4
  <2>2. CASE I!ChargeSavesInvoice
    <3>1. charge.i \in Sessions /\ invoices' = [invoices EXCEPT ![charge.i] = charge.doc]
      BY <2>2, InvoiceSaved
    <3>2. charge.pc = "save"
      BY <2>2 DEF I!ChargeSavesInvoice
    <3> QED BY <1>2, <1>3, <1>5, <3>1, <3>2
  <2> QED BY <1>3, <2>1, <2>2, Changes
<1>8. bill'.pc = "saveInvoice" => Later(bill'.doc)
  <2>1. bill'.pc = "saveInvoice" => bill' = bill \/ I!Refresh
    <3>1. CASE bill' = bill \/ I!Refresh \/ I!Crash \/ I!BillThrows \/ I!BillSavesTransaction
      <4>1. I!Crash => bill' = I!Idle \/ UNCHANGED bill
        BY Zenon DEF I!Crash
      <4> QED BY <3>1, <4>1 DEF I!BillThrows, I!BillSavesTransaction, I!Idle
    <3>2. ASSUME NEW pc, pc # "saveInvoice", NEW i, NEW read, NEW doc, NEW data, bill \in BillRecord,
                 bill' = [bill EXCEPT !.pc = pc, !.i = i, !.read = read, !.doc = doc, !.data = data]
          PROVE  bill'.pc # "saveInvoice"
      BY <3>2 DEF BillRecord
    <3>3. I!BillFails \/ I!CreateStripeInvoiceItems \/ I!ChooseInvoice \/ I!ChargeImmediately
          \/ I!BillSavesInvoice => bill \in BillRecord
      BY BillShape DEF HoldsInv, I!BillFails, I!CreateStripeInvoiceItems, I!ChooseInvoice,
         I!ChargeImmediately, I!BillSavesInvoice
    <3>4. I!BillFails \/ I!CreateStripeInvoiceItems \/ I!ChooseInvoice \/ I!ChargeImmediately
          \/ I!BillSavesInvoice => bill'.pc # "saveInvoice"
      <4>1. I!BillFails => \E data : bill' = [bill EXCEPT !.pc = "saveTx", !.data = data]
        <5>1. PICK data : data = [bill.data EXCEPT !.status = "FAILED"]
          OBVIOUS
        <5>2. I!BillFails => bill' = [bill EXCEPT !.pc = "saveTx", !.data = data]
          BY <5>1 DEF I!BillFails
        <5> QED BY <5>2
      <4>2. I!CreateStripeInvoiceItems =>
              \E data : \E pc \in {"charge", "refresh", "saveTx"} : bill' = [bill EXCEPT !.pc = pc, !.data = data]
        <5>1. PICK data : data = [bill.data EXCEPT !.status = "FAILED"]
          OBVIOUS
        <5>2. I!CreateStripeInvoiceItems =>
                \/ bill' = [bill EXCEPT !.pc = IF bill.now THEN "charge" ELSE "refresh"]
                \/ bill' = [bill EXCEPT !.pc = "saveTx", !.data = data]
          BY <5>1 DEF I!CreateStripeInvoiceItems
        <5>3. \A pc : bill \in BillRecord =>
                [bill EXCEPT !.pc = pc] = [bill EXCEPT !.pc = pc, !.data = bill.data]
          BY DEF BillRecord
        <5> QED BY <3>3, <5>2, <5>3
      <4>3. I!ChooseInvoice => \E i : bill' = [bill EXCEPT !.pc = "items", !.i = i]
        BY DEF I!ChooseInvoice
      <4>4. I!ChargeImmediately => bill' = [bill EXCEPT !.pc = "refresh"]
        BY DEF I!ChargeImmediately
      <4>5. I!BillSavesInvoice =>
              \E data : bill' = [bill EXCEPT !.pc = "saveTx", !.read = None, !.doc = None, !.data = data]
        BY DEF I!BillSavesInvoice
      <4>7. ASSUME I!BillFails PROVE bill'.pc # "saveInvoice"
        <5>1. PICK data : bill' = [bill EXCEPT !.pc = "saveTx", !.data = data]
          BY <4>1, <4>7
        <5> QED BY <3>3, <4>7, <5>1 DEF BillRecord
      <4>8. ASSUME I!CreateStripeInvoiceItems PROVE bill'.pc # "saveInvoice"
        <5>1. PICK data : \E pc \in {"charge", "refresh", "saveTx"} :
                            bill' = [bill EXCEPT !.pc = pc, !.data = data]
          BY <4>2, <4>8
        <5>2. PICK pc \in {"charge", "refresh", "saveTx"} : bill' = [bill EXCEPT !.pc = pc, !.data = data]
          BY <5>1
        <5> QED BY <3>3, <4>8, <5>2 DEF BillRecord
      <4>9. ASSUME I!ChooseInvoice PROVE bill'.pc # "saveInvoice"
        <5>1. PICK i : bill' = [bill EXCEPT !.pc = "items", !.i = i]
          BY <4>3, <4>9
        <5> QED BY <3>3, <4>9, <5>1 DEF BillRecord
      <4>10. ASSUME I!ChargeImmediately PROVE bill'.pc # "saveInvoice"
        BY <3>3, <4>4, <4>10 DEF BillRecord
      <4>11. ASSUME I!BillSavesInvoice PROVE bill'.pc # "saveInvoice"
        <5>1. PICK data : bill' = [bill EXCEPT !.pc = "saveTx", !.read = None, !.doc = None, !.data = data]
          BY <4>5, <4>11
        <5> QED BY <3>3, <4>11, <5>1 DEF BillRecord
      <4> QED BY <4>7, <4>8, <4>9, <4>10, <4>11
    <3>5. \A r \in Sessions : I!BillTransactionAsyncTask(r) => bill' = bill \/ bill'.pc = "invoice"
      BY DEF I!BillTransactionAsyncTask
    <3> QED BY <3>1, <3>4, <3>5, Changes DEF I!Bill
  <2>2. I!Refresh => Later(bill'.doc)
    <3> SUFFICES ASSUME I!Refresh PROVE Later(bill'.doc)
      OBVIOUS
    <3>1. bill \in BillRecord /\ bill.i \in Sessions /\ stripe[bill.i] # None
      BY BillShape DEF I!Refresh, HoldsInv, BillHolds, OnInvoice
    <3>2. PICK read, doc : read = invoices[bill.i] /\ doc = I!ConvertToBillingInvoice(bill.i)
      OBVIOUS
    <3>3. bill' = [bill EXCEPT !.pc = "saveInvoice", !.read = read, !.doc = doc]
      BY <3>2 DEF I!Refresh
    <3>4. bill'.doc = doc
      BY <3>1, <3>3 DEF BillRecord
    <3> QED BY <1>6, <3>1, <3>2, <3>4
  <2> QED BY <1>4, <2>1, <2>2
<1>9. charge'.pc \in {"save", "readTx", "writeTx"} => Later(charge'.doc)
  <2>1. I!Sync => Later(charge'.doc)
    <3> SUFFICES ASSUME I!Sync PROVE Later(charge'.doc)
      OBVIOUS
    <3>1. charge.i \in Sessions /\ stripe[charge.i] # None
      <4>1. charge.pc = "sync" /\ charge \in ChargeRecord(AnyRead)
        BY ChargeShape DEF I!Sync, HoldsInv
      <4>2. charge.i \in charge.page /\ charge.page \subseteq Sessions
        BY <4>1 DEF HoldsInv, ChargeHolds, ChargeRecord, Handling
      <4>3. invoices[charge.i] # None
        BY <4>1, <4>2 DEF HoldsInv, ChargeHolds
      <4> QED BY <4>2, <4>3 DEF HoldsInv, StoredDocuments, DocumentOf, DocumentAt, FromStripe
    <3> QED BY <1>6, <3>1, ChargeMoves
  <2>2. \A unpaid \in BOOLEAN : I!ChargeInvoices(unpaid) => charge'.pc = "page"
    BY DEF I!ChargeInvoices
  <2>3. I!Idle.pc = "idle"
    BY DEF I!Idle
  <2> QED BY <1>5, <2>1, <2>2, <2>3, ChargeChanges, ChargeMoves
<1> QED BY <1>7, <1>8, <1>9 DEF Once, Later

-----------------------------------------------------------------------------
(* What a billed session shows of its invoice. *)

\* The data of a billed session show the status of its stored invoice, or the
\* run that changed it is about to update them, or the histories excuse it.
Updates(c, i) == c.pc \in {"readTx", "writeTx"} /\ c.i = i

ShownAs(s, data, docs, c, marks) ==
  data.status = "BILLED" =>
    \/ data.shown = docs[data.invoice].status
    \/ Updates(c, data.invoice)
    \/ <<"session", s>> \in marks \/ <<"invoice", data.invoice>> \in marks

ShownNow(s, data) == ShownAs(s, data, invoices, charge, stale \cup interrupted)

ShownInv ==
  /\ \A s \in Sessions : ShownNow(s, tx[s])
  /\ \A s \in Sessions : tx[s].shown # None =>
       tx[s].status # "none" /\ (Free(s) \/ <<"session", s>> \in interrupted)
  /\ bill.pc # "idle" =>
       /\ ShownNow(bill.s, bill.data) \/ tx[bill.s] # bill.was
       /\ bill.was.shown = None \/ <<"session", bill.s>> \in interrupted

LEMMA ShownStays ==
  ASSUME HoldsInv, InvoicingStep, ~I!UpdateTransactionsBillingData,
         NEW s \in Sessions, NEW data, InvoicedNow(s, data), ShownNow(s, data)
  PROVE  ShownAs(s, data, invoices', charge', stale' \cup interrupted')
<1> SUFFICES ASSUME data.status = "BILLED",
                    <<"session", s>> \notin stale' \cup interrupted',
                    <<"invoice", data.invoice>> \notin stale' \cup interrupted'
             PROVE  data.shown = invoices'[data.invoice].status \/ Updates(charge', data.invoice)
  BY DEF ShownAs
<1>1. <<"session", s>> \notin stale \cup interrupted
      /\ <<"invoice", data.invoice>> \notin stale \cup interrupted
  BY HistoryStays
<1>2. data.invoice \in Sessions /\ invoices[data.invoice] # None
  BY DEF InvoicedNow, InvoicedAs
<1>3. data.shown = invoices[data.invoice].status \/ Updates(charge, data.invoice)
  BY <1>1 DEF ShownNow, ShownAs
<1>4. CASE Updates(charge, data.invoice)
  <2>1. charge.pc \in {"readTx", "writeTx"} /\ charge.i = data.invoice
    BY <1>4 DEF Updates
  <2>2. I!Crash => UNCHANGED charge
    <3>1. I!Crash => UNCHANGED charge \/ interrupted' = interrupted \cup
                       (IF charge.i = None THEN {} ELSE {<<"invoice", charge.i>>})
      BY Zenon DEF I!Crash
    <3> QED BY <1>2, <2>1, <3>1, MissingAssumption, SessionsAssumption
  <2>3. ~I!ChargeEnds /\ ~I!ReadPage /\ ~I!Sync /\ ~I!ChargeSavesInvoice
        /\ (\A i \in Sessions : ~I!ChargeInvoice(i) /\ ~I!ChargeFails(i))
    BY <2>1 DEF I!ChargeEnds, I!ReadPage, I!Sync, I!ChargeSavesInvoice, I!ChargeInvoice, I!ChargeFails
  <2>4. \A unpaid \in BOOLEAN : ~I!ChargeInvoices(unpaid)
    BY <2>1 DEF I!ChargeInvoices, I!Idle
  <2>5. charge' = charge \/ I!ReadTransactions
    BY <2>2, <2>3, <2>4, ChargeChanges
  <2>6. CASE charge' = charge
    BY <1>4, <2>6
  <2>7. CASE I!ReadTransactions
    <3>1. charge'.pc = "writeTx" /\ charge'.i = charge.i
      BY <2>7, ChargeMoves
    <3> QED BY <2>1, <3>1 DEF Updates
  <2> QED BY <2>5, <2>6, <2>7
<1>5. CASE data.shown = invoices[data.invoice].status
  <2>1. invoices \in [Sessions -> I!Invoice \cup {None}]
    BY DEF HoldsInv, InvoicesTyped, I!TypeOK
  <2>2. CASE invoices' = invoices
    BY <1>5, <2>2
  <2>3. CASE I!BillSavesInvoice
    <3>1. /\ bill.i \in Sessions /\ bill.s \in Sessions /\ bill.doc \in I!Invoice
          /\ invoices' = [invoices EXCEPT ![bill.i] = I!EnrichInvoice(bill.doc, bill.s)]
      BY <2>3, InvoiceSaved
    <3>2. CASE bill.i = data.invoice
      <4>1. invoices[bill.i] = bill.read /\ bill.read.status = bill.doc.status
        BY <1>2, <2>3, <3>2, SavedOver
      <4>2. invoices'[data.invoice].status = bill.doc.status
        BY <2>1, <3>1, <3>2, EnrichedFacts
      <4> QED BY <1>5, <3>2, <4>1, <4>2
    <3>3. CASE bill.i # data.invoice
      BY <1>2, <1>5, <2>1, <3>1, <3>3
    <3> QED BY <3>2, <3>3
  <2>4. CASE I!ChargeSavesInvoice
    <3>1. charge.i \in Sessions /\ invoices' = [invoices EXCEPT ![charge.i] = charge.doc]
      BY <2>4, InvoiceSaved
    <3>2. charge'.pc = "readTx" /\ charge'.i = charge.i
      BY <2>4, ChargeMoves
    <3> QED BY <1>2, <1>5, <2>1, <3>1, <3>2 DEF Updates
  <2> QED BY <2>2, <2>3, <2>4, Changes
<1> QED BY <1>3, <1>4, <1>5

\* The update at the end of an invoice: a session it does not list shows what
\* it showed.
LEMMA ShownElsewhere ==
  ASSUME HoldsInv, InvoicingStep, I!UpdateTransactionsBillingData,
         NEW s \in Sessions, NEW data, InvoicedNow(s, data), ShownNow(s, data),
         charge.doc.sessions[s] = 0
  PROVE  ShownAs(s, data, invoices', charge', stale' \cup interrupted')
<1> SUFFICES ASSUME data.status = "BILLED",
                    <<"session", s>> \notin stale' \cup interrupted',
                    <<"invoice", data.invoice>> \notin stale' \cup interrupted'
             PROVE  data.shown = invoices'[data.invoice].status
  BY DEF ShownAs
<1>1. <<"session", s>> \notin stale \cup interrupted
      /\ <<"invoice", data.invoice>> \notin stale \cup interrupted
  BY HistoryStays
<1>2. data.shown = invoices[data.invoice].status \/ charge.i = data.invoice
  BY <1>1 DEF ShownNow, ShownAs, Updates
<1>3. charge.i # data.invoice
  <2> SUFFICES ASSUME charge.i = data.invoice PROVE FALSE
    OBVIOUS
  <2>1. invoices[charge.i] = charge.doc
    BY TxSaved
  <2>2. invoices[charge.i].sessions[s] > 0
    BY <1>1 DEF InvoicedNow, InvoicedAs
  <2> QED BY <2>1, <2>2
<1>4. invoices' = invoices
  BY Footprints
<1> QED BY <1>2, <1>3, <1>4

\* ... and one that it lists shows the new status.
LEMMA ShownUpdated ==
  ASSUME HoldsInv, InvoicedInv, InvoicingStep, I!UpdateTransactionsBillingData,
         NEW s \in Sessions, charge.doc.sessions[s] > 0
  PROVE  /\ ShownAs(s, tx'[s], invoices', charge', stale' \cup interrupted')
         /\ tx'[s].shown = charge.doc.status /\ charge.doc.status # None
         /\ tx[s].status # "none"
<1>1. /\ charge.pc = "writeTx" /\ charge \in ChargeRecord([Sessions -> I!BillingData])
      /\ charge.i \in Sessions /\ charge.doc \in I!Invoice
      /\ invoices[charge.i] # charge.doc => <<"invoice", charge.i>> \in stale'
      /\ tx'[s] = [charge.read[s] EXCEPT !.shown = charge.doc.status]
      /\ tx[s] # charge.read[s] => <<"session", s>> \in stale'
  BY TxSaved
<1>2. charge.read[s] \in I!BillingData
  BY <1>1 DEF ChargeRecord
<1>3. /\ tx'[s].status = charge.read[s].status /\ tx'[s].invoice = charge.read[s].invoice
      /\ tx'[s].shown = charge.doc.status
  BY <1>1, <1>2 DEF I!BillingData
<1>4. itemOn[s] = charge.i /\ tx[s].status # "none"
  BY <1>1 DEF HoldsInv, ChargeHolds, DocumentOf, DocumentAt
<1>5. InvoicedNow(s, charge.read[s]) /\ invoices' = invoices
  BY <1>1, Footprints DEF InvoicedInv
<1>6. tx'[s].status = "BILLED" => tx'[s].invoice = charge.i
  BY <1>3, <1>4, <1>5 DEF InvoicedNow, InvoicedAs
<1>7. charge.doc.status # None
  BY <1>1, MissingAssumption DEF I!Invoice
<1> QED BY <1>1, <1>3, <1>4, <1>5, <1>6, <1>7 DEF ShownAs

\* What the task of a session read stays as it was read.
LEMMA WasKept ==
  ASSUME HoldsInv, InvoicingStep, bill'.pc # "idle"
  PROVE  \/ bill.pc # "idle" /\ bill'.was = bill.was /\ bill'.s = bill.s
         \/ /\ bill.pc = "idle" /\ bill'.s \in tasks
            /\ bill'.was = tx[bill'.s] /\ tx' = tx /\ charge' = charge
            /\ bill'.data.status # "BILLED"
<1> DEFINE Goal == bill.pc # "idle" /\ bill'.was = bill.was /\ bill'.s = bill.s
<1>0. bill.pc # "idle" => bill \in BillRecord
  BY BillShape DEF HoldsInv
<1>1. CASE bill' = bill
  BY <1>1
<1>2. ASSUME NEW s \in Sessions, I!BillTransactionAsyncTask(s), bill' # bill
      PROVE  /\ bill.pc = "idle" /\ bill'.s \in tasks
             /\ bill'.was = tx[bill'.s] /\ tx' = tx /\ charge' = charge
             /\ bill'.data.status # "BILLED"
  <2>1. /\ bill = I!Idle /\ s \in tasks /\ tx[s].status = "PENDING"
        /\ bill'.s = s /\ bill'.was = tx[s] /\ bill'.data = tx[s]
    BY <1>2 DEF I!BillTransactionAsyncTask
  <2>2. tx' = tx /\ charge' = charge
    BY <1>2, Footprints
  <2>3. bill.pc = "idle"
    BY <2>1 DEF I!Idle
  <2> QED BY <2>1, <2>2, <2>3
<1>3. ASSUME bill \in BillRecord, NEW pc, NEW i, NEW read, NEW doc, NEW data,
             bill' = [bill EXCEPT !.pc = pc, !.i = i, !.read = read, !.doc = doc, !.data = data]
      PROVE  bill'.was = bill.was /\ bill'.s = bill.s
  BY <1>3 DEF BillRecord
<1>4. bill \in BillRecord =>
        /\ bill = [bill EXCEPT !.pc = bill.pc, !.i = bill.i, !.read = bill.read, !.doc = bill.doc, !.data = bill.data]
        /\ bill.pc # "idle"
  BY DEF BillRecord, OnInvoice
<1>5. CASE I!BillFails
  <2>1. bill.pc # "idle"
    BY <1>5 DEF I!BillFails
  <2>2. PICK data : data = [bill.data EXCEPT !.status = "FAILED"]
    OBVIOUS
  <2>3. bill' = [bill EXCEPT !.pc = "saveTx", !.data = data]
    BY <1>5, <2>2 DEF I!BillFails
  <2> QED BY <1>0, <2>1, <2>3 DEF BillRecord
<1>6. CASE I!CreateStripeInvoiceItems
  <2>1. bill.pc # "idle"
    BY <1>6 DEF I!CreateStripeInvoiceItems
  <2>2. PICK data : data = [bill.data EXCEPT !.status = "FAILED"]
    OBVIOUS
  <2>3. bill' = [bill EXCEPT !.pc = "saveTx", !.data = data]
        \/ bill' = [bill EXCEPT !.pc = "charge"] \/ bill' = [bill EXCEPT !.pc = "refresh"]
    BY <1>6, <2>2 DEF I!CreateStripeInvoiceItems
  <2> QED BY <1>0, <2>1, <2>3 DEF BillRecord
<1>7. CASE I!ChooseInvoice
  <2>1. bill.pc # "idle" /\ \E i : bill' = [bill EXCEPT !.pc = "items", !.i = i]
    BY <1>7 DEF I!ChooseInvoice
  <2>2. PICK i : bill' = [bill EXCEPT !.pc = "items", !.i = i]
    BY <2>1
  <2> QED BY <1>0, <2>1, <2>2 DEF BillRecord
<1>8. CASE I!ChargeImmediately
  <2>1. bill.pc # "idle" /\ bill' = [bill EXCEPT !.pc = "refresh"]
    BY <1>8 DEF I!ChargeImmediately
  <2> QED BY <1>0, <2>1 DEF BillRecord
<1>9. CASE I!Refresh
  <2>1. bill.pc # "idle"
    BY <1>9 DEF I!Refresh
  <2>2. PICK read, doc : read = invoices[bill.i] /\ doc = I!ConvertToBillingInvoice(bill.i)
    OBVIOUS
  <2>3. bill' = [bill EXCEPT !.pc = "saveInvoice", !.read = read, !.doc = doc]
    BY <1>9, <2>2 DEF I!Refresh
  <2> QED BY <1>0, <2>1, <2>3 DEF BillRecord
<1>10. CASE I!BillSavesInvoice
  <2>1. bill.pc # "idle"
    BY <1>10 DEF I!BillSavesInvoice
  <2>2. PICK data : data = [status |-> "BILLED", invoice |-> bill.i, shown |-> bill.doc.status]
    OBVIOUS
  <2>3. bill' = [bill EXCEPT !.pc = "saveTx", !.read = None, !.doc = None, !.data = data]
    BY <1>10, <2>2 DEF I!BillSavesInvoice
  <2> QED BY <1>0, <2>1, <2>3 DEF BillRecord
<1>11. ~I!BillThrows /\ ~I!BillSavesTransaction /\ (I!Crash => bill' = bill)
  <2>1. I!Crash => bill' = I!Idle \/ UNCHANGED bill
    BY Zenon DEF I!Crash
  <2> QED BY <2>1 DEF I!BillThrows, I!BillSavesTransaction, I!Idle
<1> QED BY <1>1, <1>2, <1>5, <1>6, <1>7, <1>8, <1>9, <1>10, <1>11, Changes DEF I!Bill

LEMMA ShownPreserved ==
  ASSUME HoldsInv, InvoicedInv, OnceInv, ShownInv, InvoicingStep
  PROVE  ShownInv'
<1> DEFINE Later(s, data) == ShownAs(s, data, invoices', charge', stale' \cup interrupted')
<1>1. tx \in [Sessions -> I!BillingData]
  BY DEF HoldsInv, InvoicesTyped, I!TypeOK
<1>2. ASSUME NEW s \in Sessions, NEW data, InvoicedNow(s, data), ShownNow(s, data)
      PROVE  \/ Later(s, data)
             \/ I!UpdateTransactionsBillingData /\ charge.doc.sessions[s] > 0
  <2>1. CASE I!UpdateTransactionsBillingData
    BY <1>2, <2>1, ShownElsewhere, TxSaved
  <2> QED BY <1>2, <2>1, ShownStays
<1>3. \A s \in Sessions : \A data : data.status # "BILLED" => Later(s, data)
  BY DEF ShownAs
<1>4. \A s \in Sessions : InvoicedNow(s, tx[s]) /\ ShownNow(s, tx[s])
  BY DEF InvoicedInv, ShownInv
<1>5. bill.pc # "idle" => bill.s \in Sessions /\ bill.s \in tasks /\ InvoicedNow(bill.s, bill.data)
  BY BillShape DEF HoldsInv, BillHolds, BillRecord, InvoicedInv
<1> HIDE DEF Later
<1>6. \A s \in Sessions : Later(s, tx'[s])
  <2>1. CASE tx' = tx
    <3>1. ~I!UpdateTransactionsBillingData \/ \A s \in Sessions : charge.doc.sessions[s] > 0 => Later(s, tx'[s])
      BY ShownUpdated DEF Later
    <3> QED BY <1>2, <1>4, <2>1, <3>1
  <2>2. ASSUME NEW r \in Sessions, I!EndTransaction(r) PROVE \A s \in Sessions : Later(s, tx'[s])
    <3>1. PICK status \in {"PENDING", "UNBILLED"} : tx' = [tx EXCEPT ![r].status = status]
      BY <2>2 DEF I!EndTransaction
    <3>2. tx'[r].status # "BILLED" /\ \A s \in Sessions : s # r => tx'[s] = tx[s]
      BY <1>1, <3>1 DEF I!BillingData
    <3>3. \A s \in Sessions : Later(s, tx[s])
      <4>1. charge' = charge /\ stale' = stale /\ interrupted' = interrupted /\ invoices' = invoices
        BY <2>2, Footprints
      <4> QED BY <1>4, <4>1 DEF ShownNow, Later
    <3> QED BY <1>3, <3>2, <3>3
  <2>3. CASE I!BillSavesTransaction
    <3>1. /\ bill.pc = "saveTx" /\ bill.s \in Sessions
          /\ \A s \in Sessions : tx'[s] = IF s = bill.s THEN bill.data ELSE tx[s]
          /\ tx[bill.s] # bill.was => <<"session", bill.s>> \in stale'
      BY <2>3, TxSaved
    <3>2. ~I!UpdateTransactionsBillingData
      <4>1. charge' = charge
        BY <2>3, Footprints
      <4>2. I!UpdateTransactionsBillingData => charge.pc = "writeTx" /\ charge'.pc = "page"
        BY ChargeMoves
      <4> QED BY <4>1, <4>2
    <3>3. Later(bill.s, bill.data)
      <4>1. CASE ShownNow(bill.s, bill.data)
        BY <1>2, <1>5, <3>1, <3>2, <4>1
      <4>2. CASE tx[bill.s] # bill.was
        BY <3>1, <4>2 DEF Later, ShownAs
      <4> QED BY <3>1, <4>1, <4>2 DEF ShownInv
    <3>4. \A s \in Sessions : Later(s, tx[s])
      BY <1>2, <1>4, <3>2
    <3> QED BY <3>1, <3>3, <3>4
  <2>4. CASE I!UpdateTransactionsBillingData
    <3> SUFFICES ASSUME NEW s \in Sessions PROVE Later(s, tx'[s])
      OBVIOUS
    <3>1. CASE charge.doc.sessions[s] > 0
      BY <2>4, <3>1, ShownUpdated DEF Later
    <3>2. CASE tx'[s] = tx[s] /\ charge.doc.sessions[s] = 0
      BY <2>4, <3>2, <1>4, ShownElsewhere DEF Later
    <3> QED BY <2>4, <3>1, <3>2, TxSaved
  <2> QED BY <2>1, <2>2, <2>3, <2>4, Changes
<1>7. ASSUME NEW s \in Sessions, tx'[s].shown # None
      PROVE  tx'[s].status # "none" /\ (Free(s)' \/ <<"session", s>> \in interrupted')
  <2>1. CASE tx[s].shown # None
    <3>1. tx[s].status # "none" /\ (Free(s) \/ <<"session", s>> \in interrupted)
      BY <2>1 DEF ShownInv
    <3> QED BY <3>1, FreeStays, HistoryStays, TxStep
  <2>2. CASE tx[s].shown = None
    <3>1. \A r \in Sessions : ~I!EndTransaction(r)
      <4> SUFFICES ASSUME NEW r \in Sessions, I!EndTransaction(r) PROVE FALSE
        OBVIOUS
      <4>1. PICK status : tx' = [tx EXCEPT ![r].status = status]
        BY DEF I!EndTransaction
      <4>2. tx'[s].shown = tx[s].shown
        BY <1>1, <4>1 DEF I!BillingData
      <4> QED BY <1>7, <2>2, <4>2
    <3>2. CASE I!BillSavesTransaction
      <4>1. s = bill.s /\ tx'[s] = bill.data /\ bill.pc = "saveTx"
        BY <1>7, <2>2, <3>2, TxSaved
      <4>2. s \notin tasks'
        BY <3>2, <4>1 DEF I!BillSavesTransaction
      <4>3. bill.data.status # "none"
        BY <4>1 DEF HoldsInv, BillHolds
      <4> QED BY <4>1, <4>2, <4>3 DEF Free
    <3>3. CASE I!UpdateTransactionsBillingData
      <4>1. charge.doc.sessions[s] > 0 /\ charge.pc = "writeTx"
        BY <1>7, <2>2, <3>3, TxSaved
      <4>2. tx[s].status # "none"
        BY <3>3, <4>1, ShownUpdated
      <4>3. Free(s) \/ <<"session", s>> \in interrupted
        BY <4>1 DEF OnceInv, Once
      <4> QED BY <4>2, <4>3, FreeStays, HistoryStays, TxStep
    <3> QED BY <1>7, <2>2, <3>1, <3>2, <3>3, Changes
  <2> QED BY <2>1, <2>2
<1>8. ASSUME bill'.pc # "idle"
      PROVE  /\ Later(bill'.s, bill'.data) \/ tx'[bill'.s] # bill'.was
             /\ bill'.was.shown = None \/ <<"session", bill'.s>> \in interrupted'
  <2>1. bill'.s \in Sessions
    BY <1>8, BillStep DEF BillHolds, BillRecord, I!Idle
  <2>2. CASE /\ bill.pc = "idle" /\ bill'.s \in tasks
             /\ bill'.was = tx[bill'.s] /\ tx' = tx /\ charge' = charge
             /\ bill'.data.status # "BILLED"
    <3>1. bill'.was.shown = None \/ <<"session", bill'.s>> \in interrupted
      BY <2>1, <2>2 DEF ShownInv, Free
    <3> QED BY <1>3, <2>1, <2>2, <3>1, HistoryStays
  <2>3. CASE bill.pc # "idle" /\ bill'.was = bill.was /\ bill'.s = bill.s
    <3>1. bill.was.shown = None \/ <<"session", bill.s>> \in interrupted
      BY <2>3 DEF ShownInv
    <3>2. bill'.was.shown = None \/ <<"session", bill'.s>> \in interrupted'
      BY <2>3, <3>1, HistoryStays
    <3>3. CASE <<"session", bill.s>> \in interrupted'
      BY <2>3, <3>2, <3>3 DEF Later, ShownAs
    <3>4. CASE bill'.data.status # "BILLED"
      BY <1>3, <2>1, <3>2, <3>4
    <3>5. CASE /\ <<"session", bill.s>> \notin interrupted' /\ I!BillSavesInvoice
               /\ bill'.data = [status |-> "BILLED", invoice |-> bill.i, shown |-> bill.doc.status]
      <4>1. /\ bill.i \in Sessions /\ bill.s \in Sessions /\ bill.doc \in I!Invoice
            /\ invoices' = [invoices EXCEPT ![bill.i] = I!EnrichInvoice(bill.doc, bill.s)]
        BY <3>5, InvoiceSaved
      <4>2. invoices \in [Sessions -> I!Invoice \cup {None}]
        BY DEF HoldsInv, InvoicesTyped, I!TypeOK
      <4>3. invoices'[bill.i].status = bill.doc.status
        BY <4>1, <4>2, EnrichedFacts
      <4> QED BY <2>3, <3>2, <3>5, <4>3 DEF Later, ShownAs
    <3>6. CASE bill'.data = bill.data /\ <<"session", bill.s>> \notin interrupted'
      <4> DEFINE Listed == I!UpdateTransactionsBillingData /\ charge.doc.sessions[bill.s] > 0
      <4>1. bill.was.shown = None
        BY <3>1, <3>6, HistoryStays
      <4>2. CASE Listed
        <5>1. tx'[bill.s].shown # None
          BY <1>5, <2>3, <4>2, ShownUpdated
        <5> QED BY <2>3, <3>2, <4>1, <5>1
      <4>3. CASE ShownNow(bill.s, bill.data) /\ ~Listed
        <5>1. Later(bill.s, bill.data)
          BY <1>2, <1>5, <2>3, <4>3
        <5> QED BY <2>3, <3>2, <3>6, <5>1
      <4>4. CASE tx[bill.s] # bill.was /\ ~Listed
        <5>1. \A r \in Sessions : I!EndTransaction(r) => tx'[bill.s] = tx[bill.s]
          <6> SUFFICES ASSUME NEW r \in Sessions, I!EndTransaction(r) PROVE tx'[bill.s] = tx[bill.s]
            OBVIOUS
          <6>1. tx[r].status = "none" /\ \E status : tx' = [tx EXCEPT ![r].status = status]
            BY DEF I!EndTransaction
          <6>2. bill.s # r
            BY <1>5, <2>3, <6>1 DEF HoldsInv, TasksLive
          <6> QED BY <1>1, <1>5, <2>3, <6>1, <6>2
        <5>2. ~I!BillSavesTransaction
          BY <1>8 DEF I!BillSavesTransaction, I!Idle
        <5>3. I!UpdateTransactionsBillingData => tx'[bill.s] = tx[bill.s]
          BY <1>5, <2>3, <4>4, TxSaved
        <5>4. tx'[bill.s] = tx[bill.s]
          BY <5>1, <5>2, <5>3, Changes
        <5> QED BY <2>3, <3>2, <4>4, <5>4
      <4> QED BY <2>3, <4>2, <4>3, <4>4 DEF ShownInv
    <3> QED BY <1>8, <3>3, <3>4, <3>5, <3>6, DataMoves
  <2> QED BY <1>8, <2>2, <2>3, WasKept
<1>9. \A s \in Sessions : ShownNow(s, tx[s])'
  BY <1>6 DEF ShownNow, Later
<1>10. bill'.pc # "idle" => ShownNow(bill.s, bill.data)' \/ tx'[bill'.s] # bill'.was
  BY <1>8 DEF ShownNow, Later
<1> QED BY <1>7, <1>8, <1>9, <1>10 DEF ShownInv

-----------------------------------------------------------------------------
(* The pages of a run. *)

\* Where a run stands depends on the order of the listed invoices alone.
LEMMA SameOrder ==
  ASSUME NEW L, NEW R, NEW RR, \A i, j \in L : <<i, j>> \in R <=> <<i, j>> \in RR,
         NEW scope, NEW done \in SUBSET L, NEW left \in SUBSET L, NEW at
  PROVE  /\ InPlace(R, L, scope, done, left, at) => InPlace(RR, L, scope, done, left, at)
         /\ Overrun(R, L, scope, left, at) => Overrun(RR, L, scope, left, at)
<1>1. ASSUME InPlace(R, L, scope, done, left, at)
      PROVE  InPlace(RR, L, scope, done, left, at)
  BY <1>1 DEF InPlace
<1>2. ASSUME Overrun(R, L, scope, left, at)
      PROVE  Overrun(RR, L, scope, left, at)
  <2>1. \A j \in L : Below(R, L, j) = Below(RR, L, j) /\ Above(R, left, j) = Above(RR, left, j)
    BY DEF Below, Above
  <2>2. PICK j \in L \ scope :
          j \notin left /\ at > Cardinality(Below(R, L, j)) + Cardinality(Above(R, left, j))
    BY <1>2 DEF Overrun
  <2>3. at > Cardinality(Below(RR, L, j)) + Cardinality(Above(RR, left, j))
    BY <2>1, <2>2
  <2> QED BY <2>2, <2>3 DEF Overrun
<1> QED BY <1>1, <1>2

\* The invoices that a run asks for, in the order of their dates.
Wanted(c, doc) ==
  doc # None /\ doc.status = (IF c.unpaid THEN "open" ELSE "draft") /\ doc.on \in c.window

ListOf(c, docs) == {i \in Sessions : Wanted(c, docs[i])}

OrderOf(docs) ==
  {x \in Sessions \X Sessions :
     docs[x[1]].on < docs[x[2]].on \/ (docs[x[1]].on = docs[x[2]].on /\ x[1] < x[2])}

\* What is left of the page, which invoices were taken of those that are still
\* listed, and the position after the page, as they are once the invoice that
\* was saved has been counted.
LeftOf(c) == IF c.pc \in {"readTx", "writeTx"} THEN c.page \ {c.i} ELSE c.page
TakenOf(c, docs) == {i \in ListOf(c, docs) : c.seen[i] > 0 /\ i \notin LeftOf(c)}
PositionOf(c) == IF c.pc \in {"readTx", "writeTx"} THEN c.skip - I!OutOfScope(c) ELSE c.skip

InOrder(c, docs) ==
  /\ InPlace(OrderOf(docs), ListOf(c, docs), c.scope, TakenOf(c, docs), LeftOf(c), PositionOf(c))
  /\ \A i \in Sessions : c.seen[i] <= 1
  /\ \A i \in LeftOf(c) : c.seen[i] = IF i = c.i THEN 1 ELSE 0
  /\ c.pc = "end" => ListOf(c, docs) \cap c.scope \subseteq TakenOf(c, docs)

Overtaken(c, docs) ==
  Overrun(OrderOf(docs), ListOf(c, docs), c.scope, LeftOf(c), PositionOf(c))

Tracks(c, docs) ==
  /\ LeftOf(c) \subseteq ListOf(c, docs)
  /\ \A i \in c.scope \ ListOf(c, docs) : c.seen[i] > 0
  /\ c.pc \in {"sync", "save"} => \A j \in c.page : <<j, c.i>> \notin OrderOf(docs)
  /\ InOrder(c, docs) \/ Overtaken(c, docs)

PagesKept(c, docs) ==
  /\ \A i \in Sessions : c.seen[i] > 0 => docs[i] # None
  /\ \A i \in c.scope : docs[i] # None
  /\ c.pc \in Handling => c.seen[c.i] > 0
  /\ c.pc = "end" => c.page = {}

PagingInv ==
  charge.pc # "idle" =>
    /\ PagesKept(charge, invoices)
    /\ stale = {} => Tracks(charge, invoices)

\* The list of a run is finite, and sorted.
LEMMA ListSorted ==
  ASSUME NEW docs \in [Sessions -> I!Invoice \cup {None}], NEW c
  PROVE  IsFiniteSet(ListOf(c, docs)) /\ IsOrder(OrderOf(docs), ListOf(c, docs))
<1>1. IsFiniteSet(ListOf(c, docs))
  BY SessionsAssumption, FS_Subset DEF ListOf
<1>2. \A i \in ListOf(c, docs) : i \in Sessions /\ i \in Nat /\ docs[i].on \in Nat
  BY SessionsAssumption, InvoicingAssumption DEF ListOf, Wanted, I!Invoice
<1>3. \A i, j \in ListOf(c, docs) :
        <<i, j>> \in OrderOf(docs) <=>
          docs[i].on < docs[j].on \/ (docs[i].on = docs[j].on /\ i < j)
  BY DEF OrderOf, ListOf
<1> HIDE DEF ListOf
<1>4. IsOrder(OrderOf(docs), ListOf(c, docs))
  BY <1>2, <1>3 DEF IsOrder
<1> QED BY <1>1, <1>4

\* A list and its order, when documents stay or change.
LEMMA OrderStays ==
  ASSUME NEW docs, NEW after, NEW L \in SUBSET Sessions, \A i \in L : docs[i].on = after[i].on
  PROVE  \A i, j \in L : <<i, j>> \in OrderOf(docs) <=> <<i, j>> \in OrderOf(after)
  BY DEF OrderOf

\* A run goes on where it is.
LEMMA Carried ==
  ASSUME NEW c, NEW d, NEW docs, NEW after, Tracks(c, docs),
         ListOf(d, after) = ListOf(c, docs),
         \A i, j \in ListOf(c, docs) : <<i, j>> \in OrderOf(docs) <=> <<i, j>> \in OrderOf(after),
         LeftOf(d) = LeftOf(c), PositionOf(d) = PositionOf(c), d.scope = c.scope, d.seen = c.seen,
         \A i \in LeftOf(c) : i = d.i <=> i = c.i,
         d.pc = "end" => c.pc = "end",
         d.pc \in {"sync", "save"} => c.pc \in {"sync", "save"} /\ d.i = c.i /\ d.page = c.page /\ c.i \in c.page
  PROVE  Tracks(d, after)
<1>1. TakenOf(d, after) = TakenOf(c, docs)
  BY DEF TakenOf
<1>2. LeftOf(c) \subseteq ListOf(c, docs) /\ TakenOf(c, docs) \subseteq ListOf(c, docs)
  BY DEF Tracks, TakenOf
<1>3. d.pc \in {"sync", "save"} => \A j \in d.page : <<j, d.i>> \notin OrderOf(after)
  <2>1. c.pc \in {"sync", "save"} => c.page \subseteq ListOf(c, docs)
    BY <1>2 DEF LeftOf
  <2> QED BY <2>1 DEF Tracks
<1>4. InOrder(c, docs) => InOrder(d, after)
  <2>1. InOrder(c, docs) =>
          InPlace(OrderOf(after), ListOf(d, after), d.scope, TakenOf(d, after), LeftOf(d), PositionOf(d))
    BY <1>1, <1>2, SameOrder DEF InOrder
  <2> QED BY <1>1, <2>1 DEF InOrder
<1>5. Overtaken(c, docs) => Overtaken(d, after)
  BY <1>1, <1>2, SameOrder DEF Overtaken
<1> QED BY <1>2, <1>3, <1>4, <1>5 DEF Tracks

\* One cardinality.
LEMMA SameCardinality == \A L : I!Cardinality(L) = Cardinality(L)
  BY DEF I!Cardinality, Cardinality

\* The page that is read is a part of the list.
LEMMA PageOf ==
  ASSUME HoldsInv, charge.pc # "idle"
  PROVE  /\ {i \in Sessions : I!Match(charge, i)} = ListOf(charge, invoices)
         /\ I!GetInvoices(charge, charge.skip) =
              Part(OrderOf(invoices), ListOf(charge, invoices), charge.skip, PageSize)
         /\ \A i, j \in Sessions : I!Before(j, i) <=> <<j, i>> \in OrderOf(invoices)
<1>1. {i \in Sessions : I!Match(charge, i)} = ListOf(charge, invoices)
  BY DEF ListOf, Wanted, I!Match
<1>2. \A i, j \in Sessions : I!Before(j, i) <=> <<j, i>> \in OrderOf(invoices)
  BY DEF I!Before, OrderOf
<1>3. \A i \in ListOf(charge, invoices) :
        {j \in ListOf(charge, invoices) : I!Before(j, i)}
          = Below(OrderOf(invoices), ListOf(charge, invoices), i)
  BY <1>2 DEF Below, ListOf
<1>4. I!GetInvoices(charge, charge.skip) =
        {i \in ListOf(charge, invoices) :
           Cardinality({j \in ListOf(charge, invoices) : I!Before(j, i)})
             \in charge.skip .. charge.skip + PageSize - 1}
  <2> DEFINE page(L) == {i \in L : Cardinality({j \in L : I!Before(j, i)})
                                   \in charge.skip .. charge.skip + PageSize - 1}
             all == {i \in Sessions : I!Match(charge, i)}
  <2>1. I!GetInvoices(charge, charge.skip) = page(all)
    BY SameCardinality DEF I!GetInvoices
  <2>2. all = ListOf(charge, invoices)
    BY <1>1
  <2> HIDE DEF all
  <2>3. page(all) = page(ListOf(charge, invoices))
    BY <2>2
  <2> QED BY <2>1, <2>3
<1>5. I!GetInvoices(charge, charge.skip) =
        Part(OrderOf(invoices), ListOf(charge, invoices), charge.skip, PageSize)
  BY <1>3, <1>4 DEF Part
<1> QED BY <1>1, <1>2, <1>5
\* The first and the next page of a run.
LEMMA RunStarts ==
  ASSUME HoldsInv, NEW unpaid \in BOOLEAN, I!ChargeInvoices(unpaid)
  PROVE  charge'.pc # "idle" /\ PagesKept(charge', invoices) /\ Tracks(charge', invoices)
<1>1. PICK begun :
        /\ begun = [pc |-> "page", unpaid |-> unpaid, window |-> IF unpaid THEN I!RetryWindow ELSE I!PeriodicWindow,
                  skip |-> 0, page |-> {}, i |-> None, read |-> None, doc |-> None,
                  scope |-> {}, seen |-> [i \in Sessions |-> 0]]
        /\ charge' = [begun EXCEPT !.scope = {i \in Sessions : I!Match(begun, i)}]
  BY DEF I!ChargeInvoices
<1>2. PICK scope : scope = {i \in Sessions : I!Match(begun, i)}
  OBVIOUS
<1>3. charge' = [begun EXCEPT !.scope = scope]
  BY <1>1, <1>2
<1>4. /\ charge'.pc = "page" /\ charge'.page = {} /\ charge'.skip = 0
      /\ charge'.seen = [i \in Sessions |-> 0] /\ charge'.scope = scope
      /\ charge'.unpaid = begun.unpaid /\ charge'.window = begun.window
  BY <1>1, <1>3
<1>5. ListOf(charge', invoices) = scope
  BY <1>2, <1>4 DEF ListOf, Wanted, I!Match
<1>6. LeftOf(charge') = {} /\ PositionOf(charge') = 0
  BY <1>4 DEF LeftOf, PositionOf
<1>7. TakenOf(charge', invoices) = {}
  BY <1>4, <1>5 DEF TakenOf, ListOf
<1>8. InPlace(OrderOf(invoices), scope, scope, {}, {}, 0)
  BY FS_EmptySet DEF InPlace
<1>9. InOrder(charge', invoices)
  BY <1>4, <1>5, <1>6, <1>7, <1>8 DEF InOrder
<1>10. Tracks(charge', invoices)
  BY <1>4, <1>5, <1>6, <1>9 DEF Tracks
<1>11. PagesKept(charge', invoices)
  BY <1>4, <1>5 DEF PagesKept, ListOf, Wanted, Handling
<1> QED BY <1>4, <1>10, <1>11

LEMMA RunReads ==
  ASSUME HoldsInv, PagingInv, I!ReadPage
  PROVE  PagesKept(charge', invoices) /\ (stale = {} => Tracks(charge', invoices))
<1> DEFINE list == ListOf(charge, invoices)
           R == OrderOf(invoices)
           taken == TakenOf(charge, invoices)
<1>1. /\ charge.pc = "page" /\ charge.page = {} /\ SameRun
      /\ charge'.seen = charge.seen /\ charge'.i = charge.i
      /\ \/ /\ I!GetInvoices(charge, charge.skip) = {}
            /\ charge'.pc = "end" /\ charge'.page = {} /\ charge'.skip = charge.skip
         \/ /\ charge'.page = I!GetInvoices(charge, charge.skip)
            /\ charge'.pc = "page" /\ charge'.skip = charge.skip + PageSize
  BY ChargeMoves
<1>2. charge \in ChargeRecord(AnyRead)
  BY <1>1, ChargeShape DEF HoldsInv
<1>3. charge.seen \in [Sessions -> Nat] /\ charge.skip \in Int /\ charge.i = None
  BY <1>1, <1>2 DEF ChargeRecord, HoldsInv, ChargeHolds, Handling
<1>4. PagesKept(charge', invoices)
  BY <1>1 DEF PagingInv, PagesKept, SameRun, Handling
<1>5. ASSUME stale = {} PROVE Tracks(charge', invoices)
  <2>1. Tracks(charge, invoices)
    BY <1>1, <1>5 DEF PagingInv
  <2>2. ListOf(charge', invoices) = list
    BY <1>1 DEF ListOf, Wanted, SameRun
  <2>3. LeftOf(charge) = {} /\ PositionOf(charge) = charge.skip
        /\ LeftOf(charge') = charge'.page /\ PositionOf(charge') = charge'.skip
    BY <1>1 DEF LeftOf, PositionOf
  <2>4. I!GetInvoices(charge, charge.skip) = Part(R, list, charge.skip, PageSize)
    BY <1>1, PageOf
  <2> DEFINE page == Part(R, list, charge.skip, PageSize)
  <2>5. taken \subseteq list /\ page \subseteq list
    BY DEF TakenOf, Part
  <2>6. /\ InPlace(R, list, charge.scope, taken, {}, charge.skip) =>
             /\ page \cap taken = {}
             /\ InPlace(R, list, charge.scope, taken, page, charge.skip + PageSize)
             /\ page = {} => list = taken
        /\ Overrun(R, list, charge.scope, {}, charge.skip) =>
             Overrun(R, list, charge.scope, page, charge.skip + PageSize)
    <3>1. IsFiniteSet(list) /\ IsOrder(R, list)
      BY ListSorted DEF HoldsInv, InvoicesTyped, I!TypeOK
    <3>2. taken \in SUBSET list /\ charge.skip \in Int /\ PageSize \in Nat \ {0}
      BY <1>3, <2>5, InvoicingAssumption
    <3> HIDE DEF list, R, taken
    <3>3. \A scope :
            /\ InPlace(R, list, scope, taken, {}, charge.skip) =>
                 /\ page \cap taken = {}
                 /\ InPlace(R, list, scope, taken, page, charge.skip + PageSize)
                 /\ page = {} => list = taken
            /\ Overrun(R, list, scope, {}, charge.skip) =>
                 Overrun(R, list, scope, page, charge.skip + PageSize)
      BY <3>1, <3>2, PageRead
    <3> QED BY <3>3
  <2>7. charge'.page \subseteq list
    BY <1>1, <2>4, <2>5
  <2>8. charge'.page \cap taken = {} => TakenOf(charge', invoices) = taken
    BY <1>1, <2>2, <2>3 DEF TakenOf
  <2> HIDE DEF list, R, taken, page
  <2>9. InOrder(charge, invoices) => InOrder(charge', invoices)
    <3> SUFFICES ASSUME InOrder(charge, invoices) PROVE InOrder(charge', invoices)
      OBVIOUS
    <3>1. InPlace(R, list, charge.scope, taken, {}, charge.skip)
      BY <2>3 DEF InOrder, list, R, taken
    <3>2. page \cap taken = {} /\ InPlace(R, list, charge.scope, taken, page, charge.skip + PageSize)
          /\ (page = {} => list = taken)
      BY <2>6, <3>1
    <3>3. TakenOf(charge', invoices) = taken
      BY <1>1, <2>4, <2>8, <3>2 DEF page
    <3>4. InPlace(R, list, charge.scope, taken, charge'.page, charge'.skip)
      BY <1>1, <2>4, <3>1, <3>2 DEF page
    <3>5. charge'.pc = "end" => list = taken
      BY <1>1, <2>4, <3>2 DEF page
    <3>6. \A i \in charge'.page : charge'.seen[i] = IF i = charge'.i THEN 1 ELSE 0
      <4> SUFFICES ASSUME NEW i \in charge'.page PROVE charge.seen[i] = 0 /\ i # None
        BY <1>1, <1>3
      <4>1. i \in page /\ i \in list /\ i \notin taken
        BY <1>1, <2>4, <2>7, <3>2 DEF page
      <4>2. i \in Sessions /\ ~(charge.seen[i] > 0)
        BY <2>3, <4>1 DEF taken, list, TakenOf, ListOf
      <4> QED BY <1>3, <4>2, MissingAssumption, SessionsAssumption
    <3>7. \A i \in Sessions : charge'.seen[i] <= 1
      BY <1>1 DEF InOrder
    <3> QED BY <1>1, <2>2, <2>3, <3>3, <3>4, <3>5, <3>6, <3>7 DEF InOrder, R, SameRun
  <2>10. Overtaken(charge, invoices) => Overtaken(charge', invoices)
    <3> SUFFICES ASSUME Overtaken(charge, invoices) PROVE Overtaken(charge', invoices)
      OBVIOUS
    <3>1. Overrun(R, list, charge.scope, {}, charge.skip)
      BY <2>3 DEF Overtaken, list, R
    <3>2. Overrun(R, list, charge.scope, charge'.page, charge'.skip)
      BY <1>1, <2>4, <2>6, <3>1 DEF page
    <3> QED BY <1>1, <2>2, <2>3, <3>2 DEF Overtaken, R, SameRun
  <2>11. \A i \in charge'.scope \ list : charge'.seen[i] > 0
    BY <1>1, <2>1 DEF Tracks, SameRun, list
  <2> QED BY <1>1, <2>1, <2>2, <2>3, <2>7, <2>9, <2>10, <2>11 DEF Tracks
<1> QED BY <1>4, <1>5
\* The invoices of a page are taken in their order.
LEMMA NextOfPage ==
  ASSUME HoldsInv, charge.pc = "page", NEW i \in Sessions, I!IsNext(i)
  PROVE  /\ i \in charge.page /\ charge.page \subseteq Sessions /\ charge.i = None /\ invoices[i] # None
         /\ LeftOf(charge) = charge.page /\ PositionOf(charge) = charge.skip
         /\ \A j \in charge.page : <<j, i>> \notin OrderOf(invoices)
<1>1. charge \in ChargeRecord(AnyRead)
  BY ChargeShape DEF HoldsInv
<1>2. charge.page \subseteq Sessions
  BY <1>1 DEF ChargeRecord
<1>3. i \in charge.page /\ \A j \in charge.page : ~I!Before(j, i)
  BY DEF I!IsNext
<1>4. \A j \in charge.page : <<j, i>> \notin OrderOf(invoices)
  BY <1>2, <1>3, PageOf
<1>5. charge.i = None /\ invoices[i] # None
  BY <1>3 DEF HoldsInv, ChargeHolds, Handling
<1> QED BY <1>2, <1>3, <1>4, <1>5 DEF LeftOf, PositionOf

LEMMA RunTakes ==
  ASSUME HoldsInv, PagingInv, NEW i \in Sessions, I!ChargeInvoice(i)
  PROVE  PagesKept(charge', invoices) /\ (stale = {} => Tracks(charge', invoices))
<1>1. /\ charge.pc = "page" /\ I!IsNext(i) /\ SameRun
      /\ charge'.pc = "sync" /\ charge'.i = i /\ charge'.page = charge.page
      /\ charge'.skip = charge.skip
      /\ charge'.seen = [charge.seen EXCEPT ![i] = charge.seen[i] + 1]
  BY ChargeMoves
<1>2. charge.seen \in [Sessions -> Nat]
  BY <1>1, ChargeShape DEF HoldsInv, ChargeRecord
<1>3. /\ i \in charge.page /\ charge.page \subseteq Sessions /\ charge.i = None /\ invoices[i] # None
      /\ LeftOf(charge) = charge.page /\ PositionOf(charge) = charge.skip
      /\ \A j \in charge.page : <<j, i>> \notin OrderOf(invoices)
  BY <1>1, NextOfPage
<1>4. \A j \in Sessions : charge'.seen[j] = IF j = i THEN charge.seen[j] + 1 ELSE charge.seen[j]
  BY <1>1, <1>2
<1>5. PagesKept(charge', invoices)
  BY <1>1, <1>2, <1>3, <1>4 DEF PagingInv, PagesKept, SameRun
<1>6. ASSUME stale = {} PROVE Tracks(charge', invoices)
  <2>1. Tracks(charge, invoices)
    BY <1>1, <1>6 DEF PagingInv
  <2>2. ListOf(charge', invoices) = ListOf(charge, invoices)
    BY <1>1 DEF ListOf, Wanted, SameRun
  <2>3. LeftOf(charge') = charge.page /\ PositionOf(charge') = charge.skip
    BY <1>1 DEF LeftOf, PositionOf
  <2>4. TakenOf(charge', invoices) = TakenOf(charge, invoices)
    BY <1>3, <1>4, <2>2, <2>3 DEF TakenOf, ListOf
  <2>5. \A j \in charge'.scope \ ListOf(charge', invoices) : charge'.seen[j] > 0
    <3>1. charge.scope \subseteq Sessions
      BY <1>1, ChargeShape DEF HoldsInv, ChargeRecord
    <3> QED BY <1>1, <1>2, <1>4, <2>1, <2>2, <3>1 DEF Tracks, SameRun
  <2>6. InOrder(charge, invoices) => InOrder(charge', invoices)
    <3> SUFFICES ASSUME InOrder(charge, invoices) PROVE InOrder(charge', invoices)
      OBVIOUS
    <3>1. \A j \in charge.page : charge.seen[j] = 0
      BY <1>3, MissingAssumption, SessionsAssumption DEF InOrder
    <3>2. \A j \in charge.page : charge'.seen[j] = IF j = charge'.i THEN 1 ELSE 0
      BY <1>1, <1>3, <1>4, <3>1
    <3>3. \A j \in Sessions : charge'.seen[j] <= 1
      BY <1>3, <1>4, <3>1 DEF InOrder
    <3>4. InPlace(OrderOf(invoices), ListOf(charge', invoices), charge'.scope, TakenOf(charge', invoices),
                  LeftOf(charge'), PositionOf(charge'))
      BY <1>1, <1>3, <2>2, <2>3, <2>4 DEF InOrder, SameRun
    <3> QED BY <1>1, <2>3, <3>2, <3>3, <3>4 DEF InOrder
  <2>7. Overtaken(charge, invoices) => Overtaken(charge', invoices)
    BY <1>1, <1>3, <2>2, <2>3 DEF Overtaken, SameRun
  <2> QED BY <1>1, <1>3, <2>1, <2>2, <2>3, <2>5, <2>6, <2>7 DEF Tracks
<1> QED BY <1>5, <1>6

LEMMA RunLeaves ==
  ASSUME HoldsInv, PagingInv, NEW i \in Sessions, I!ChargeFails(i)
  PROVE  PagesKept(charge', invoices) /\ (stale = {} => Tracks(charge', invoices))
<1>1. /\ \/ charge.pc = "page" /\ I!IsNext(i)
            /\ charge'.seen = [charge.seen EXCEPT ![i] = charge.seen[i] + 1]
         \/ charge.pc = "sync" /\ i = charge.i /\ charge'.seen = charge.seen
      /\ SameRun /\ charge'.pc = "page" /\ charge'.i = None
      /\ charge'.page = charge.page \ {i} /\ charge'.skip = charge.skip
  BY ChargeMoves
<1>2. charge.seen \in [Sessions -> Nat] /\ charge.page \subseteq Sessions
      /\ charge.scope \subseteq Sessions /\ charge.skip \in Int
  BY <1>1, ChargeShape DEF HoldsInv, ChargeRecord
<1>3. \A j \in Sessions :
        /\ charge'.seen[j] \in Nat /\ charge'.seen[j] >= charge.seen[j]
        /\ j # i => charge'.seen[j] = charge.seen[j]
  BY <1>1, <1>2
<1>4. i \in charge.page /\ invoices[i] # None
  <2>1. CASE charge.pc = "page"
    BY <1>1, <2>1, NextOfPage
  <2>2. CASE charge.pc = "sync" /\ i = charge.i
    BY <2>2 DEF HoldsInv, ChargeHolds, Handling
  <2> QED BY <1>1, <2>1, <2>2
<1>5. charge'.seen[i] > 0
  BY <1>1, <1>2 DEF PagingInv, PagesKept, Handling
<1>6. PagesKept(charge', invoices)
  BY <1>1, <1>2, <1>3, <1>4 DEF PagingInv, PagesKept, SameRun, Handling
<1>7. ASSUME stale = {} PROVE Tracks(charge', invoices)
  <2> DEFINE list == ListOf(charge, invoices)
             R == OrderOf(invoices)
             taken == TakenOf(charge, invoices)
  <2>1. Tracks(charge, invoices)
    BY <1>1, <1>7 DEF PagingInv
  <2>2. ListOf(charge', invoices) = list
    BY <1>1 DEF ListOf, Wanted, SameRun
  <2>3. /\ LeftOf(charge) = charge.page /\ PositionOf(charge) = charge.skip
        /\ LeftOf(charge') = charge.page \ {i} /\ PositionOf(charge') = charge.skip
    BY <1>1 DEF LeftOf, PositionOf
  <2>4. charge.page \subseteq list
    BY <2>1, <2>3 DEF Tracks
  <2>5. TakenOf(charge', invoices) = taken \cup {i}
    BY <1>3, <1>4, <1>5, <2>2, <2>3, <2>4 DEF TakenOf, ListOf
  <2>6. i \notin taken /\ taken \subseteq list
    BY <1>4, <2>3 DEF TakenOf
  <2>7. \A j \in charge.page : <<j, i>> \notin R
    <3>1. CASE charge.pc = "page"
      BY <1>1, <3>1, NextOfPage
    <3>2. CASE charge.pc = "sync" /\ i = charge.i
      BY <2>1, <3>2 DEF Tracks
    <3> QED BY <1>1, <3>1, <3>2
  <2>8. /\ InPlace(R, list, charge.scope, taken, charge.page, charge.skip) =>
             \/ InPlace(R, list, charge.scope, taken \cup {i}, charge.page \ {i}, charge.skip)
             \/ Overrun(R, list, charge.scope, charge.page \ {i}, charge.skip)
        /\ Overrun(R, list, charge.scope, charge.page, charge.skip) =>
             Overrun(R, list, charge.scope, charge.page \ {i}, charge.skip)
    <3>1. IsFiniteSet(list) /\ IsOrder(R, list)
      BY ListSorted DEF HoldsInv, InvoicesTyped, I!TypeOK
    <3>2. taken \in SUBSET list /\ charge.page \in SUBSET list /\ charge.skip \in Int
      BY <1>2, <2>4, <2>6
    <3> HIDE DEF list, R, taken
    <3> QED BY <1>4, <2>6, <2>7, <3>1, <3>2, OneStays
  <2>9. \A j \in charge'.scope \ list : charge'.seen[j] > 0
    <3> SUFFICES ASSUME NEW j \in charge.scope \ list PROVE charge'.seen[j] > 0
      BY <1>1 DEF SameRun
    <3>1. charge.seen[j] > 0 /\ j \in Sessions
      BY <1>2, <2>1 DEF Tracks
    <3> QED BY <1>2, <1>3, <3>1
  <2> HIDE DEF list, R, taken
  <2>10. InOrder(charge, invoices) => InOrder(charge', invoices) \/ Overtaken(charge', invoices)
    <3> SUFFICES ASSUME InOrder(charge, invoices)
                 PROVE  InOrder(charge', invoices) \/ Overtaken(charge', invoices)
      OBVIOUS
    <3>1. InPlace(R, list, charge.scope, taken, charge.page, charge.skip)
      BY <2>3 DEF InOrder, R, list, taken
    <3>2. CASE InPlace(R, list, charge.scope, taken \cup {i}, charge.page \ {i}, charge.skip)
      <4>1. \A j \in charge.page : charge.seen[j] = IF j = charge.i THEN 1 ELSE 0
        BY <2>3 DEF InOrder
      <4>2. charge.i \in {i, None}
        BY <1>1 DEF HoldsInv, ChargeHolds, Handling
      <4>3. \A j \in charge.page \ {i} : charge'.seen[j] = 0 /\ j # None
        BY <1>2, <1>3, <4>1, <4>2, MissingAssumption, SessionsAssumption
      <4>4. charge'.seen[i] <= 1
        BY <1>1, <1>2, <1>4, <4>1, MissingAssumption, SessionsAssumption DEF HoldsInv, ChargeHolds, Handling
      <4>5. \A j \in Sessions : charge'.seen[j] <= 1
        BY <1>3, <4>4 DEF InOrder
      <4> QED BY <1>1, <2>2, <2>3, <2>5, <3>2, <4>3, <4>5 DEF InOrder, R, SameRun
    <3>3. CASE Overrun(R, list, charge.scope, charge.page \ {i}, charge.skip)
      BY <1>1, <2>2, <2>3, <3>3 DEF Overtaken, R, SameRun
    <3> QED BY <2>8, <3>1, <3>2, <3>3
  <2>11. Overtaken(charge, invoices) => Overtaken(charge', invoices)
    <3>1. Overtaken(charge, invoices) => Overrun(R, list, charge.scope, charge.page, charge.skip)
      BY <2>3 DEF Overtaken, R, list
    <3> QED BY <1>1, <2>2, <2>3, <2>8, <3>1 DEF Overtaken, R, SameRun
  <2> QED BY <1>1, <2>1, <2>2, <2>3, <2>4, <2>9, <2>10, <2>11 DEF Tracks
<1> QED BY <1>6, <1>7

LEMMA RunCarries ==
  ASSUME HoldsInv, PagingInv, I!Sync \/ I!ReadTransactions \/ I!UpdateTransactionsBillingData
  PROVE  PagesKept(charge', invoices) /\ (stale = {} => Tracks(charge', invoices))
<1>1. /\ SameRun /\ charge'.seen = charge.seen
      /\ \/ /\ charge.pc = "sync" /\ charge'.pc = "save" /\ charge'.i = charge.i
            /\ charge'.page = charge.page /\ charge'.skip = charge.skip
         \/ /\ charge.pc = "readTx" /\ charge'.pc = "writeTx" /\ charge'.i = charge.i
            /\ charge'.page = charge.page /\ charge'.skip = charge.skip /\ charge'.doc = charge.doc
         \/ /\ charge.pc = "writeTx" /\ charge'.pc = "page" /\ charge'.i = None
            /\ charge'.page = charge.page \ {charge.i} /\ charge'.skip = charge.skip - I!OutOfScope(charge)
  BY ChargeMoves
<1>2. charge.page \subseteq Sessions /\ charge.i \in charge.page
  <2>1. charge.pc # "idle" /\ charge.pc \in Handling
    BY <1>1 DEF Handling
  <2> QED BY <2>1, ChargeShape DEF HoldsInv, ChargeRecord, ChargeHolds
<1>3. PagesKept(charge', invoices)
  BY <1>1 DEF PagingInv, PagesKept, SameRun, Handling
<1>4. ASSUME stale = {} PROVE Tracks(charge', invoices)
  <2>1. Tracks(charge, invoices)
    BY <1>1, <1>4 DEF PagingInv
  <2>2. ListOf(charge', invoices) = ListOf(charge, invoices)
    BY <1>1 DEF ListOf, Wanted, SameRun
  <2>3. LeftOf(charge') = LeftOf(charge)
    BY <1>1 DEF LeftOf
  <2>4. PositionOf(charge') = PositionOf(charge)
    BY <1>1 DEF PositionOf, I!OutOfScope, SameRun
  <2>5. \A i \in LeftOf(charge) : i = charge'.i <=> i = charge.i
    BY <1>1, <1>2, MissingAssumption, SessionsAssumption DEF LeftOf
  <2>6. charge'.scope = charge.scope
    BY <1>1 DEF SameRun
  <2> QED BY <1>1, <1>2, <2>1, <2>2, <2>3, <2>4, <2>5, <2>6, Carried
<1> QED BY <1>3, <1>4
\* The task of a session stores an invoice while a run is in its pages.
LEMMA BillJoins ==
  ASSUME HoldsInv, PagingInv, InvoicingStep, I!BillSavesInvoice, charge.pc # "idle"
  PROVE  PagesKept(charge, invoices') /\ (stale' = {} => Tracks(charge, invoices'))
<1>1. /\ bill.i \in Sessions /\ bill.s \in Sessions /\ bill.doc \in I!Invoice
      /\ invoices' = [invoices EXCEPT ![bill.i] = I!EnrichInvoice(bill.doc, bill.s)]
  BY InvoiceSaved
<1>2. /\ invoices \in [Sessions -> I!Invoice \cup {None}] /\ invoices' \in [Sessions -> I!Invoice \cup {None}]
      /\ \A i \in Sessions : invoices[i] # None => invoices'[i] # None
  BY InvoicesStep DEF HoldsInv, InvoicesTyped, I!TypeOK
<1>3. /\ invoices'[bill.i].status = bill.doc.status /\ invoices'[bill.i].on = bill.doc.on
      /\ \A i \in Sessions : i # bill.i => invoices'[i] = invoices[i]
  BY <1>1, <1>2, EnrichedFacts
<1>4. charge.seen \in [Sessions -> Nat] /\ charge.page \subseteq Sessions
      /\ charge.scope \subseteq Sessions /\ charge.skip \in Int
  BY ChargeShape DEF HoldsInv, ChargeRecord
<1>5. PagesKept(charge, invoices)
  BY DEF PagingInv
<1>6. PagesKept(charge, invoices')
  BY <1>2, <1>4, <1>5 DEF PagesKept
<1>7. ASSUME stale' = {} PROVE Tracks(charge, invoices')
  <2> DEFINE list == ListOf(charge, invoices)
             after == ListOf(charge, invoices')
             left == LeftOf(charge)
             taken == TakenOf(charge, invoices)
             at == PositionOf(charge)
             R == OrderOf(invoices')
  <2>1. Tracks(charge, invoices)
    <3>1. stale = {}
      BY <1>7, HistoryStays
    <3> QED BY <3>1 DEF PagingInv
  <2>2. /\ invoices[bill.i] = bill.read
        /\ bill.read # None => bill.read.status = bill.doc.status /\ bill.read.on = bill.doc.on
    BY <1>7, SavedOver
  <2>3. \A i \in Sessions : invoices[i] # None =>
          invoices'[i].status = invoices[i].status /\ invoices'[i].on = invoices[i].on
    BY <1>3, <2>2
  <2>4. \A i \in list : invoices'[i].on = invoices[i].on
    BY <2>3 DEF ListOf, Wanted
  <2>5. \A i, j \in list : <<i, j>> \in OrderOf(invoices) <=> <<i, j>> \in R
    <3>1. list \in SUBSET Sessions
      BY DEF ListOf
    <3> HIDE DEF list
    <3> QED BY <2>4, <3>1, OrderStays
  <2>6. list \subseteq after
    BY <1>2, <2>3 DEF ListOf, Wanted
  <2>7. \A i \in after \ list : i = bill.i /\ invoices[i] = None
    BY <1>3, <2>3 DEF ListOf, Wanted
  <2>8. charge.pc \in {"sync", "save"} => charge.i \in charge.page
    BY DEF HoldsInv, ChargeHolds, Handling
  <2>9. CASE after = list
    <3> HIDE DEF list, after
    <3> QED BY <2>1, <2>5, <2>8, <2>9, Carried DEF list, after
  <2>10. CASE after # list
    <3>1. after = list \cup {bill.i} /\ bill.i \notin list /\ invoices[bill.i] = None
      BY <2>6, <2>7, <2>10
    <3>2. bill.i \notin charge.scope /\ charge.seen[bill.i] = 0
      BY <1>1, <1>4, <1>5, <3>1 DEF PagesKept
    <3>3. left \subseteq list /\ taken \subseteq list /\ taken \cap left = {}
      BY <2>1 DEF Tracks, TakenOf
    <3>4. TakenOf(charge, invoices') = taken
      BY <3>1, <3>2 DEF TakenOf
    <3>5. at \in Int
      BY <1>4 DEF PositionOf, I!OutOfScope
    <3>6. IsFiniteSet(list) /\ IsOrder(R, after)
      BY <1>2, ListSorted
    <3>7. \A i \in charge.scope \ after : charge.seen[i] > 0
      BY <2>1, <2>6 DEF Tracks
    <3>8. charge.pc \in {"sync", "save"} => \A j \in charge.page : <<j, charge.i>> \notin R
      <4>1. charge.pc \in {"sync", "save"} => left = charge.page
        BY DEF LeftOf
      <4> QED BY <2>1, <2>5, <2>8, <3>3, <4>1 DEF Tracks
    <3> HIDE DEF list, after, left, taken, at, R
    <3>9. /\ InPlace(R, list, charge.scope, taken, left, at) =>
               InPlace(R, after, charge.scope, taken, left, at) \/ Overrun(R, after, charge.scope, left, at)
          /\ Overrun(R, list, charge.scope, left, at) => Overrun(R, after, charge.scope, left, at)
      <4>1. taken \in SUBSET list /\ left \in SUBSET list
        BY <3>3
      <4>2. IsOrder(R, list \cup {bill.i})
        BY <3>1, <3>6
      <4>3. PICK e, scope : e = bill.i /\ scope = charge.scope
        OBVIOUS
      <4>4. e \notin list /\ e \notin scope /\ IsOrder(R, list \cup {e}) /\ after = list \cup {e}
        BY <3>1, <3>2, <4>2, <4>3
      <4> HIDE DEF InPlace, Overrun
      <4>5. /\ InPlace(R, list, scope, taken, left, at) =>
                 \/ InPlace(R, list \cup {e}, scope, taken, left, at)
                 \/ Overrun(R, list \cup {e}, scope, left, at)
            /\ Overrun(R, list, scope, left, at) => Overrun(R, list \cup {e}, scope, left, at)
        BY <3>3, <3>5, <3>6, <4>1, <4>4, OneJoins
      <4> QED BY <4>3, <4>4, <4>5
    <3>10. InOrder(charge, invoices) => InOrder(charge, invoices') \/ Overtaken(charge, invoices')
      <4> SUFFICES ASSUME InOrder(charge, invoices)
                   PROVE  InOrder(charge, invoices') \/ Overtaken(charge, invoices')
        OBVIOUS
      <4>1. InPlace(OrderOf(invoices), list, charge.scope, taken, left, at)
        BY DEF InOrder, list, taken, left, at
      <4>2. InPlace(R, list, charge.scope, taken, left, at)
        BY <2>5, <3>3, <4>1, SameOrder
      <4>3. CASE InPlace(R, after, charge.scope, taken, left, at)
        <5>1. charge.pc = "end" => after \cap charge.scope \subseteq taken
          BY <3>1, <3>2 DEF InOrder, list, taken
        <5> QED BY <3>4, <4>3, <5>1 DEF InOrder, R, after, left, at
      <4>4. CASE Overrun(R, after, charge.scope, left, at)
        BY <4>4 DEF Overtaken, R, after, left, at
      <4> QED BY <3>9, <4>2, <4>3, <4>4
    <3>11. Overtaken(charge, invoices) => Overtaken(charge, invoices')
      <4>1. Overtaken(charge, invoices) => Overrun(OrderOf(invoices), list, charge.scope, left, at)
        BY DEF Overtaken, list, left, at
      <4>2. Overtaken(charge, invoices) => Overrun(R, list, charge.scope, left, at)
        BY <2>5, <3>3, <4>1, SameOrder
      <4> QED BY <3>9, <4>2 DEF Overtaken, R, after, left, at
    <3>12. left \subseteq after
      BY <3>1, <3>3
    <3> QED BY <2>1, <3>7, <3>8, <3>10, <3>11, <3>12 DEF Tracks, left, after, R
  <2> QED BY <2>9, <2>10
<1> QED BY <1>6, <1>7

\* The run stores the invoice that it charged: it stays on the list, or it
\* leaves it and the position is corrected.
LEMMA ChargeKeeps ==
  ASSUME HoldsInv, PagingInv, InvoicingStep, I!ChargeSavesInvoice
  PROVE  PagesKept(charge', invoices') /\ (stale' = {} => Tracks(charge', invoices'))
<1> DEFINE e == charge.i
<1>1. /\ charge \in ChargeRecord(I!Invoice \cup {None}) /\ e \in Sessions
      /\ charge.doc \in I!Invoice /\ charge.read \in I!Invoice
      /\ invoices' = [invoices EXCEPT ![e] = charge.doc]
  BY InvoiceSaved
<1>2. /\ invoices \in [Sessions -> I!Invoice \cup {None}] /\ invoices' \in [Sessions -> I!Invoice \cup {None}]
      /\ \A i \in Sessions : invoices[i] # None => invoices'[i] # None
  BY InvoicesStep DEF HoldsInv, InvoicesTyped, I!TypeOK
<1>3. /\ charge.pc = "save" /\ charge'.pc = "readTx" /\ SameRun /\ charge'.i = e
      /\ charge'.page = charge.page /\ charge'.skip = charge.skip /\ charge'.seen = charge.seen
      /\ charge'.doc = charge.doc
  BY ChargeMoves
<1>4. charge.seen \in [Sessions -> Nat] /\ charge.page \subseteq Sessions
      /\ charge.scope \subseteq Sessions /\ charge.skip \in Int
  BY <1>1 DEF ChargeRecord
<1>5. PagesKept(charge, invoices) /\ e \in charge.page
  BY <1>3 DEF PagingInv, HoldsInv, ChargeHolds, Handling
<1>6. PagesKept(charge', invoices')
  BY <1>2, <1>3, <1>4, <1>5 DEF PagesKept, SameRun, Handling
<1>7. ASSUME stale' = {} PROVE Tracks(charge', invoices')
  <2> DEFINE list == ListOf(charge, invoices)
             after == ListOf(charge', invoices')
             page == charge.page
             taken == TakenOf(charge, invoices)
             at == charge.skip
             R == OrderOf(invoices)
             RR == OrderOf(invoices')
  <2>1. Tracks(charge, invoices)
    <3>1. stale = {}
      BY <1>7, HistoryStays
    <3> QED BY <1>3, <3>1 DEF PagingInv
  <2>2. invoices[e] = charge.read /\ (charge.doc.status = charge.read.status => charge.doc.on = charge.read.on)
    BY <1>7, SavedOver
  <2>3. invoices'[e] = charge.doc /\ \A i \in Sessions : i # e => invoices'[i] = invoices[i]
    BY <1>1, <1>2
  <2>4. LeftOf(charge) = page /\ PositionOf(charge) = at
        /\ LeftOf(charge') = page \ {e} /\ PositionOf(charge') = at - I!OutOfScope(charge')
    BY <1>3 DEF LeftOf, PositionOf
  <2>5. page \subseteq list /\ e \in page /\ taken \subseteq list /\ e \notin taken
        /\ \A j \in page : <<j, e>> \notin R
    BY <1>3, <1>5, <2>1, <2>4 DEF Tracks, TakenOf
  <2>6. e \in list /\ Wanted(charge, charge.read)
    BY <2>2, <2>5 DEF ListOf
  <2>7. charge.seen[e] > 0
    BY <1>3, <1>5 DEF PagesKept, Handling
  <2>8. IsFiniteSet(list) /\ IsOrder(R, list)
    BY <1>2, ListSorted
  <2>9. /\ charge'.scope = charge.scope /\ charge'.seen = charge.seen /\ charge'.i = e
        /\ \A doc : Wanted(charge', doc) <=> Wanted(charge, doc)
    BY <1>3 DEF SameRun, Wanted
  <2>10. InOrder(charge, invoices) => InPlace(R, list, charge.scope, taken, page, at)
    BY <2>4 DEF InOrder
  <2>11. Overtaken(charge, invoices) => Overrun(R, list, charge.scope, page, at)
    BY <2>4 DEF Overtaken
  <2>12. InOrder(charge, invoices) =>
           /\ \A i \in Sessions : charge'.seen[i] <= 1
           /\ \A i \in page \ {e} : charge'.seen[i] = IF i = charge'.i THEN 1 ELSE 0
    BY <2>4, <2>9 DEF InOrder
  <2>13. CASE charge.doc.status = charge.read.status
    <3>1. Wanted(charge, charge.doc) /\ charge.doc.on = charge.read.on
      BY <1>1, <2>2, <2>6, <2>13, MissingAssumption DEF Wanted
    <3>2. after = list
      BY <2>2, <2>3, <2>6, <2>9, <3>1 DEF ListOf
    <3>3. I!OutOfScope(charge') = 0
      BY <1>3, <2>6, <2>13 DEF I!OutOfScope, Wanted, SameRun
    <3>4. TakenOf(charge', invoices') = taken \cup {e}
      BY <2>4, <2>5, <2>6, <2>7, <2>9, <3>2 DEF TakenOf
    <3>5. \A i, j \in list : <<i, j>> \in R <=> <<i, j>> \in RR
      <4>1. list \in SUBSET Sessions /\ \A i \in list : invoices[i].on = invoices'[i].on
        BY <2>2, <2>3, <3>1 DEF ListOf
      <4> HIDE DEF list
      <4> QED BY <4>1, OrderStays
    <3>6. PositionOf(charge') = at
      BY <1>4, <2>4, <3>3
    <3>7. \A i \in charge'.scope \ after : charge'.seen[i] > 0
      BY <2>1, <2>9, <3>2 DEF Tracks
    <3> HIDE DEF list, after, taken, at, page, R, RR, e
    <3>8. \A scope :
            /\ InPlace(R, list, scope, taken, page, at) =>
                 \/ InPlace(R, list, scope, taken \cup {e}, page \ {e}, at)
                 \/ Overrun(R, list, scope, page \ {e}, at)
            /\ Overrun(R, list, scope, page, at) => Overrun(R, list, scope, page \ {e}, at)
      <4>1. taken \in SUBSET list /\ page \in SUBSET list /\ at \in Int
        BY <1>4, <2>5 DEF at
      <4> QED BY <2>5, <2>8, <4>1, OneStays
    <3>9. taken \cup {e} \in SUBSET list /\ page \ {e} \in SUBSET list
      BY <2>5, <2>6
    <3>10. \A scope :
             /\ InPlace(R, list, scope, taken \cup {e}, page \ {e}, at) =>
                  InPlace(RR, list, scope, taken \cup {e}, page \ {e}, at)
             /\ Overrun(R, list, scope, page \ {e}, at) => Overrun(RR, list, scope, page \ {e}, at)
      BY <3>5, <3>9, SameOrder
    <3>11. InPlace(RR, list, charge.scope, taken \cup {e}, page \ {e}, at) /\ InOrder(charge, invoices)
             => InOrder(charge', invoices')
      BY <1>3, <2>4, <2>9, <2>12, <3>2, <3>4, <3>6 DEF InOrder, RR, after
    <3>12. Overrun(RR, list, charge.scope, page \ {e}, at) => Overtaken(charge', invoices')
      BY <2>4, <2>9, <3>2, <3>6 DEF Overtaken, RR, after
    <3>13. InOrder(charge', invoices') \/ Overtaken(charge', invoices')
      <4>1. CASE InOrder(charge, invoices)
        BY <2>10, <3>8, <3>10, <3>11, <3>12, <4>1
      <4>2. CASE Overtaken(charge, invoices)
        BY <2>11, <3>8, <3>10, <3>12, <4>2
      <4> QED BY <2>1, <4>1, <4>2 DEF Tracks
    <3>14. LeftOf(charge') \subseteq after
      BY <2>4, <2>5, <3>2
    <3> QED BY <1>3, <3>7, <3>13, <3>14 DEF Tracks, after
  <2>14. CASE charge.doc.status # charge.read.status
    <3>1. ~Wanted(charge, charge.doc)
      BY <2>6, <2>14 DEF Wanted
    <3>2. after = list \ {e}
      BY <2>3, <2>9, <3>1 DEF ListOf
    <3>3. I!OutOfScope(charge') = 1
      BY <1>3, <2>6, <2>14 DEF I!OutOfScope, Wanted, SameRun
    <3>4. TakenOf(charge', invoices') = taken
      BY <2>4, <2>5, <2>9, <3>2 DEF TakenOf
    <3>5. \A i, j \in after : <<i, j>> \in R <=> <<i, j>> \in RR
      <4>1. after \in SUBSET Sessions /\ \A i \in after : invoices[i].on = invoices'[i].on
        BY <2>3, <3>2 DEF ListOf
      <4> HIDE DEF after
      <4> QED BY <4>1, OrderStays
    <3>6. PositionOf(charge') = at - 1
      BY <2>4, <3>3
    <3>7. \A i \in charge'.scope \ after : charge'.seen[i] > 0
      BY <2>1, <2>7, <2>9, <3>2 DEF Tracks
    <3> HIDE DEF list, after, taken, at, page, R, RR, e
    <3>8. \A scope :
            /\ InPlace(R, list, scope, taken, page, at) =>
                 InPlace(R, list \ {e}, scope, taken, page \ {e}, at - 1)
            /\ Overrun(R, list, scope, page, at) => Overrun(R, list \ {e}, scope, page \ {e}, at - 1)
      <4>1. taken \in SUBSET list /\ page \in SUBSET list /\ at \in Int
        BY <1>4, <2>5 DEF at
      <4> QED BY <2>5, <2>8, <4>1, OneLeaves
    <3>9. taken \in SUBSET after /\ page \ {e} \in SUBSET after
      BY <2>5, <3>2
    <3>10. \A scope :
             /\ InPlace(R, after, scope, taken, page \ {e}, at - 1) =>
                  InPlace(RR, after, scope, taken, page \ {e}, at - 1)
             /\ Overrun(R, after, scope, page \ {e}, at - 1) => Overrun(RR, after, scope, page \ {e}, at - 1)
      BY <3>5, <3>9, SameOrder
    <3>11. InPlace(RR, after, charge.scope, taken, page \ {e}, at - 1) /\ InOrder(charge, invoices)
             => InOrder(charge', invoices')
      BY <1>3, <2>4, <2>9, <2>12, <3>4, <3>6 DEF InOrder, RR, after
    <3>12. Overrun(RR, after, charge.scope, page \ {e}, at - 1) => Overtaken(charge', invoices')
      BY <2>4, <2>9, <3>6 DEF Overtaken, RR, after
    <3>13. InOrder(charge', invoices') \/ Overtaken(charge', invoices')
      <4>1. CASE InOrder(charge, invoices)
        BY <2>10, <3>2, <3>8, <3>10, <3>11, <4>1
      <4>2. CASE Overtaken(charge, invoices)
        BY <2>11, <3>2, <3>8, <3>10, <3>12, <4>2
      <4> QED BY <2>1, <4>1, <4>2 DEF Tracks
    <3>14. LeftOf(charge') \subseteq after
      BY <2>4, <3>9
    <3> QED BY <1>3, <3>7, <3>13, <3>14 DEF Tracks, after
  <2> QED BY <2>13, <2>14
<1> QED BY <1>6, <1>7

LEMMA PagingPreserved ==
  ASSUME HoldsInv, PagingInv, InvoicingStep
  PROVE  PagingInv'
<1> SUFFICES ASSUME charge'.pc # "idle"
             PROVE  PagesKept(charge', invoices') /\ (stale' = {} => Tracks(charge', invoices'))
  BY DEF PagingInv
<1>1. stale' = {} => stale = {}
  BY HistoryStays
<1>2. CASE I!ChargeSavesInvoice
  BY <1>2, ChargeKeeps
<1>3. CASE I!BillSavesInvoice
  <2>1. charge' = charge
    BY <1>3, Footprints
  <2> QED BY <1>3, <2>1, BillJoins
<1>4. CASE invoices' = invoices /\ charge' = charge
  BY <1>1, <1>4 DEF PagingInv
<1>5. CASE invoices' = invoices /\ charge' # charge /\ ~I!ChargeSavesInvoice
  <2>1. charge' # I!Idle
    BY DEF I!Idle
  <2>2. CASE \E unpaid \in BOOLEAN : I!ChargeInvoices(unpaid)
    BY <1>5, <2>2, RunStarts
  <2>3. CASE I!ReadPage
    BY <1>1, <1>5, <2>3, RunReads
  <2>4. CASE \E i \in Sessions : I!ChargeInvoice(i)
    BY <1>1, <1>5, <2>4, RunTakes
  <2>5. CASE \E i \in Sessions : I!ChargeFails(i)
    BY <1>1, <1>5, <2>5, RunLeaves
  <2>6. CASE I!Sync \/ I!ReadTransactions \/ I!UpdateTransactionsBillingData
    BY <1>1, <1>5, <2>6, RunCarries
  <2> QED BY <1>5, <2>1, <2>2, <2>3, <2>4, <2>5, <2>6, ChargeChanges
<1> QED BY <1>2, <1>3, <1>4, <1>5, Changes

-----------------------------------------------------------------------------
(* The theorem. *)

InvoicingInv ==
  HoldsInv /\ InvoicedInv /\ PaidInv /\ OnceInv /\ ShownInv /\ PagingInv

LEMMA InvoicingInit == I!Init => InvoicingInv
<1> SUFFICES ASSUME I!Init PROVE InvoicingInv
  OBVIOUS
<1>1. /\ day = 0 /\ settings \in [activated : {FALSE}, immediate : BOOLEAN, periodic : BOOLEAN]
      /\ stripe = [i \in Sessions |-> None] /\ itemOn = [s \in Sessions |-> None]
      /\ invoices = [i \in Sessions |-> None]
      /\ tx = [s \in Sessions |-> [status |-> "none", invoice |-> None, shown |-> None]]
      /\ tasks = {} /\ bill = I!Idle /\ charge = I!Idle
  BY DEF I!Init
<1>2. bill.pc = "idle" /\ charge.pc = "idle"
  BY <1>1 DEF I!Idle
<1>3. InvoicesTyped
  <2>1. \A s \in Sessions : tx[s] \in I!BillingData
    BY <1>1 DEF I!BillingData
  <2>2. tx \in [Sessions -> I!BillingData]
    BY <1>1, <2>1
  <2>3. day \in 0 .. MaxDay
    BY <1>1, InvoicingAssumption
  <2>4. settings \in [activated : BOOLEAN, immediate : BOOLEAN, periodic : BOOLEAN]
    BY <1>1
  <2> QED BY <1>1, <2>2, <2>3, <2>4 DEF InvoicesTyped, I!TypeOK
<1>4. HoldsInv
  BY <1>1, <1>2, <1>3 DEF HoldsInv, StoredDocuments, TasksLive, BillHolds, ChargeHolds
<1>5. \A s \in Sessions : tx[s].status = "none" /\ tx[s].shown = None /\ itemOn[s] = None /\ invoices[s] = None
  BY <1>1
<1>6. InvoicedInv /\ PaidInv /\ OnceInv
  BY <1>2, <1>5 DEF InvoicedInv, InvoicedNow, InvoicedAs, PaidInv, OnceInv
<1>7. ShownInv /\ PagingInv
  BY <1>2, <1>5 DEF ShownInv, ShownNow, ShownAs, PagingInv
<1> QED BY <1>4, <1>6, <1>7 DEF InvoicingInv

LEMMA InvoicingNext == InvoicingInv /\ InvoicingStep => InvoicingInv'
  BY HoldsPreserved, InvoicedPreserved, PaidPreserved, ListingPreserved, ShownPreserved, PagingPreserved
  DEF InvoicingInv

\* A step of the four parts is a step of the invoices, or leaves them alone.
LEMMA InvoicingMove ==
  ASSUME MCNext \/ UNCHANGED <<focus, iVars, tVars, cVars, sVars>>
  PROVE  InvoicingStep
  BY DEF MCNext, InvoicingStep

LEMMA InvoicingInvariant == MCSpec => []InvoicingInv
<1>1. MCInit => InvoicingInv
  BY InvoicingInit DEF MCInit
<1>2. InvoicingInv /\ [MCNext]_<<focus, iVars, tVars, cVars, sVars>> => InvoicingInv'
  BY InvoicingNext, InvoicingMove
<1> QED BY <1>1, <1>2, PTL DEF MCSpec

\* A run that ends has charged each of its invoices once.
LEMMA RunIsComplete ==
  ASSUME HoldsInv, PagingInv
  PROVE  I!EachInvoiceOnce
<1> SUFFICES ASSUME charge.pc = "end", stale = {},
                    {i \in Sessions : I!Match(charge, i)} \ charge.scope = {},
                    NEW i \in charge.scope
             PROVE  charge.seen[i] = 1
  BY DEF I!EachInvoiceOnce
<1>1. charge.scope \subseteq Sessions /\ charge.seen \in [Sessions -> Nat]
  BY ChargeShape DEF HoldsInv, ChargeRecord
<1>2. Tracks(charge, invoices)
  BY DEF PagingInv
<1>3. ListOf(charge, invoices) \ charge.scope = {}
  BY PageOf
<1>4. ~Overtaken(charge, invoices)
  BY <1>3 DEF Overtaken, Overrun
<1>5. InOrder(charge, invoices)
  BY <1>2, <1>4 DEF Tracks
<1>6. charge.seen[i] <= 1
  BY <1>1, <1>5 DEF InOrder
<1>7. charge.seen[i] > 0
  BY <1>2, <1>5 DEF Tracks, InOrder, TakenOf
<1> QED BY <1>1, <1>6, <1>7

\* The database agrees with Stripe in every interleaving of the tasks of the
\* sessions, the runs of the periodic operation, payments on the page of
\* Stripe, failures and crashes, for any number of sessions and any page size:
\* what is billed is on one stored invoice, once, what is paid is billed, and
\* a session shows the status of its invoice; and a run charges each invoice
\* once over all its pages.  The exceptions are those the parts of
\* InvoicesAgree name.
THEOREM InvoicesAlwaysAgree == MCSpec => []InvoicesAgree
<1>1. ASSUME InvoicingInv PROVE InvoicesAgree
  <2> USE <1>1 DEF InvoicingInv
  <2>1. I!TypeOK
    BY DEF HoldsInv, InvoicesTyped
  <2>2. I!BilledIsInvoiced
    BY DEF I!BilledIsInvoiced, InvoicedInv, InvoicedNow, InvoicedAs
  <2>3. I!ListedOnce
    <3> SUFFICES ASSUME NEW i \in Sessions, NEW s \in Sessions, invoices[i] # None,
                        invoices[i].sessions[s] > 1, <<"session", s>> \notin interrupted
                 PROVE  FALSE
      BY DEF I!ListedOnce
    <3>1. invoices[i].sessions[s] <= 1
      BY DEF OnceInv, Once
    <3>2. invoices[i].sessions[s] \in Nat
      BY <2>1 DEF I!TypeOK, I!Invoice
    <3> QED BY <3>1, <3>2
  <2>4. I!ChargedIsBilled
    BY DEF I!ChargedIsBilled, PaidInv
  <2>5. I!ShowsInvoiceStatus
    <3> SUFFICES ASSUME NEW s \in Sessions, charge = I!Idle, tx[s].status = "BILLED"
                 PROVE  \/ tx[s].shown = invoices[tx[s].invoice].status
                        \/ <<"invoice", tx[s].invoice>> \in stale \cup interrupted
                        \/ <<"session", s>> \in stale \cup interrupted
      BY DEF I!ShowsInvoiceStatus
    <3>1. ~Updates(charge, tx[s].invoice)
      BY DEF Updates, I!Idle
    <3> QED BY <3>1 DEF ShownInv, ShownNow, ShownAs
  <2>6. I!EachInvoiceOnce
    BY RunIsComplete
  <2> QED BY <2>1, <2>2, <2>3, <2>4, <2>5, <2>6 DEF InvoicesAgree, I!InvoicesAgree
<1> QED BY <1>1, InvoicingInvariant, PTL
=============================================================================
