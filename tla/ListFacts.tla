------------------------------ MODULE ListFacts ------------------------------
(***************************************************************************)
(* Facts about lists and about the folds that walk over them.              *)
(*                                                                         *)
(* A fold is a recursive function on the sets of the places of a list.     *)
(* That there is such a function is shown by induction over those sets,    *)
(* in the form that a set of places, or of numbers, has a least element.   *)
(***************************************************************************)
EXTENDS Integers, SequencesExt, FiniteSetTheorems, SequenceTheorems, TLAPS

(* Every set of natural numbers has a least element.                       *)
LEMMA LeastNumber ==
  ASSUME NEW T, T \subseteq Nat, T # {}
  PROVE  \E n \in T : \A m \in T : n <= m
<1> DEFINE F == {1 .. n : n \in T}
<1>1. F \subseteq FiniteSubsetsOf(Nat) /\ F # {}
  <2>1. ASSUME NEW n \in T PROVE 1 .. n \in FiniteSubsetsOf(Nat)
    <3>1. IsFiniteSet(1 .. n)
      BY FS_Interval
    <3> QED
      BY <3>1 DEF FiniteSubsetsOf
  <2> QED
    BY <2>1
<1>2. PICK x \in F : \A y \in F : ~(<<y, x>> \in StrictSubsetOrdering(Nat))
  <2> HIDE DEF F
  <2> QED
    BY <1>1, FS_StrictSubsetOrderingWellFounded, WFMin
<1>3. PICK n \in T : x = 1 .. n
  BY <1>2
<1>4. ASSUME NEW m \in T, ~(n <= m) PROVE FALSE
  <2>1. n \in 1 .. n /\ n \notin 1 .. m
    BY <1>4
  <2>2. /\ 1 .. m \in F /\ (1 .. m) \subseteq x /\ 1 .. m # x
        /\ x \in SUBSET Nat /\ (1 .. m) \in SUBSET Nat
    BY <1>3, <1>4, <2>1
  <2> QED
    BY <1>2, <2>2 DEF StrictSubsetOrdering
<1> QED
  BY <1>4

-----------------------------------------------------------------------------
(* Recursion on the subsets of a finite set, by taking out one element:    *)
(* base is the value of {}, and step gives that of a set from the element  *)
(* c[u] and the value of the rest.                                         *)

IsRecursion(g, s, V, base, c, step) ==
  /\ g \in [SUBSET s -> V]
  /\ \A u \in SUBSET s :
       g[u] = IF u = {} THEN base ELSE step[<<c[u], g[u \ {c[u]}]>>]

LEMMA RecursionsAgree ==
  ASSUME NEW S, IsFiniteSet(S), NEW V, NEW base, NEW c, NEW step,
         \A u \in SUBSET S : u # {} => c[u] \in u,
         NEW s \in SUBSET S, NEW t \in SUBSET S, NEW g, NEW h,
         IsRecursion(g, s, V, base, c, step), IsRecursion(h, t, V, base, c, step),
         NEW w, w \in SUBSET s, w \in SUBSET t
  PROVE  g[w] = h[w]
<1> DEFINE W == {u \in SUBSET S : u \subseteq s /\ u \subseteq t /\ g[u] # h[u]}
<1> SUFFICES ASSUME W # {} PROVE FALSE
  OBVIOUS
<1>1. W \subseteq FiniteSubsetsOf(S)
  BY FS_Subset DEF FiniteSubsetsOf
<1>2. PICK x \in W : \A y \in W : ~(<<y, x>> \in StrictSubsetOrdering(S))
  <2> HIDE DEF W
  <2> QED
    BY <1>1, FS_StrictSubsetOrderingWellFounded, WFMin
<1>3. x # {}
  BY <1>2 DEF IsRecursion
<1> DEFINE y == x \ {c[x]}
<1>4. y \notin W
  BY <1>2, <1>3 DEF StrictSubsetOrdering
<1>5. g[y] = h[y]
  BY <1>2, <1>4
<1> QED
  BY <1>2, <1>3, <1>5 DEF IsRecursion

LEMMA RecursionExists ==
  ASSUME NEW S, IsFiniteSet(S), NEW V, NEW base \in V, NEW c, NEW step \in [S \X V -> V],
         \A u \in SUBSET S : u # {} => c[u] \in u
  PROVE  \E g : IsRecursion(g, S, V, base, c, step)
<1> DEFINE R(g, s) == IsRecursion(g, s, V, base, c, step)
           W == {s \in SUBSET S : ~ \E g : R(g, s)}
           G(s) == CHOOSE g : R(g, s)
<1> SUFFICES ASSUME W # {} PROVE FALSE
  OBVIOUS
<1>1. W \subseteq FiniteSubsetsOf(S)
  BY FS_Subset DEF FiniteSubsetsOf
<1>2. PICK x \in W : \A y \in W : ~(<<y, x>> \in StrictSubsetOrdering(S))
  <2> HIDE DEF W
  <2> QED
    BY <1>1, FS_StrictSubsetOrderingWellFounded, WFMin
<1>3. ASSUME NEW u \in SUBSET x, u # x PROVE R(G(u), u)
  <2>1. u \notin W /\ u \in SUBSET S
    BY <1>2, <1>3 DEF StrictSubsetOrdering
  <2>2. PICK g : R(g, u)
    BY <2>1
  <2> HIDE DEF R
  <2> QED
    BY <2>2
<1> DEFINE last == IF x = {} THEN base ELSE step[<<c[x], G(x \ {c[x]})[x \ {c[x]}]>>]
           g == [u \in SUBSET x |-> IF u = x THEN last ELSE G(u)[u]]
<1>4. x # {} => c[x] \in x /\ x \ {c[x]} \in SUBSET x /\ x \ {c[x]} # x
  BY <1>2
<1>5. ASSUME NEW u \in SUBSET x, u # x PROVE G(u)[u] \in V
  <2> HIDE DEF G
  <2>1. G(u) \in [SUBSET u -> V]
    BY <1>3, <1>5 DEF IsRecursion
  <2> QED
    BY <2>1
<1>6. last \in V
  <2> HIDE DEF G
  <2> QED
    BY <1>2, <1>4, <1>5
<1>7. g \in [SUBSET x -> V]
  BY <1>5, <1>6
<1>8. ASSUME NEW u \in SUBSET x
      PROVE  g[u] = IF u = {} THEN base ELSE step[<<c[u], g[u \ {c[u]}]>>]
  <2>1. CASE u = x
    <3> HIDE DEF G
    <3> QED
      BY <1>4, <2>1
  <2>2. CASE u # x /\ u = {}
    BY <1>3, <2>2 DEF IsRecursion
  <2>3. CASE u # x /\ u # {}
    <3> DEFINE v == u \ {c[u]}
    <3>1. v \in SUBSET x /\ v # x /\ v \in SUBSET u /\ c[u] \in u /\ u \in SUBSET S /\
              v \in SUBSET S
      BY <1>2, <2>3
    <3>2. R(G(u), u) /\ R(G(v), v)
      BY <1>3, <2>3, <3>1
    <3>3. G(u)[v] = G(v)[v]
      <4> HIDE DEF G, v
      <4> QED
        BY <3>1, <3>2, RecursionsAgree
    <3>4. G(u)[u] = step[<<c[u], G(u)[v]>>]
      BY <2>3, <3>2 DEF IsRecursion
    <3>5. g[u] = G(u)[u] /\ g[v] = G(v)[v]
      BY <2>3, <3>1
    <3>6. g[u] = step[<<c[u], g[v]>>]
      <4> HIDE DEF G, g, v
      <4> QED
        BY <3>3, <3>4, <3>5
    <3> HIDE DEF g
    <3> QED
      BY <2>3, <3>6
  <2> QED
    BY <2>1, <2>2, <2>3
<1>9. R(g, x)
  <2> HIDE DEF g
  <2> QED
    BY <1>7, <1>8 DEF IsRecursion
<1> QED
  BY <1>2, <1>9

(* What a recursion yields for a set u is in V[u], if a step leads from V   *)
(* of the rest to V[u].                                                    *)
LEMMA RecursionStays ==
  ASSUME NEW S, IsFiniteSet(S), NEW V, NEW c, NEW f,
         \A u \in SUBSET S : u # {} => c[u] \in u,
         f[{}] \in V[{}],
         \A u \in SUBSET S : u # {} /\ f[u \ {c[u]}] \in V[u \ {c[u]}] => f[u] \in V[u]
  PROVE  \A u \in SUBSET S : f[u] \in V[u]
<1> DEFINE W == {u \in SUBSET S : f[u] \notin V[u]}
<1> SUFFICES ASSUME W # {} PROVE FALSE
  OBVIOUS
<1>1. W \subseteq FiniteSubsetsOf(S)
  BY FS_Subset DEF FiniteSubsetsOf
<1>2. PICK x \in W : \A y \in W : ~(<<y, x>> \in StrictSubsetOrdering(S))
  <2> HIDE DEF W
  <2> QED
    BY <1>1, FS_StrictSubsetOrderingWellFounded, WFMin
<1>3. x # {} /\ x \in SUBSET S /\ c[x] \in x
  BY <1>2
<1>4. x \ {c[x]} \notin W
  BY <1>2, <1>3 DEF StrictSubsetOrdering
<1> QED
  BY <1>2, <1>3, <1>4

-----------------------------------------------------------------------------
(* The last and the first of some places of a list.                        *)
LEMMA LastPlace ==
  ASSUME NEW n \in Nat, NEW u \in SUBSET (1 .. n), u # {}
  PROVE  Max(u) \in u /\ \A i \in u : i <= Max(u)
<1> DEFINE T == {n - i : i \in u}
<1>1. PICK k \in T : \A m \in T : k <= m
  <2>1. T \subseteq Nat
    OBVIOUS
  <2>2. PICK i \in u : TRUE
    OBVIOUS
  <2>3. n - i \in T
    OBVIOUS
  <2> QED
    BY <2>1, <2>3, LeastNumber
<1>2. PICK i \in u : k = n - i
  BY <1>1
<1>3. \A j \in u : i >= j
  <2> SUFFICES ASSUME NEW j \in u PROVE i >= j
    OBVIOUS
  <2>1. n - j \in T
    OBVIOUS
  <2>2. n - i <= n - j
    BY <1>1, <1>2, <2>1
  <2> QED
    BY <2>2
<1>4. Max(u) \in u /\ \A j \in u : Max(u) >= j
  BY <1>3 DEF Max
<1> QED
  BY <1>4

LEMMA FirstPlace ==
  ASSUME NEW n \in Nat, NEW u \in SUBSET (1 .. n), u # {}
  PROVE  Min(u) \in u /\ \A i \in u : Min(u) <= i
<1>1. \E i \in u : \A j \in u : i <= j
  BY LeastNumber, u \subseteq Nat
<1>2. Min(u) \in u /\ \A j \in u : Min(u) <= j
  BY <1>1 DEF Min
<1> QED
  BY <1>2

LEMMA PlacesAreFinite ==
  ASSUME NEW A, NEW list \in Seq(A)
  PROVE  /\ DOMAIN list = 1 .. Len(list) /\ Len(list) \in Nat
         /\ IsFiniteSet(DOMAIN list)
BY FS_Interval, DOMAIN list = 1 .. Len(list), Len(list) \in Nat

-----------------------------------------------------------------------------
(* Lists.                                                                  *)

LEMMA InList ==
  ASSUME NEW A, NEW list \in Seq(A), NEW x
  PROVE  x \in ToSet(list) <=> \E i \in 1 .. Len(list) : list[i] = x
<1>1. DOMAIN list = 1 .. Len(list)
  OBVIOUS
<1> QED
  BY <1>1, Zenon DEF ToSet

HoldsMembers(list) == \A x : x \in ToSet(list) <=> \E i \in 1 .. Len(list) : list[i] = x

LEMMA ListHoldsMembers ==
  ASSUME NEW A, NEW list \in Seq(A)
  PROVE  HoldsMembers(list)
BY InList DEF HoldsMembers

LEMMA OnceInList ==
  ASSUME NEW A, NEW list \in Seq(A)
  PROVE  IsInjective(list) <=> \A i, j \in 1 .. Len(list) : list[i] = list[j] => i = j
<1>1. DOMAIN list = 1 .. Len(list)
  OBVIOUS
<1> QED
  BY <1>1, Zenon DEF IsInjective

(* A list with e unlinked is the list itself, if e is not in it, or the list *)
(* without one place of e.                                                 *)
LEMMA RemoveFirstShape ==
  ASSUME NEW A, NEW list \in Seq(A), NEW e
  PROVE  \/ e \notin ToSet(list) /\ RemoveFirst(list, e) = list
         \/ /\ RemoveFirst(list, e) \in Seq(A) /\ Len(RemoveFirst(list, e)) = Len(list) - 1
            /\ \E k \in 1 .. Len(list) :
                 /\ list[k] = e
                 /\ \A i \in 1 .. (Len(list) - 1) :
                      RemoveFirst(list, e)[i] = IF i < k THEN list[i] ELSE list[i + 1]
<1> DEFINE n == Len(list)
           I == {i \in 1 .. n : list[i] = e}
           k == Min(I)
           left == SubSeq(list, 1, k - 1) \o SubSeq(list, k + 1, n)
<1>0. n \in Nat /\ DOMAIN list = 1 .. n
  OBVIOUS
<1>1. CASE I = {}
  <2>1. RemoveFirst(list, e) = list
    BY <1>1 DEF RemoveFirst
  <2>2. e \notin ToSet(list)
    BY <1>1, InList
  <2> QED
    BY <2>1, <2>2
<1>2. CASE I # {}
  <2>1. RemoveFirst(list, e) = left
    BY <1>2 DEF RemoveFirst, RemoveAt, SelectInSeq
  <2>2. k \in 1 .. n /\ list[k] = e
    <3> HIDE DEF k
    <3> SUFFICES k \in I
      OBVIOUS
    <3> QED
      BY <1>0, <1>2, FirstPlace DEF k
  <2> HIDE DEF k
  <2>3. /\ left \in Seq(A) /\ Len(left) = n - 1 /\ DOMAIN left = 1 .. (n - 1)
        /\ \A i \in 1 .. (n - 1) : left[i] = IF i < k THEN list[i] ELSE list[i + 1]
    <3> DEFINE a == SubSeq(list, 1, k - 1)
               b == SubSeq(list, k + 1, n)
    <3>1. a \in Seq(A) /\ Len(a) = k - 1 /\ \A i \in 1 .. (k - 1) : a[i] = list[i]
      BY <2>2, <1>0
    <3>2. b \in Seq(A) /\ Len(b) = n - k /\ \A i \in 1 .. (n - k) : b[i] = list[k + i]
      <4>1. \A i \in (k + 1) .. n : list[i] \in A
        BY <2>2, <1>0
      <4>2. k + 1 \in Int /\ n \in Int /\ n - (k + 1) + 1 = n - k /\ (~(k + 1 <= n) => n - k = 0)
        <5>1. k \in 1 .. n /\ n \in Nat
          BY <2>2, <1>0
        <5> HIDE DEF n
        <5> QED
          BY <5>1
      <4> HIDE DEF n
      <4>3. /\ b \in Seq(A) /\ Len(b) = n - k
            /\ \A i \in 1 .. (n - k) : b[i] = list[(k + 1) + i - 1]
        BY <4>1, <4>2, SubSeqProperties
      <4> HIDE DEF b
      <4> QED
        BY <4>3, <2>2, <1>0
    <3> HIDE DEF a, b
    <3>3. left = a \o b
      BY DEF a, b
    <3> HIDE DEF left
    <3>4. left \in Seq(A) /\ Len(left) = n - 1
      BY <3>1, <3>2, <3>3, <2>2, <1>0
    <3>5. \A i \in 1 .. (n - 1) : left[i] = IF i < k THEN a[i] ELSE b[i - (k - 1)]
      BY <3>1, <3>2, <3>3, <2>2, <1>0
    <3>6. ASSUME NEW i \in 1 .. (n - 1), ~(i < k) PROVE b[i - (k - 1)] = list[i + 1]
      <4>1. i - (k - 1) \in 1 .. (n - k)
        BY <3>6, <2>2, <1>0
      <4>2. b[i - (k - 1)] = list[k + (i - (k - 1))]
        BY <3>2, <4>1
      <4> QED
        BY <4>2, <2>2, <1>0
    <3> QED
      BY <3>1, <3>4, <3>5, <3>6, <2>2, <1>0
  <2> HIDE DEF left
  <2> QED
    BY <2>1, <2>2, <2>3
<1> QED
  BY <1>1, <1>2

(* A list with e unlinked: the others stay, and e is gone if it was there  *)
(* once.                                                                   *)
LEMMA RemoveFirstIsList ==
  ASSUME NEW A, NEW list \in Seq(A), NEW e
  PROVE  /\ RemoveFirst(list, e) \in Seq(A)
         /\ ToSet(RemoveFirst(list, e)) \subseteq ToSet(list)
         /\ ToSet(list) \ {e} \subseteq ToSet(RemoveFirst(list, e))
         /\ IsInjective(list) =>
              /\ IsInjective(RemoveFirst(list, e))
              /\ ToSet(RemoveFirst(list, e)) = ToSet(list) \ {e}
<1> DEFINE n == Len(list)
           left == RemoveFirst(list, e)
<1>0. n \in Nat /\ DOMAIN list = 1 .. n
  OBVIOUS
<1>1. CASE e \notin ToSet(list) /\ left = list
  <2>1. left = list /\ e \notin ToSet(list)
    BY <1>1
  <2> QED
    BY <2>1
<1>2. ASSUME left \in Seq(A), Len(left) = n - 1, NEW k \in 1 .. n, list[k] = e,
             \A i \in 1 .. (n - 1) : left[i] = IF i < k THEN list[i] ELSE list[i + 1]
      PROVE  /\ ToSet(left) \subseteq ToSet(list) /\ ToSet(list) \ {e} \subseteq ToSet(left)
             /\ IsInjective(list) => IsInjective(left) /\ ToSet(left) = ToSet(list) \ {e}
  <2> HIDE DEF left
  <2>2. k \in 1 .. n /\ list[k] = e
    BY <1>2
  <2>3. /\ left \in Seq(A) /\ Len(left) = n - 1 /\ DOMAIN left = 1 .. (n - 1)
        /\ \A i \in 1 .. (n - 1) : left[i] = IF i < k THEN list[i] ELSE list[i + 1]
    BY <1>2
  <2>4. ASSUME NEW i \in 1 .. n, i # k
        PROVE  \E j \in 1 .. (n - 1) : left[j] = list[i]
    <3>1. CASE i < k
      BY <3>1, <2>2, <2>3, <1>0
    <3>2. CASE i > k
      <4>1. i - 1 \in 1 .. (n - 1) /\ left[i - 1] = list[i]
        BY <3>2, <2>2, <2>3, <1>0
      <4> QED
        BY <4>1
    <3> QED
      BY <2>4, <3>1, <3>2, <2>2
  <2>5. ASSUME NEW j \in 1 .. (n - 1)
        PROVE  \E i \in 1 .. n : left[j] = list[i] /\ i # k /\ (i = j \/ i = j + 1)
    BY <2>2, <2>3, <1>0
  <2>6. ToSet(left) \subseteq ToSet(list)
    <3>1. ASSUME NEW x \in ToSet(left) PROVE x \in ToSet(list)
      BY <3>1, <2>3, <2>5, InList
    <3> QED
      BY <3>1
  <2>7. ToSet(list) \ {e} \subseteq ToSet(left)
    <3>1. ASSUME NEW x \in ToSet(list), x # e PROVE x \in ToSet(left)
      <4>1. PICK i \in 1 .. n : list[i] = x
        BY <3>1, InList
      <4>2. PICK j \in 1 .. (n - 1) : left[j] = x
        BY <4>1, <3>1, <2>2, <2>4
      <4> QED
        BY <4>2, <2>3, InList
    <3> QED
      BY <3>1
  <2>8. ASSUME IsInjective(list) PROVE IsInjective(left) /\ e \notin ToSet(left)
    <3>1. \A i, j \in 1 .. n : list[i] = list[j] => i = j
      BY <2>8, OnceInList
    <3>2. ASSUME NEW i \in 1 .. (n - 1), NEW j \in 1 .. (n - 1), left[i] = left[j] PROVE i = j
      BY <3>1, <3>2, <2>2, <2>3, <1>0
    <3>3. e \notin ToSet(left)
      BY <3>1, <2>2, <2>3, <2>5, <1>0, InList
    <3> QED
      BY <3>2, <3>3, <2>3, OnceInList
  <2> QED
    BY <2>6, <2>7, <2>8
<1>3. \/ e \notin ToSet(list) /\ left = list
      \/ /\ left \in Seq(A) /\ Len(left) = n - 1
         /\ \E k \in 1 .. n : /\ list[k] = e
                              /\ \A i \in 1 .. (n - 1) :
                                   left[i] = IF i < k THEN list[i] ELSE list[i + 1]
  BY RemoveFirstShape
<1> HIDE DEF left, n
<1> QED
  BY <1>1, <1>2, <1>3 DEF left

LEMMA Prepended ==
  ASSUME NEW A, NEW list \in Seq(A), NEW e \in A
  PROVE  /\ <<e>> \o list \in Seq(A)
         /\ ToSet(<<e>> \o list) = ToSet(list) \cup {e}
         /\ IsInjective(list) /\ e \notin ToSet(list) => IsInjective(<<e>> \o list)
<1> DEFINE all == <<e>> \o list
<1>1. /\ all \in Seq(A) /\ Len(all) = Len(list) + 1
      /\ \A i \in 1 .. Len(all) : all[i] = IF i = 1 THEN e ELSE list[i - 1]
  OBVIOUS
<1> HIDE DEF all
<1>2. \A i \in 1 .. Len(list) : all[i + 1] = list[i]
  BY <1>1
<1>3. ToSet(all) = ToSet(list) \cup {e}
  <2>1. ASSUME NEW x \in ToSet(all) PROVE x \in ToSet(list) \cup {e}
    <3>1. PICK i \in 1 .. Len(all) : all[i] = x
      BY <2>1, <1>1, InList
    <3>2. CASE i = 1
      BY <3>1, <3>2, <1>1
    <3>3. CASE i # 1
      <4>1. i - 1 \in 1 .. Len(list) /\ list[i - 1] = x
        BY <3>1, <3>3, <1>1
      <4> QED
        BY <4>1, InList
    <3> QED
      BY <3>2, <3>3
  <2>2. ASSUME NEW x \in ToSet(list) PROVE x \in ToSet(all)
    <3>1. PICK i \in 1 .. Len(list) : list[i] = x
      BY <2>2, InList
    <3>2. i + 1 \in 1 .. Len(all) /\ all[i + 1] = x
      BY <3>1, <1>1, <1>2
    <3> QED
      BY <3>2, <1>1, InList
  <2>3. e \in ToSet(all)
    <3>1. 1 \in 1 .. Len(all) /\ all[1] = e
      BY <1>1
    <3> QED
      BY <3>1, <1>1, InList
  <2> QED
    BY <2>1, <2>2, <2>3
<1>4. ASSUME IsInjective(list), e \notin ToSet(list) PROVE IsInjective(all)
  <2>1. \A i, j \in 1 .. Len(list) : list[i] = list[j] => i = j
    BY <1>4, OnceInList
  <2>2. \A i \in 1 .. Len(list) : list[i] # e
    BY <1>4, InList
  <2>3. ASSUME NEW i \in 1 .. Len(all), NEW j \in 1 .. Len(all), all[i] = all[j]
        PROVE  i = j
    <3>1. \A m \in 1 .. Len(all) : m # 1 => m - 1 \in 1 .. Len(list) /\ all[m] = list[m - 1]
      BY <1>1
    <3>2. all[1] = e
      BY <1>1
    <3>3. CASE i = 1 \/ j = 1
      BY <2>2, <2>3, <3>1, <3>2, <3>3
    <3>4. CASE i # 1 /\ j # 1
      <4>1. i - 1 = j - 1
        BY <2>1, <2>3, <3>1, <3>4
      <4> QED
        BY <4>1
    <3> QED
      BY <3>3, <3>4
  <2> QED
    BY <2>3, <1>1, OnceInList
<1> QED
  BY <1>1, <1>3, <1>4 DEF all

LEMMA Appended ==
  ASSUME NEW A, NEW a \in Seq(A), NEW b \in Seq(A)
  PROVE  /\ a \o b \in Seq(A) /\ ToSet(a \o b) = ToSet(a) \cup ToSet(b)
         /\ IsInjective(a) /\ IsInjective(b) /\ ToSet(a) \cap ToSet(b) = {} =>
              IsInjective(a \o b)
<1> DEFINE all == a \o b
<1>1. /\ all \in Seq(A) /\ Len(all) = Len(a) + Len(b) /\ Len(a) \in Nat /\ Len(b) \in Nat
      /\ \A i \in 1 .. Len(all) : all[i] = IF i <= Len(a) THEN a[i] ELSE b[i - Len(a)]
  OBVIOUS
<1> HIDE DEF all
<1>2. ASSUME NEW x \in ToSet(all) PROVE x \in ToSet(a) \cup ToSet(b)
  <2>1. PICK i \in 1 .. Len(all) : all[i] = x
    BY <1>1, <1>2, InList
  <2>2. CASE i <= Len(a)
    <3>1. i \in 1 .. Len(a) /\ a[i] = x
      BY <1>1, <2>1, <2>2
    <3> QED
      BY <3>1, InList
  <2>3. CASE ~(i <= Len(a))
    <3>1. i - Len(a) \in 1 .. Len(b) /\ b[i - Len(a)] = x
      BY <1>1, <2>1, <2>3
    <3> QED
      BY <3>1, InList
  <2> QED
    BY <2>2, <2>3
<1>3. ASSUME NEW x \in ToSet(a) PROVE x \in ToSet(all)
  <2>1. PICK i \in 1 .. Len(a) : a[i] = x
    BY <1>3, InList
  <2>2. i \in 1 .. Len(all) /\ all[i] = x
    BY <1>1, <2>1
  <2> QED
    BY <1>1, <2>2, InList
<1>4. ASSUME NEW x \in ToSet(b) PROVE x \in ToSet(all)
  <2>1. PICK i \in 1 .. Len(b) : b[i] = x
    BY <1>4, InList
  <2> DEFINE j == i + Len(a)
  <2>2. j \in 1 .. Len(all) /\ ~(j <= Len(a)) /\ j - Len(a) = i
    BY <1>1, <2>1
  <2> HIDE DEF j
  <2>3. all[j] = x
    BY <1>1, <2>1, <2>2
  <2> QED
    BY <1>1, <2>2, <2>3, InList
<1>5. ASSUME IsInjective(a), IsInjective(b), ToSet(a) \cap ToSet(b) = {}
      PROVE  IsInjective(all)
  <2>1. /\ \A i, j \in 1 .. Len(a) : a[i] = a[j] => i = j
        /\ \A i, j \in 1 .. Len(b) : b[i] = b[j] => i = j
        /\ \A i \in 1 .. Len(a), j \in 1 .. Len(b) : a[i] # b[j]
    <3>1. \A i \in 1 .. Len(a), j \in 1 .. Len(b) : a[i] \in ToSet(a) /\ b[j] \in ToSet(b)
      BY InList
    <3> QED
      BY <1>5, <3>1, OnceInList
  <2>2. \A i \in 1 .. Len(all) : ~(i <= Len(a)) => i - Len(a) \in 1 .. Len(b)
    BY <1>1
  <2>3. ASSUME NEW i \in 1 .. Len(all), NEW j \in 1 .. Len(all), all[i] = all[j] PROVE i = j
    <3>1. CASE i <= Len(a) /\ j <= Len(a)
      BY <1>1, <2>1, <2>3, <3>1
    <3>2. CASE ~(i <= Len(a)) /\ ~(j <= Len(a))
      <4>1. i - Len(a) = j - Len(a)
        BY <1>1, <2>1, <2>2, <2>3, <3>2
      <4> QED
        BY <1>1, <4>1
    <3>3. CASE (i <= Len(a)) # (j <= Len(a))
      BY <1>1, <2>1, <2>2, <2>3, <3>3
    <3> QED
      BY <3>1, <3>2, <3>3
  <2> QED
    BY <1>1, <2>3, OnceInList
<1> QED
  BY <1>1, <1>2, <1>3, <1>4, <1>5 DEF all

(* A list cut in two.                                                       *)
Halves(A, list, a, b) ==
  /\ a \in Seq(A) /\ b \in Seq(A)
  /\ ToSet(a) \cup ToSet(b) = ToSet(list)
  /\ IsInjective(list) =>
       IsInjective(a) /\ IsInjective(b) /\ ToSet(a) \cap ToSet(b) = {}

LEMMA CutInTwo ==
  ASSUME NEW A, NEW list \in Seq(A), NEW k \in 0 .. Len(list)
  PROVE  Halves(A, list, SubSeq(list, 1, k), SubSeq(list, k + 1, Len(list)))
<1> DEFINE n == Len(list)
           a == SubSeq(list, 1, k)
           b == SubSeq(list, k + 1, n)
<1>1. n \in Nat /\ k \in 0 .. n /\ \A i \in 1 .. n : list[i] \in A
  OBVIOUS
<1>2. a \in Seq(A) /\ Len(a) = k /\ \A i \in 1 .. k : a[i] = list[i]
  <2> HIDE DEF n
  <2>1. \A i \in 1 .. k : list[i] \in A
    BY <1>1
  <2> QED
    BY <1>1, <2>1, SubSeqProperties
<1>3. b \in Seq(A) /\ Len(b) = n - k /\ \A i \in 1 .. (n - k) : b[i] = list[k + i]
  <2> HIDE DEF n
  <2>1. /\ \A i \in (k + 1) .. n : list[i] \in A
        /\ k + 1 \in Int /\ n \in Int /\ n - (k + 1) + 1 = n - k /\ (~(k + 1 <= n) => n - k = 0)
    BY <1>1
  <2>2. b = SubSeq(list, k + 1, n)
    BY DEF n
  <2>3. b \in Seq(A) /\ Len(b) = n - k /\ \A i \in 1 .. (n - k) : b[i] = list[(k + 1) + i - 1]
    BY <2>1, <2>2, SubSeqProperties
  <2> QED
    BY <1>1, <2>3
<1>4. \A x : x \in ToSet(list) <=> \E i \in 1 .. n : list[i] = x
  BY InList
<1>5. \A x : x \in ToSet(a) <=> \E i \in 1 .. k : list[i] = x
  <2>1. \A x : x \in ToSet(a) <=> \E i \in 1 .. k : a[i] = x
    <3>1. a \in Seq(A) /\ Len(a) = k
      BY <1>2
    <3>2. \A x : x \in ToSet(a) <=> \E i \in 1 .. Len(a) : a[i] = x
      BY <3>1, InList
    <3> QED
      BY <3>1, <3>2
  <2> HIDE DEF n
  <2> QED
    BY <1>2, <2>1
<1>6. \A x : x \in ToSet(b) <=> \E i \in 1 .. n : i > k /\ list[i] = x
  <2>1. \A x : x \in ToSet(b) <=> \E i \in 1 .. (n - k) : list[k + i] = x
    <3> DEFINE d == n - k
    <3>1. b \in Seq(A) /\ Len(b) = d /\ \A i \in 1 .. d : b[i] = list[k + i]
      BY <1>3
    <3> HIDE DEF d, n
    <3>2. \A x : x \in ToSet(b) <=> \E i \in 1 .. d : b[i] = x
      <4>1. b \in Seq(A) /\ Len(b) = d
        BY <3>1
      <4>2. \A x : x \in ToSet(b) <=> \E i \in 1 .. Len(b) : b[i] = x
        BY <4>1, InList
      <4> QED
        BY <4>1, <4>2
    <3>3. \A x : x \in ToSet(b) <=> \E i \in 1 .. d : list[k + i] = x
      BY <3>1, <3>2
    <3> QED
      BY <3>3 DEF d
  <2>2. ASSUME NEW i \in 1 .. (n - k) PROVE k + i \in 1 .. n /\ k + i > k
    BY <1>1
  <2>3. ASSUME NEW i \in 1 .. n, i > k PROVE i - k \in 1 .. (n - k) /\ k + (i - k) = i
    BY <1>1, <2>3
  <2> HIDE DEF n
  <2> QED
    BY <2>1, <2>2, <2>3
<1> HIDE DEF a, b
<1>7. ToSet(a) \cup ToSet(b) = ToSet(list)
  <2>1. \A i \in 1 .. k : i \in 1 .. n
    BY <1>1
  <2>2. \A i \in 1 .. n : i \in 1 .. k \/ i > k
    BY <1>1
  <2> HIDE DEF n
  <2> QED
    BY <1>4, <1>5, <1>6, <2>1, <2>2
<1>8. ASSUME IsInjective(list)
      PROVE  IsInjective(a) /\ IsInjective(b) /\ ToSet(a) \cap ToSet(b) = {}
  <2>1. \A i, j \in 1 .. n : list[i] = list[j] => i = j
    BY <1>8, OnceInList
  <2>2. IsInjective(a)
    <3>1. \A i, j \in 1 .. k : a[i] = a[j] => i = j
      BY <1>1, <1>2, <2>1
    <3> QED
      BY <1>2, <3>1, OnceInList
  <2>3. IsInjective(b)
    <3>1. ASSUME NEW i \in 1 .. (n - k), NEW j \in 1 .. (n - k), b[i] = b[j] PROVE i = j
      <4>1. k + i \in 1 .. n /\ k + j \in 1 .. n
        BY <1>1
      <4>2. k + i = k + j
        BY <1>3, <2>1, <3>1, <4>1
      <4> QED
        BY <1>1, <4>2
    <3> QED
      BY <1>3, <3>1, OnceInList
  <2>4. ToSet(a) \cap ToSet(b) = {}
    <3>1. \A i \in 1 .. k : i \in 1 .. n /\ ~(i > k)
      BY <1>1
    <3> HIDE DEF n
    <3> QED
      BY <1>5, <1>6, <2>1, <3>1
  <2> QED
    BY <2>2, <2>3, <2>4
<1> QED
  <2>1. Halves(A, list, a, b)
    BY <1>2, <1>3, <1>7, <1>8 DEF Halves
  <2> QED
    BY <2>1 DEF a, b

LEMMA InsertedAt ==
  ASSUME NEW A, NEW list \in Seq(A), NEW e \in A, NEW i \in 1 .. (Len(list) + 1)
  PROVE  /\ InsertAt(list, i, e) \in Seq(A)
         /\ ToSet(InsertAt(list, i, e)) = ToSet(list) \cup {e}
         /\ IsInjective(list) /\ e \notin ToSet(list) => IsInjective(InsertAt(list, i, e))
<1> DEFINE a == SubSeq(list, 1, i - 1)
           b == SubSeq(list, i, Len(list))
           m == <<e>> \o b
<1>1. i - 1 \in 0 .. Len(list) /\ (i - 1) + 1 = i
  OBVIOUS
<1>2. /\ a \in Seq(A) /\ b \in Seq(A)
      /\ ToSet(a) \cup ToSet(b) = ToSet(list)
      /\ IsInjective(list) =>
           IsInjective(a) /\ IsInjective(b) /\ ToSet(a) \cap ToSet(b) = {}
  <2> DEFINE k == i - 1
  <2>1. k \in 0 .. Len(list) /\ a = SubSeq(list, 1, k) /\ b = SubSeq(list, k + 1, Len(list))
    BY <1>1
  <2> HIDE DEF k
  <2>2. Halves(A, list, SubSeq(list, 1, k), SubSeq(list, k + 1, Len(list)))
    BY <2>1, CutInTwo
  <2> HIDE DEF a, b
  <2> QED
    BY <2>1, <2>2 DEF Halves
<1>3. InsertAt(list, i, e) = a \o m
  <2>1. InsertAt(list, i, e) = (a \o <<e>>) \o b
    BY DEF InsertAt
  <2>2. <<e>> \in Seq(A)
    OBVIOUS
  <2> HIDE DEF a, b
  <2> QED
    BY <1>2, <2>1, <2>2
<1> HIDE DEF a, b
<1>4. /\ m \in Seq(A) /\ ToSet(m) = ToSet(b) \cup {e}
      /\ IsInjective(b) /\ e \notin ToSet(b) => IsInjective(m)
  BY <1>2, Prepended
<1> HIDE DEF m
<1>5. /\ a \o m \in Seq(A) /\ ToSet(a \o m) = ToSet(a) \cup ToSet(m)
      /\ IsInjective(a) /\ IsInjective(m) /\ ToSet(a) \cap ToSet(m) = {} => IsInjective(a \o m)
  BY <1>2, <1>4, Appended
<1> QED
  BY <1>2, <1>3, <1>4, <1>5

InsertsIn(A, list, i, e) ==
  InsertAt(list, i, e) \in Seq(A) /\ ToSet(InsertAt(list, i, e)) = ToSet(list) \cup {e}

LEMMA InsertIsList ==
  ASSUME NEW A, NEW list \in Seq(A), NEW e \in A, NEW i \in 1 .. (Len(list) + 1)
  PROVE  InsertsIn(A, list, i, e)
BY InsertedAt DEF InsertsIn

(* Where a member first is in a list (0 when it is not).                    *)
PlaceIn(list, x) == SelectInSeq(list, LAMBDA e : e = x)

LEMMA PlaceFound ==
  ASSUME NEW A, NEW list \in Seq(A), NEW x \in ToSet(list)
  PROVE  /\ PlaceIn(list, x) \in 1 .. Len(list)
         /\ list[PlaceIn(list, x)] = x
<1> DEFINE n == Len(list)
           I == {k \in 1 .. n : list[k] = x}
<1>1. n \in Nat /\ \E k \in 1 .. n : list[k] = x
  BY InList
<1>2. PlaceIn(list, x) = IF I # {} THEN Min(I) ELSE 0
  BY DEF PlaceIn, SelectInSeq
<1>3. I # {} /\ I \subseteq 1 .. n
  BY <1>1
<1> HIDE DEF I, n
<1>4. Min(I) \in I
  BY <1>1, <1>3, FirstPlace
<1>5. PlaceIn(list, x) \in I
  BY <1>2, <1>3, <1>4
<1> QED
  BY <1>5 DEF I, n

LEMMA NextPlace ==
  ASSUME NEW A, NEW list \in Seq(A), NEW i \in 1 .. Len(list)
  PROVE  Len(list) \in Nat /\ i + 1 \in 1 .. (Len(list) + 1)
<1>1. Len(list) \in Nat
  OBVIOUS
<1> QED
  BY <1>1

(* What a list is once one of its members is put in the place of another.   *)
Replaced(A, list, old, new) ==
  /\ ReplaceAll(list, old, new) \in Seq(A)
  /\ \A x : x \in ToSet(ReplaceAll(list, old, new)) <=>
             \/ x \in ToSet(list) /\ x # old
             \/ x = new /\ old \in ToSet(list)
  /\ IsInjective(list) /\ new \notin ToSet(list) => IsInjective(ReplaceAll(list, old, new))

LEMMA ReplacedAll ==
  ASSUME NEW A, NEW list \in Seq(A), NEW old \in A, NEW new \in A
  PROVE  Replaced(A, list, old, new)
<1> DEFINE all == ReplaceAll(list, old, new)
           n == Len(list)
<1>1. n \in Nat /\ \A i \in 1 .. n : list[i] \in A
  OBVIOUS
<1>2. all = [i \in 1 .. n |-> IF list[i] = old THEN new ELSE list[i]]
  BY DEF ReplaceAll
<1> HIDE DEF n
<1>3. /\ all \in Seq(A) /\ Len(all) = n
      /\ \A i \in 1 .. n : all[i] = IF list[i] = old THEN new ELSE list[i]
  BY <1>1, <1>2
<1> HIDE DEF all
<1>4. /\ \A x : x \in ToSet(list) <=> \E i \in 1 .. n : list[i] = x
      /\ \A x : x \in ToSet(all) <=> \E i \in 1 .. n : all[i] = x
  BY <1>3, InList DEF n
<1>5. IsInjective(list) /\ new \notin ToSet(list) => IsInjective(all)
  <2>1. IsInjective(list) <=> \A i, j \in 1 .. n : list[i] = list[j] => i = j
    BY OnceInList DEF n
  <2>2. IsInjective(all) <=> \A i, j \in 1 .. n : all[i] = all[j] => i = j
    BY <1>3, OnceInList
  <2> QED
    BY <1>3, <1>4, <2>1, <2>2
<1>6. \A x : x \in ToSet(all) <=> \/ x \in ToSet(list) /\ x # old
                                  \/ x = new /\ old \in ToSet(list)
  BY <1>3, <1>4
<1>7. all \in Seq(A)
  BY <1>3
<1> QED
  BY <1>5, <1>6, <1>7 DEF all, Replaced

LEMMA ReversedList ==
  ASSUME NEW A, NEW list \in Seq(A)
  PROVE  Reverse(list) \in Seq(A) /\ ToSet(Reverse(list)) = ToSet(list)
<1> DEFINE all == Reverse(list)
           n == Len(list)
<1>1. n \in Nat /\ \A i \in 1 .. n : list[i] \in A
  OBVIOUS
<1>2. all = [i \in 1 .. n |-> list[(n - i) + 1]]
  BY DEF Reverse
<1> HIDE DEF n, all
<1>3. \A i \in 1 .. n : (n - i) + 1 \in 1 .. n /\ (n - ((n - i) + 1)) + 1 = i
  BY <1>1
<1>4. all \in Seq(A) /\ Len(all) = n /\ \A i \in 1 .. n : all[i] = list[(n - i) + 1]
  BY <1>1, <1>2, <1>3
<1>5. /\ \A x : x \in ToSet(list) <=> \E i \in 1 .. n : list[i] = x
      /\ \A x : x \in ToSet(all) <=> \E i \in 1 .. n : all[i] = x
  BY <1>4, InList DEF n
<1>6. ASSUME NEW x \in ToSet(list) PROVE x \in ToSet(all)
  <2>1. PICK i \in 1 .. n : list[i] = x
    BY <1>5
  <2> DEFINE j == (n - i) + 1
  <2>2. j \in 1 .. n /\ (n - j) + 1 = i
    BY <1>3
  <2> HIDE DEF j
  <2>3. all[j] = x
    BY <1>4, <2>1, <2>2
  <2> QED
    BY <1>5, <2>2, <2>3
<1>7. ASSUME NEW x \in ToSet(all) PROVE x \in ToSet(list)
  <2>1. PICK i \in 1 .. n : all[i] = x
    BY <1>5
  <2> QED
    BY <1>3, <1>4, <1>5, <2>1
<1> QED
  BY <1>4, <1>6, <1>7 DEF all

LEMMA ReversedOnce ==
  ASSUME NEW A, NEW list \in Seq(A), IsInjective(list)
  PROVE  IsInjective(Reverse(list))
<1> DEFINE all == Reverse(list)
           n == Len(list)
<1>1. n \in Nat /\ \A i, j \in 1 .. n : list[i] = list[j] => i = j
  BY OnceInList
<1>2. /\ all \in Seq(A) /\ all = [i \in 1 .. n |-> list[(n - i) + 1]]
  BY ReversedList DEF Reverse
<1> HIDE DEF n, all
<1>3. Len(all) = n
  BY <1>1, <1>2
<1>4. ASSUME NEW i \in 1 .. n, NEW j \in 1 .. n, all[i] = all[j] PROVE i = j
  <2>1. (n - i) + 1 \in 1 .. n /\ (n - j) + 1 \in 1 .. n
    BY <1>1
  <2>2. (n - i) + 1 = (n - j) + 1
    BY <1>1, <1>2, <1>4, <2>1
  <2> QED
    BY <1>1, <2>2
<1>5. IsInjective(all)
  BY <1>2, <1>3, <1>4, OnceInList
<1> QED
  BY <1>5 DEF all

-----------------------------------------------------------------------------
(* Lists whose members follow each other in the order of their ranks.      *)

Rising(list, r) ==
  \A i, j \in 1 .. Len(list) : i < j => r[list[i]] < r[list[j]]

(* e ranks before, or after, all of a list, or all that is ranked.          *)
RanksFirst(e, list, r) == \A x \in ToSet(list) : r[e] < r[x]
RanksLast(e, list, r) == \A x \in ToSet(list) : r[x] < r[e]
Lowest(lo, A, r) == \A x \in A : lo < r[x]
Highest(hi, A, r) == \A x \in A : r[x] < hi

LEMMA RisingOnce ==
  ASSUME NEW A, NEW list \in Seq(A), NEW r \in [A -> Int], Rising(list, r)
  PROVE  IsInjective(list)
<1>1. \A i \in 1 .. Len(list) : r[list[i]] \in Int
  OBVIOUS
<1>2. ASSUME NEW i \in 1 .. Len(list), NEW j \in 1 .. Len(list), list[i] = list[j] PROVE i = j
  <2>1. ~(i < j) /\ ~(j < i)
    BY <1>1, <1>2 DEF Rising
  <2> QED
    BY <2>1
<1> QED
  BY <1>2, OnceInList

(* Where the ranks that changed are of no member, a list rises as before.   *)
LEMMA RisingElsewhere ==
  ASSUME NEW A, NEW list \in Seq(A), NEW r, NEW q, Rising(list, r),
         \A x \in ToSet(list) : q[x] = r[x]
  PROVE  Rising(list, q)
<1>1. \A i \in 1 .. Len(list) : q[list[i]] = r[list[i]]
  BY InList
<1> QED
  BY <1>1 DEF Rising

LEMMA RisingWithout ==
  ASSUME NEW A, NEW list \in Seq(A), NEW e, NEW r \in [A -> Int], Rising(list, r)
  PROVE  /\ Rising(RemoveFirst(list, e), r)
         /\ RemoveFirst(list, e) \in Seq(A)
         /\ ToSet(RemoveFirst(list, e)) = ToSet(list) \ {e}
<1> DEFINE left == RemoveFirst(list, e)
           n == Len(list)
<1>1. left \in Seq(A) /\ ToSet(left) = ToSet(list) \ {e}
  BY RisingOnce, RemoveFirstIsList
<1>2. \/ e \notin ToSet(list) /\ left = list
      \/ /\ left \in Seq(A) /\ Len(left) = n - 1
         /\ \E k \in 1 .. n : /\ list[k] = e
                              /\ \A i \in 1 .. (n - 1) :
                                   left[i] = IF i < k THEN list[i] ELSE list[i + 1]
  BY RemoveFirstShape
<1>3. n \in Nat /\ \A i, j \in 1 .. n : i < j => r[list[i]] < r[list[j]]
  BY DEF Rising
<1> HIDE DEF left, n
<1>4. ASSUME Len(left) = n - 1, NEW k \in 1 .. n,
             \A i \in 1 .. (n - 1) : left[i] = IF i < k THEN list[i] ELSE list[i + 1]
      PROVE  Rising(left, r)
  <2>1. ASSUME NEW i \in 1 .. (n - 1), NEW j \in 1 .. (n - 1), i < j
        PROVE  r[left[i]] < r[left[j]]
    <3>1. i \in 1 .. n /\ j \in 1 .. n /\ i + 1 \in 1 .. n /\ j + 1 \in 1 .. n /\
          i < j + 1 /\ i + 1 < j + 1
      BY <1>3, <2>1
    <3>2. CASE i < k /\ j < k
      BY <1>3, <1>4, <2>1, <3>1, <3>2
    <3>3. CASE i < k /\ ~(j < k)
      BY <1>3, <1>4, <3>1, <3>3
    <3>4. CASE ~(i < k)
      <4>1. ~(j < k)
        BY <2>1, <3>4
      <4> QED
        BY <1>3, <1>4, <3>1, <3>4, <4>1
    <3> QED
      BY <3>2, <3>3, <3>4
  <2> QED
    BY <1>4, <2>1 DEF Rising
<1>5. ASSUME left = list PROVE Rising(left, r)
  BY <1>5
<1>6. Rising(left, r)
  BY <1>2, <1>4, <1>5
<1> QED
  BY <1>1, <1>6 DEF left

LEMMA RisingPrepended ==
  ASSUME NEW A, NEW list \in Seq(A), NEW e \in A, NEW r \in [A -> Int], Rising(list, r),
         RanksFirst(e, list, r)
  PROVE  /\ Rising(<<e>> \o list, r)
         /\ <<e>> \o list \in Seq(A)
         /\ ToSet(<<e>> \o list) = ToSet(list) \cup {e}
<1> DEFINE all == <<e>> \o list
<1>1. /\ Len(all) = Len(list) + 1 /\ Len(list) \in Nat
      /\ \A i \in 1 .. Len(all) : all[i] = IF i = 1 THEN e ELSE list[i - 1]
  OBVIOUS
<1> HIDE DEF all
<1>2. \A i \in 1 .. Len(list) : r[e] < r[list[i]]
  BY InList DEF RanksFirst
<1>3. \A i \in 1 .. Len(all) : i # 1 => i - 1 \in 1 .. Len(list)
  BY <1>1
<1>4. ASSUME NEW i \in 1 .. Len(all), NEW j \in 1 .. Len(all), i < j
      PROVE  r[all[i]] < r[all[j]]
  <2>1. j # 1 /\ all[j] = list[j - 1] /\ j - 1 \in 1 .. Len(list)
    BY <1>1, <1>3, <1>4
  <2>2. CASE i = 1
    BY <1>1, <1>2, <2>1, <2>2
  <2>3. CASE i # 1
    <3>1. i - 1 \in 1 .. Len(list) /\ i - 1 < j - 1 /\ all[i] = list[i - 1]
      BY <1>1, <1>3, <1>4, <2>3
    <3> QED
      BY <2>1, <3>1 DEF Rising
  <2> QED
    BY <2>2, <2>3
<1>5. Rising(all, r)
  BY <1>4 DEF Rising
<1> QED
  BY <1>5, Prepended DEF all

LEMMA RisingAppended ==
  ASSUME NEW A, NEW list \in Seq(A), NEW e \in A, NEW r \in [A -> Int], Rising(list, r),
         RanksLast(e, list, r)
  PROVE  /\ Rising(Append(list, e), r)
         /\ Append(list, e) \in Seq(A)
         /\ ToSet(Append(list, e)) = ToSet(list) \cup {e}
<1> DEFINE all == Append(list, e)
           n == Len(list)
<1>1. /\ all \in Seq(A) /\ Len(all) = n + 1 /\ n \in Nat
      /\ \A i \in 1 .. n : all[i] = list[i]
      /\ all[n + 1] = e
  OBVIOUS
<1>2. \A i \in 1 .. n : r[list[i]] < r[e]
  BY InList DEF RanksLast
<1>3. \A i, j \in 1 .. n : i < j => r[list[i]] < r[list[j]]
  BY DEF Rising
<1>4. \A x : x \in ToSet(list) <=> \E i \in 1 .. n : list[i] = x
  BY InList
<1> HIDE DEF all, n
<1>5. ASSUME NEW i \in 1 .. (n + 1), NEW j \in 1 .. (n + 1), i < j
      PROVE  r[all[i]] < r[all[j]]
  <2>1. i \in 1 .. n /\ (j \in 1 .. n \/ j = n + 1)
    BY <1>1, <1>5
  <2> QED
    BY <1>1, <1>2, <1>3, <1>5, <2>1
<1>6. \A x : x \in ToSet(all) <=> \E i \in 1 .. (n + 1) : all[i] = x
  <2>1. HoldsMembers(all) /\ Len(all) = n + 1
    BY <1>1, ListHoldsMembers
  <2> QED
    BY <2>1 DEF HoldsMembers
<1>7. 1 .. (n + 1) = (1 .. n) \cup {n + 1}
  BY <1>1
<1>8. ToSet(all) = ToSet(list) \cup {e}
  <2>1. ASSUME NEW x PROVE x \in ToSet(all) <=> x \in ToSet(list) \cup {e}
    <3>1. (\E i \in 1 .. (n + 1) : all[i] = x) <=> (\E i \in 1 .. n : list[i] = x) \/ x = e
      BY <1>1, <1>7
    <3> QED
      BY <1>4, <1>6, <3>1
  <2> QED
    BY <2>1
<1>9. Rising(all, r)
  BY <1>1, <1>5 DEF Rising
<1> QED
  BY <1>1, <1>8, <1>9 DEF all

(* One set of ranks leaves one order for a list.                            *)
LEMMA RisingAlike ==
  ASSUME NEW A, NEW a \in Seq(A), NEW b \in Seq(A), NEW r \in [A -> Int],
         Rising(a, r), Rising(b, r), ToSet(a) = ToSet(b)
  PROVE  a = b
<1>1. /\ Len(a) \in Nat /\ Len(b) \in Nat
      /\ \A i \in 1 .. Len(a) : r[a[i]] \in Int
      /\ \A i \in 1 .. Len(b) : r[b[i]] \in Int
  OBVIOUS
<1>2. IsInjective(a) /\ IsInjective(b)
  BY RisingOnce
<1>3. /\ \A i \in 1 .. Len(a) : \E j \in 1 .. Len(b) : b[j] = a[i]
      /\ \A i \in 1 .. Len(b) : \E j \in 1 .. Len(a) : a[j] = b[i]
  BY InList
<1> DEFINE T == {i \in 1 .. Len(a) : i > Len(b) \/ a[i] # b[i]}
<1>4. T = {}
  <2> SUFFICES ASSUME T # {} PROVE FALSE
    OBVIOUS
  <2>1. T \subseteq Nat
    BY <1>1
  <2> HIDE DEF T
  <2>2. PICK i \in T : \A j \in T : i <= j
    BY <2>1, LeastNumber
  <2> USE DEF T
  <2>3. /\ i \in 1 .. Len(a) /\ (i > Len(b) \/ a[i] # b[i])
        /\ \A j \in 1 .. Len(a) : j < i => j <= Len(b) /\ a[j] = b[j]
    BY <1>1, <2>2
  <2>4. PICK k \in 1 .. Len(b) : b[k] = a[i]
    BY <1>3, <2>3
  <2>5. ~(k < i)
    <3>1. ASSUME k < i PROVE FALSE
      <4>a. k \in 1 .. Len(a) /\ k # i
        BY <1>1, <2>3, <2>4, <3>1
      <4>b. a[k] = b[k]
        BY <2>3, <3>1, <4>a
      <4>1. k \in 1 .. Len(a) /\ a[k] = a[i] /\ k # i
        BY <2>4, <4>a, <4>b
      <4> QED
        BY <1>2, <2>3, <4>1, OnceInList
    <3> QED
      BY <3>1
  <2>6. k > i /\ i \in 1 .. Len(b) /\ r[b[i]] < r[a[i]] /\ a[i] # b[i]
    <3>1. k # i
      BY <2>3, <2>4
    <3>2. k > i /\ i \in 1 .. Len(b)
      BY <1>1, <2>3, <2>5, <3>1
    <3>3. r[b[i]] < r[b[k]]
      BY <1>1, <2>3, <2>4, <3>2 DEF Rising
    <3>4. r[a[i]] \in Int /\ r[b[i]] \in Int /\ b[k] = a[i]
      BY <1>1, <2>3, <2>4, <3>2
    <3> QED
      BY <3>2, <3>3, <3>4
  <2>7. PICK m \in 1 .. Len(a) : a[m] = b[i]
    BY <1>3, <2>6
  <2>8. ~(m < i)
    <3>1. ASSUME m < i PROVE FALSE
      <4>1. m \in 1 .. Len(b) /\ b[m] = b[i] /\ m # i
        BY <1>1, <2>3, <2>6, <2>7, <3>1
      <4> QED
        BY <1>2, <2>6, <4>1, OnceInList
    <3> QED
      BY <3>1
  <2>9. m > i
    BY <1>1, <2>3, <2>6, <2>7, <2>8
  <2>10. r[a[i]] < r[b[i]]
    BY <2>3, <2>7, <2>9 DEF Rising
  <2>11. r[a[i]] \in Int /\ r[b[i]] \in Int
    BY <1>1, <2>3, <2>6
  <2> QED
    BY <2>6, <2>10, <2>11
<1>5. \A i \in 1 .. Len(a) : i <= Len(b) /\ a[i] = b[i]
  BY <1>1, <1>4
<1>6. Len(b) <= Len(a)
  <2> SUFFICES ASSUME Len(b) > Len(a) PROVE FALSE
    BY <1>1
  <2>1. Len(b) \in 1 .. Len(b)
    BY <1>1
  <2>2. PICK j \in 1 .. Len(a) : a[j] = b[Len(b)]
    BY <1>3, <2>1
  <2>3. j \in 1 .. Len(b) /\ b[j] = b[Len(b)] /\ j # Len(b)
    BY <1>1, <1>5, <2>2
  <2> QED
    BY <1>2, <2>1, <2>3, OnceInList
<1>7. Len(a) <= Len(b)
  BY <1>1, <1>5
<1>8. Len(a) = Len(b) /\ \A i \in 1 .. Len(a) : a[i] = b[i]
  BY <1>1, <1>5, <1>6, <1>7
<1> QED
  BY <1>8

LEMMA RisingJoined ==
  ASSUME NEW A, NEW a \in Seq(A), NEW b \in Seq(A), NEW r \in [A -> Int],
         Rising(a, r), Rising(b, r),
         \A x \in ToSet(a), y \in ToSet(b) : r[x] < r[y]
  PROVE  Rising(a \o b, r)
<1> DEFINE all == a \o b
           n == Len(a)
           k == Len(b)
<1>1. /\ n \in Nat /\ k \in Nat /\ Len(all) = n + k
      /\ \A i \in 1 .. n : all[i] = a[i]
      /\ \A i \in (n + 1) .. (n + k) : i - n \in 1 .. k /\ all[i] = b[i - n]
  OBVIOUS
<1>2. \A i \in 1 .. n, j \in 1 .. k : r[a[i]] < r[b[j]]
  BY InList
<1>3. ASSUME NEW i \in 1 .. (n + k), NEW j \in 1 .. (n + k), i < j
      PROVE  r[all[i]] < r[all[j]]
  <2> HIDE DEF all, n, k
  <2>1. CASE j <= n
    <3>1. i \in 1 .. n /\ j \in 1 .. n
      BY <1>1, <1>3, <2>1
    <3> QED
      BY <1>1, <1>3, <3>1 DEF Rising, n
  <2>2. CASE i > n
    <3> DEFINE p == i - n
               q == j - n
    <3>1. i \in (n + 1) .. (n + k) /\ j \in (n + 1) .. (n + k)
      BY <1>1, <1>3, <2>2
    <3>2. p \in 1 .. k /\ q \in 1 .. k /\ p < q /\ all[i] = b[p] /\ all[j] = b[q]
      BY <1>1, <1>3, <3>1
    <3> HIDE DEF p, q
    <3> QED
      BY <3>2 DEF Rising, k
  <2>3. CASE i <= n /\ j > n
    <3>1. i \in 1 .. n /\ j \in (n + 1) .. (n + k)
      BY <1>1, <1>3, <2>3
    <3> QED
      BY <1>1, <1>2, <3>1
  <2> QED
    BY <1>1, <1>3, <2>1, <2>2, <2>3
<1> QED
  BY <1>1, <1>3 DEF Rising

(* Moving what is first to the front, or what is last to the end.           *)
LEMMA FrontStays ==
  ASSUME NEW A, NEW list \in Seq(A), NEW r \in [A -> Int], Rising(list, r),
         NEW e \in ToSet(list), RanksFirst(e, RemoveFirst(list, e), r)
  PROVE  <<e>> \o RemoveFirst(list, e) = list
<1> DEFINE rest == RemoveFirst(list, e)
<1>1. Rising(rest, r) /\ rest \in Seq(A) /\ ToSet(rest) = ToSet(list) \ {e}
  BY RisingWithout
<1>2. e \in A
  BY InList
<1> HIDE DEF rest
<1>3. Rising(<<e>> \o rest, r) /\ <<e>> \o rest \in Seq(A)
      /\ ToSet(<<e>> \o rest) = ToSet(rest) \cup {e}
  BY <1>1, <1>2, RisingPrepended DEF rest
<1> DEFINE all == <<e>> \o rest
<1>4. ToSet(all) = ToSet(list)
  BY <1>1, <1>3
<1> HIDE DEF all
<1>5. all = list
  BY <1>3, <1>4, RisingAlike DEF all
<1> QED
  BY <1>5 DEF all, rest

LEMMA BackStays ==
  ASSUME NEW A, NEW list \in Seq(A), NEW r \in [A -> Int], Rising(list, r),
         NEW e \in ToSet(list), RanksLast(e, RemoveFirst(list, e), r)
  PROVE  Append(RemoveFirst(list, e), e) = list
<1> DEFINE rest == RemoveFirst(list, e)
<1>1. Rising(rest, r) /\ rest \in Seq(A) /\ ToSet(rest) = ToSet(list) \ {e}
  BY RisingWithout
<1>2. e \in A
  BY InList
<1> HIDE DEF rest
<1>3. Rising(Append(rest, e), r) /\ Append(rest, e) \in Seq(A)
      /\ ToSet(Append(rest, e)) = ToSet(rest) \cup {e}
  BY <1>1, <1>2, RisingAppended DEF rest
<1> DEFINE all == Append(rest, e)
<1>4. ToSet(all) = ToSet(list)
  BY <1>1, <1>3
<1> HIDE DEF all
<1>5. all = list
  BY <1>3, <1>4, RisingAlike DEF all
<1> QED
  BY <1>5 DEF all, rest

IsJoin(A, a, b, all) ==
  /\ all \in Seq(A) /\ Len(all) = Len(a) + Len(b) /\ Len(a) \in Nat /\ Len(b) \in Nat
  /\ \A i \in 1 .. Len(a) : all[i] = a[i]
  /\ \A i \in 1 .. Len(b) : all[Len(a) + i] = b[i]

LEMMA Joined ==
  ASSUME NEW A, NEW a \in Seq(A), NEW b \in Seq(A)
  PROVE  IsJoin(A, a, b, a \o b)
<1> DEFINE all == a \o b
<1>1. /\ all \in Seq(A) /\ Len(all) = Len(a) + Len(b) /\ Len(a) \in Nat /\ Len(b) \in Nat
      /\ \A i \in 1 .. Len(all) : all[i] = IF i <= Len(a) THEN a[i] ELSE b[i - Len(a)]
  OBVIOUS
<1> HIDE DEF all
<1>2. ASSUME NEW i \in 1 .. Len(a) PROVE all[i] = a[i]
  BY <1>1
<1>3. ASSUME NEW i \in 1 .. Len(b) PROVE all[Len(a) + i] = b[i]
  <2> DEFINE j == Len(a) + i
  <2>1. j \in 1 .. Len(all) /\ ~(j <= Len(a)) /\ j - Len(a) = i
    BY <1>1
  <2> HIDE DEF j
  <2>2. all[j] = b[i]
    BY <1>1, <2>1
  <2> QED
    BY <2>2 DEF j
<1> QED
  BY <1>1, <1>2, <1>3 DEF all, IsJoin

LEMMA OneItem ==
  ASSUME NEW A, NEW e \in A
  PROVE  <<e>> \in Seq(A) /\ Len(<<e>>) = 1 /\ ToSet(<<e>>) = {e} /\ IsInjective(<<e>>)
<1> DEFINE list == <<e>>
<1>1. list \in Seq(A) /\ Len(list) = 1 /\ list[1] = e /\ 1 .. 1 = {1}
  OBVIOUS
<1> HIDE DEF list
<1>2. IsInjective(list)
  BY <1>1, OnceInList
<1>3. \A x : x \in ToSet(list) <=> x = e
  BY <1>1, InList
<1>4. ToSet(list) = {e}
  BY <1>3
<1> QED
  BY <1>1, <1>2, <1>4 DEF list

(* An element that is put where its rank belongs, or that takes the place   *)
(* and the rank of another.                                                 *)
LEMMA RisingInserted ==
  ASSUME NEW A, NEW list \in Seq(A), NEW e \in A, NEW r \in [A -> Int], Rising(list, r),
         NEW i \in 1 .. (Len(list) + 1),
         \A j \in 1 .. Len(list) : IF j < i THEN r[list[j]] < r[e] ELSE r[e] < r[list[j]]
  PROVE  Rising(InsertAt(list, i, e), r)
<1> DEFINE all == InsertAt(list, i, e)
           n == Len(list)
           a == SubSeq(list, 1, i - 1)
           b == SubSeq(list, i, n)
<1>1. /\ n \in Nat /\ a \in Seq(A) /\ b \in Seq(A) /\ Len(a) = i - 1 /\ Len(b) = n - i + 1
      /\ \A j \in 1 .. (i - 1) : a[j] = list[j]
      /\ \A j \in 1 .. (n - i + 1) : b[j] = list[i + j - 1]
  OBVIOUS
<1>2. all = (a \o <<e>>) \o b
  BY DEF InsertAt
<1> HIDE DEF a, b, all, n
<1>3. i \in 1 .. (n + 1)
  BY DEF n
<1>4. /\ Len(all) = n + 1
      /\ \A j \in 1 .. (n + 1) :
           all[j] = IF j < i THEN list[j] ELSE IF j = i THEN e ELSE list[j - 1]
  <2> DEFINE one == <<e>>
             c == a \o one
  <2>1. one \in Seq(A) /\ Len(one) = 1 /\ one[1] = e
    OBVIOUS
  <2> HIDE DEF one
  <2>2. IsJoin(A, a, one, c)
    BY <1>1, <2>1, Joined
  <2> HIDE DEF c
  <2>3. IsJoin(A, c, b, all)
    <3>1. c \in Seq(A)
      BY <2>2 DEF IsJoin
    <3>2. IsJoin(A, c, b, c \o b)
      BY <1>1, <3>1, Joined
    <3>3. all = c \o b
      BY <1>2 DEF c, one
    <3> QED
      BY <3>2, <3>3
  <2>4. /\ Len(c) = i
        /\ \A j \in 1 .. (i - 1) : c[j] = list[j]
        /\ c[(i - 1) + 1] = e
    BY <1>1, <1>3, <2>1, <2>2 DEF IsJoin
  <2>5. /\ Len(all) = i + (n - i + 1)
        /\ \A j \in 1 .. i : all[j] = c[j]
        /\ \A j \in 1 .. (n - i + 1) : all[i + j] = b[j]
    BY <1>1, <2>3, <2>4 DEF IsJoin
  <2>6. Len(all) = n + 1 /\ (i - 1) + 1 = i
    BY <1>1, <1>3, <2>5
  <2>7. ASSUME NEW j \in 1 .. (n + 1)
        PROVE  all[j] = IF j < i THEN list[j] ELSE IF j = i THEN e ELSE list[j - 1]
    <3>1. CASE j < i
      <4>a. i \in Int /\ j \in Int /\ 1 <= j
        BY <1>1, <1>3
      <4>1. j \in 1 .. (i - 1) /\ j \in 1 .. i
        BY <3>1, <4>a
      <4> QED
        BY <2>4, <2>5, <3>1, <4>1
    <3>2. CASE j = i
      <4>1. i \in 1 .. i
        BY <1>1, <1>3
      <4> QED
        BY <1>3, <2>4, <2>5, <2>6, <3>2, <4>1
    <3>3. CASE j > i
      <4> DEFINE k == j - i
      <4>1. k \in 1 .. (n - i + 1) /\ i + k = j /\ i + k - 1 = j - 1
        BY <1>1, <1>3, <3>3
      <4> HIDE DEF k
      <4>2. all[i + k] = b[k] /\ b[k] = list[i + k - 1]
        BY <1>1, <2>5, <4>1
      <4>3. ~(j < i) /\ j # i
        BY <1>1, <1>3, <3>3
      <4> QED
        BY <4>1, <4>2, <4>3
    <3> QED
      BY <1>1, <1>3, <3>1, <3>2, <3>3
  <2> QED
    BY <2>6, <2>7
<1>5. /\ \A j, k \in 1 .. n : j < k => r[list[j]] < r[list[k]]
      /\ \A j \in 1 .. n : IF j < i THEN r[list[j]] < r[e] ELSE r[e] < r[list[j]]
  BY DEF Rising, n
<1>6. ASSUME NEW j \in 1 .. (n + 1), NEW k \in 1 .. (n + 1), j < k
      PROVE  r[all[j]] < r[all[k]]
  <2>1. j < i => j \in 1 .. n /\ all[j] = list[j]
    BY <1>1, <1>3, <1>4
  <2>2. k < i => k \in 1 .. n /\ all[k] = list[k]
    BY <1>1, <1>3, <1>4
  <2>3. j > i => j - 1 \in 1 .. n /\ all[j] = list[j - 1] /\ ~(j - 1 < i)
    BY <1>1, <1>3, <1>4
  <2>4. k > i => k - 1 \in 1 .. n /\ all[k] = list[k - 1] /\ ~(k - 1 < i)
    BY <1>1, <1>3, <1>4
  <2>5. i \in 1 .. (n + 1) /\ all[i] = e
    BY <1>3, <1>4
  <2>6. CASE k < i
    BY <1>3, <1>5, <1>6, <2>1, <2>2, <2>6
  <2>7. CASE j > i
    <3>1. j - 1 < k - 1 /\ k > i
      BY <1>3, <1>6, <2>7
    <3> QED
      BY <1>5, <2>3, <2>4, <2>7, <3>1
  <2>8. CASE j = i
    BY <1>3, <1>5, <1>6, <2>4, <2>5, <2>8
  <2>9. CASE j < i /\ k = i
    BY <1>5, <2>1, <2>5, <2>9
  <2>10. CASE j < i /\ k > i
    <3>1. j < k - 1
      BY <1>1, <1>3, <2>10
    <3> QED
      BY <1>5, <2>1, <2>4, <2>10, <3>1
  <2> QED
    BY <1>3, <1>6, <2>6, <2>7, <2>8, <2>9, <2>10
<1> QED
  BY <1>1, <1>4, <1>6 DEF Rising, all

LEMMA RisingReplaced ==
  ASSUME NEW A, NEW list \in Seq(A), NEW old \in A, NEW new \in A, NEW r \in [A -> Int],
         Rising(list, r), new \notin ToSet(list), r[new] = r[old]
  PROVE  Rising(ReplaceAll(list, old, new), r)
<1> DEFINE all == ReplaceAll(list, old, new)
           n == Len(list)
<1>1. n \in Nat /\ \A i \in 1 .. n : list[i] \in A
  OBVIOUS
<1>2. all = [i \in 1 .. n |-> IF list[i] = old THEN new ELSE list[i]]
  BY DEF ReplaceAll
<1> HIDE DEF n
<1>3. /\ Len(all) = n
      /\ \A i \in 1 .. n : all[i] = IF list[i] = old THEN new ELSE list[i]
  BY <1>1, <1>2
<1> HIDE DEF all
<1>4. \A i \in 1 .. n : r[all[i]] = r[list[i]]
  BY <1>3
<1>5. \A i, j \in 1 .. n : i < j => r[list[i]] < r[list[j]]
  BY DEF Rising, n
<1> QED
  BY <1>3, <1>4, <1>5 DEF Rising, all

(* Any list without repetitions rises in the ranks of its places, which may *)
(* leave room in between.                                                  *)
LEMMA RisingByPlace ==
  ASSUME NEW A, NEW list \in Seq(A), IsInjective(list)
  PROVE  \E r \in [A -> Int] : /\ Rising(list, r)
                               /\ \A i \in 1 .. Len(list) : r[list[i]] = 2 * i
<1> DEFINE n == Len(list)
           PlaceOf(e) == CHOOSE i \in 1 .. n : list[i] = e
           r == [e \in A |-> IF \E i \in 1 .. n : list[i] = e THEN 2 * PlaceOf(e) ELSE 0]
<1>1. n \in Nat /\ \A i \in 1 .. n : list[i] \in A
  OBVIOUS
<1>2. \A i, j \in 1 .. n : list[i] = list[j] => i = j
  BY OnceInList
<1> HIDE DEF n
<1>3. ASSUME NEW i \in 1 .. n PROVE PlaceOf(list[i]) = i
  <2> DEFINE k == PlaceOf(list[i])
  <2>1. k \in 1 .. n /\ list[k] = list[i]
    OBVIOUS
  <2> HIDE DEF k
  <2> QED
    BY <1>2, <2>1 DEF k
<1>4. \A e \in A : (\E i \in 1 .. n : list[i] = e) => PlaceOf(e) \in 1 .. n
  OBVIOUS
<1> HIDE DEF PlaceOf
<1>5. \A i \in 1 .. n : r[list[i]] = 2 * i
  BY <1>1, <1>3
<1>6. r \in [A -> Int]
  <2>1. \A i \in 1 .. n : 2 * i \in Int
    BY <1>1
  <2> QED
    BY <1>4, <2>1
<1> HIDE DEF r
<1>7. \A i, j \in 1 .. n : i < j => 2 * i < 2 * j
  BY <1>1
<1>8. Rising(list, r)
  BY <1>5, <1>7 DEF Rising, n
<1> QED
  BY <1>5, <1>6, <1>8 DEF n

-----------------------------------------------------------------------------
(* Loops over a list: a state that is in V[u] after the places u have been  *)
(* gone through is in V of all places in the end.  V may depend on the     *)
(* places that are left, and so may what the step can be applied to.       *)

LEMMA LoopStays ==
  ASSUME NEW n \in Nat, NEW V, NEW f, f[{}] \in V[{}],
         \A u \in SUBSET (1 .. n) :
            u # {} /\ f[u \ {Max(u)}] \in V[u \ {Max(u)}] => f[u] \in V[u]
  PROVE  \A u \in SUBSET (1 .. n) : f[u] \in V[u]
<1> DEFINE S == 1 .. n
           C == [u \in SUBSET S |-> Max(u)]
<1>1. IsFiniteSet(S)
  BY FS_Interval
<1>2. \A u \in SUBSET S : u # {} => C[u] \in u /\ C[u] = Max(u)
  BY LastPlace
<1>3. \A u \in SUBSET S : u # {} /\ f[u \ {C[u]}] \in V[u \ {C[u]}] => f[u] \in V[u]
  BY <1>2
<1> HIDE DEF S, C
<1>4. \A u \in SUBSET S : f[u] \in V[u]
  BY <1>1, <1>2, <1>3, RecursionStays
<1> QED
  BY <1>4 DEF S

LoopSteps(n, V, step) ==
  \A u \in SUBSET (1 .. n) :
     u # {} => \A w \in V[u \ {Max(u)}] : step[<<Max(u), w>>] \in V[u]

IsLoop(g, n, V, base, step) ==
  /\ g = [u \in SUBSET (1 .. n) |-> IF u = {} THEN base ELSE step[<<Max(u), g[u \ {Max(u)}]>>]]
  /\ \A u \in SUBSET (1 .. n) : g[u] \in V[u]

LEMMA LoopExists ==
  ASSUME NEW n \in Nat, NEW V, NEW base, base \in V[{}], NEW step, LoopSteps(n, V, step)
  PROVE  \E g : IsLoop(g, n, V, base, step)
<1> DEFINE S == 1 .. n
           C == [u \in SUBSET S |-> Max(u)]
           X == UNION {V[u] : u \in SUBSET S}
           W == {p \in (SUBSET S) \X X : p[2] \in V[p[1]]}
           Adds(x, u) == x \notin u /\ Max(u \cup {x}) = x
           Next(x, p) == IF Adds(x, p[1]) THEN <<p[1] \cup {x}, step[<<x, p[2]>>]>> ELSE p
           both == [q \in S \X W |-> Next(q[1], q[2])]
           F == [u \in SUBSET S |-> {p \in W : p[1] = u}]
<1>1. IsFiniteSet(S)
  BY FS_Interval
<1>2. \A u \in SUBSET S : u # {} => C[u] \in u /\ C[u] = Max(u)
  BY LastPlace
<1>3. \A u \in SUBSET S : u # {} => \A w \in V[u \ {Max(u)}] : step[<<Max(u), w>>] \in V[u]
  BY DEF LoopSteps
<1>4. <<{}, base>> \in W
  OBVIOUS
<1> HIDE DEF S
<1>5. ASSUME NEW x \in S, NEW p \in W PROVE Next(x, p) \in W
  <2>1. CASE Adds(x, p[1])
    <3> DEFINE u == p[1] \cup {x}
    <3>1. u \in SUBSET S /\ u # {} /\ Max(u) = x /\ u \ {x} = p[1] /\ p[2] \in V[p[1]]
      BY <2>1
    <3> HIDE DEF u
    <3>2. step[<<x, p[2]>>] \in V[u]
      BY <1>3, <3>1
    <3>3. step[<<x, p[2]>>] \in X
      BY <3>1, <3>2
    <3>4. Next(x, p) = <<u, step[<<x, p[2]>>]>>
      BY <2>1 DEF u
    <3> HIDE DEF X, Next
    <3> QED
      BY <3>1, <3>2, <3>3, <3>4
  <2>2. CASE ~Adds(x, p[1])
    BY <2>2
  <2> QED
    BY <2>1, <2>2
<1>6. both \in [S \X W -> W]
  <2> HIDE DEF Next, W
  <2> QED
    BY <1>5
<1>7. PICK h : IsRecursion(h, S, W, <<{}, base>>, C, both)
  <2> HIDE DEF both, W, C
  <2> QED
    BY <1>1, <1>2, <1>4, <1>6, RecursionExists
<1>8. h[{}] \in F[{}]
  BY <1>4, <1>7 DEF IsRecursion
<1>9. ASSUME NEW u \in SUBSET S, u # {}, h[u \ {C[u]}] \in F[u \ {C[u]}]
      PROVE  h[u] \in F[u] /\ h[u][2] = step[<<Max(u), h[u \ {Max(u)}][2]>>]
  <2> DEFINE x == Max(u)
             rest == u \ {x}
             p == h[rest]
  <2>1. x \in u /\ x \in S /\ C[u] = x /\ rest \in SUBSET S /\ rest \cup {x} = u /\ x \notin rest
    BY <1>2, <1>9
  <2>2. p \in W /\ p[1] = rest
    BY <1>9, <2>1
  <2>3. h[u] = both[<<x, p>>]
    BY <1>7, <1>9, <2>1 DEF IsRecursion
  <2> HIDE DEF W, p, rest
  <2>4. both[<<x, p>>] = Next(x, p)
    <3> HIDE DEF Next, x
    <3> QED
      BY <2>1, <2>2
  <2>5. Adds(x, p[1])
    BY <2>1, <2>2
  <2>6. h[u] = <<u, step[<<x, p[2]>>]>> /\ Next(x, p) \in W
    <3>1. Next(x, p) \in W
      <4> HIDE DEF x, Next
      <4> QED
        BY <1>5, <2>1, <2>2
    <3> QED
      BY <2>1, <2>2, <2>3, <2>4, <2>5, <3>1
  <2>7. h[u] \in W /\ h[u][1] = u /\ h[u][2] = step[<<x, p[2]>>]
    BY <2>3, <2>4, <2>6
  <2> QED
    BY <2>1, <2>7 DEF p, rest
<1>10. \A u \in SUBSET S : h[u] \in F[u]
  <2> HIDE DEF F, C
  <2> QED
    BY <1>1, <1>2, <1>8, <1>9, RecursionStays
<1> DEFINE g == [u \in SUBSET S |-> h[u][2]]
<1>11. ASSUME NEW u \in SUBSET S
       PROVE  g[u] = IF u = {} THEN base ELSE step[<<Max(u), g[u \ {Max(u)}]>>]
  <2>1. CASE u = {}
    <3>1. h[{}] = <<{}, base>>
      BY <1>7 DEF IsRecursion
    <3> QED
      BY <2>1, <3>1
  <2>2. CASE u # {}
    <3>1. u \ {C[u]} \in SUBSET S /\ C[u] = Max(u)
      BY <1>2, <2>2
    <3>2. h[u][2] = step[<<Max(u), h[u \ {Max(u)}][2]>>]
      <4> HIDE DEF F
      <4> QED
        BY <1>9, <1>10, <2>2, <3>1
    <3> QED
      BY <2>2, <3>1, <3>2
  <2> QED
    BY <2>1, <2>2
<1>12. \A u \in SUBSET S : g[u] \in V[u]
  BY <1>10
<1>13. g = [u \in SUBSET S |-> IF u = {} THEN base ELSE step[<<Max(u), g[u \ {Max(u)}]>>]]
  <2> DEFINE e == [u \in SUBSET S |-> IF u = {} THEN base ELSE step[<<Max(u), g[u \ {Max(u)}]>>]]
  <2>1. \A u \in SUBSET S : g[u] = e[u]
    <3> HIDE DEF g
    <3> QED
      BY <1>11
  <2>2. e = [u \in SUBSET S |-> e[u]] /\ g = [u \in SUBSET S |-> g[u]]
    OBVIOUS
  <2> HIDE DEF e, g
  <2>3. g = e
    BY <2>1, <2>2
  <2> QED
    BY <2>3 DEF e
<1> QED
  <2> HIDE DEF g
  <2>1. IsLoop(g, n, V, base, step)
    BY <1>12, <1>13 DEF S, IsLoop
  <2> QED
    BY <2>1

-----------------------------------------------------------------------------
(* Functions on numbers that are defined by recursion.                     *)
AreSteps(f, n, V, base, step) ==
  f \in [0 .. n -> V] /\ f[0] = base /\ \A i \in 1 .. n : f[i] = step[f[i - 1]]

LEMMA StepsExist ==
  ASSUME NEW V, NEW base \in V, NEW step \in [V -> V], NEW n \in Nat
  PROVE  \E f : AreSteps(f, n, V, base, step)
<1> DEFINE R(f, m) == f \in [0 .. m -> V] /\ f[0] = base /\
                        \A i \in 1 .. m : f[i] = step[f[i - 1]]
           T == {m \in Nat : ~ \E f : R(f, m)}
<1> SUFFICES ASSUME T # {} PROVE FALSE
  BY DEF AreSteps
<1>1. PICK m \in T : \A k \in T : m <= k
  BY LeastNumber
<1>2. m \in Nat /\ ~ \E f : R(f, m)
  BY <1>1
<1>3. m # 0
  <2>1. R([i \in 0 .. 0 |-> base], 0)
    OBVIOUS
  <2> QED
    BY <1>2, <2>1
<1>4. PICK f : R(f, m - 1)
  <2>1. m - 1 \in Nat /\ ~(m <= m - 1)
    BY <1>2, <1>3
  <2>2. m - 1 \notin T
    <3> HIDE DEF T
    <3> QED
      BY <1>1, <2>1
  <2> QED
    BY <2>1, <2>2
<1> DEFINE g == [i \in 0 .. m |-> IF i = m THEN step[f[m - 1]] ELSE f[i]]
<1>5. \A i \in 0 .. m : i # m => i \in 0 .. (m - 1)
  BY <1>2
<1>6. m - 1 \in 0 .. (m - 1) /\ 0 \in 0 .. m /\ m \in 0 .. m
  BY <1>2, <1>3
<1>7. f \in [0 .. (m - 1) -> V]
  BY <1>4
<1>8. g \in [0 .. m -> V]
  BY <1>5, <1>6, <1>7
<1>9. g[0] = base
  BY <1>3, <1>4, <1>6
<1>10. ASSUME NEW i \in 1 .. m PROVE g[i] = step[g[i - 1]]
  <2>1. i \in 0 .. m /\ i - 1 \in 0 .. m /\ i - 1 # m
    BY <1>2
  <2>2. g[i - 1] = f[i - 1]
    BY <2>1
  <2>3. CASE i = m
    BY <2>1, <2>2, <2>3
  <2>4. CASE i # m
    <3>1. i \in 1 .. (m - 1)
      BY <1>2, <2>4
    <3>2. f[i] = step[f[i - 1]]
      BY <1>4, <3>1
    <3> QED
      BY <2>1, <2>2, <2>4, <3>2
  <2> QED
    BY <2>3, <2>4
<1>11. R(g, m)
  <2> HIDE DEF g
  <2> QED
    BY <1>8, <1>9, <1>10
<1> QED
  BY <1>2, <1>11

(* A list without the elements of another.                                  *)
Without(list, taken) == FoldLeft(RemoveFirst, list, taken)

LEMMA WithoutAll ==
  ASSUME NEW A, NEW list \in Seq(A), NEW taken \in Seq(A), NEW r \in [A -> Int],
         Rising(list, r)
  PROVE  /\ Without(list, taken) \in Seq(A)
         /\ Rising(Without(list, taken), r)
         /\ ToSet(Without(list, taken)) = ToSet(list) \ ToSet(taken)
<1> DEFINE n == Len(taken)
           V == [u \in SUBSET (1 .. n) |-> {w \in Seq(A) : Rising(w, r) /\
                                   ToSet(w) = ToSet(list) \ {taken[i] : i \in u}}]
           After(w, i) == RemoveFirst(w, taken[i])
           step == [p \in (1 .. n) \X Seq(A) |-> After(p[2], p[1])]
           iter == CHOOSE iter : iter = [u \in SUBSET DOMAIN taken |->
                     IF u = {} THEN list ELSE After(iter[u \ {Max(u)}], Max(u))]
<1>1. Without(list, taken) = iter[DOMAIN taken]
  BY DEF Without, FoldLeft, MapThenFoldSet
<1>2. n \in Nat /\ DOMAIN taken = 1 .. n
  OBVIOUS
<1>3. list \in V[{}]
  OBVIOUS
<1>4. ASSUME NEW u \in SUBSET (1 .. n), u # {}, NEW w \in V[u \ {Max(u)}]
      PROVE  After(w, Max(u)) \in V[u] /\ Max(u) \in 1 .. n /\ w \in Seq(A)
  <2>1. Max(u) \in 1 .. n /\ Max(u) \in u
    <3> HIDE DEF n
    <3> QED
      BY <1>2, <1>4, LastPlace
  <2>2. u \ {Max(u)} \in SUBSET (1 .. n)
    OBVIOUS
  <2> DEFINE m == Max(u)
             T == ToSet(list)
  <2>3. /\ w \in Seq(A) /\ Rising(w, r)
        /\ ToSet(w) = T \ {taken[i] : i \in u \ {m}}
    BY <1>4, <2>2
  <2>4. /\ After(w, m) \in Seq(A) /\ Rising(After(w, m), r)
        /\ ToSet(After(w, m)) = ToSet(w) \ {taken[m]}
    <3> HIDE DEF T, m, V, n
    <3>1. w \in Seq(A) /\ Rising(w, r)
      BY <2>3
    <3> QED
      BY <3>1, RisingWithout
  <2> HIDE DEF T, n, m, After
  <2>5. ToSet(After(w, m)) = T \ {taken[i] : i \in u}
    BY <2>1, <2>3, <2>4 DEF m
  <2> QED
    BY <1>4, <2>1, <2>3, <2>4, <2>5 DEF m, T
<1>5. PICK g : IsLoop(g, n, V, list, step)
  <2>1. LoopSteps(n, V, step)
    <3> HIDE DEF n, V, After
    <3> QED
      BY <1>4 DEF LoopSteps
  <2> HIDE DEF n, V, step
  <2> QED
    BY <1>2, <1>3, <2>1, LoopExists
<1>6. iter = [u \in SUBSET DOMAIN taken |->
                IF u = {} THEN list ELSE After(iter[u \ {Max(u)}], Max(u))]
  <2> DEFINE Is(f) == f = [u \in SUBSET DOMAIN taken |->
                IF u = {} THEN list ELSE After(f[u \ {Max(u)}], Max(u))]
  <2>1. ASSUME NEW u \in SUBSET (1 .. n), u # {}
        PROVE  step[<<Max(u), g[u \ {Max(u)}]>>] = After(g[u \ {Max(u)}], Max(u))
    <3>1. g[u \ {Max(u)}] \in V[u \ {Max(u)}]
      BY <1>5, <2>1 DEF IsLoop
    <3> HIDE DEF V, After, n
    <3> QED
      BY <1>4, <2>1, <3>1
  <2>2. Is(g)
    <3> HIDE DEF V, After, n, step
    <3> QED
      BY <1>2, <1>5, <2>1 DEF IsLoop
  <2> HIDE DEF Is
  <2>3. Is(CHOOSE f : Is(f))
    BY <2>2
  <2> QED
    BY <2>3 DEF Is
<1> HIDE DEF iter
<1>7. \A u \in SUBSET (1 .. n) : iter[u] \in V[u]
  <2>1. iter[{}] \in V[{}]
    <3>1. iter[{}] = list
      BY <1>6
    <3> HIDE DEF V
    <3> QED
      BY <1>3, <3>1
  <2>2. \A u \in SUBSET (1 .. n) :
          u # {} /\ iter[u \ {Max(u)}] \in V[u \ {Max(u)}] => iter[u] \in V[u]
    <3> HIDE DEF V, After, n
    <3> QED
      BY <1>2, <1>4, <1>6
  <2> HIDE DEF V, n
  <2> QED
    BY <1>2, <2>1, <2>2, LoopStays
<1>8. {taken[i] : i \in 1 .. n} = ToSet(taken)
  BY <1>2 DEF ToSet
<1> QED
  BY <1>1, <1>2, <1>7, <1>8
=============================================================================
